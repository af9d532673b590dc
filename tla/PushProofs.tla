----------------------------- MODULE PushProofs -----------------------------
(***************************************************************************)
(* Proofs about Push, for every bound on time, clock steps and faults and  *)
(* every delay of the notification: an outage is told of in time and once, *)
(* and SERVED is said only of what was pushed, and of every page that      *)
(* serves what is installed.                                               *)
(***************************************************************************)
EXTENDS Push, TLAPS

Captures == [Source -> Nat]
Envelope == [ok : BOOLEAN, captured : Captures]
Kept     == [schema : {"v1"}, since : Nat, notified : BOOLEAN]
            \cup [schema : {"v2"}, captured : Captures, since : Nat, notified : BOOLEAN]

\* Every instant of one document is at most the other's.
NoNewer(c, d) == \A s \in Source : c[s] <= d[s]

----------------------------------------------------------------------------
(* The latch and the outage it times. *)

PushTypes ==
  /\ clock \in Nat \ {0}
  /\ run \in [pc : {"off", "evaluate", "capture", "export", "push", "record"},
              now : Nat, waited : Nat, envelope : Envelope, captured : Captures]
  /\ state \in {NoState} \cup Kept
  /\ host \in Captures /\ floor \in Captures /\ page \in Envelope /\ newest \subseteq Captures
  /\ outage \in [on : BOOLEAN, passed : Nat, judged : Nat, told : Nat]
  /\ steps \in [faults : Nat, back : Nat]

\* The outage on record is the latch's, told of exactly where the latch says so.
LatchIsTheOutage ==
  /\ state = NoState => outage = NoOutage
  /\ state # NoState =>
       /\ outage.on <=> state.since # 0
       /\ ~outage.on => outage = NoOutage /\ ~state.notified
       /\ outage.told = IF state.notified THEN 1 ELSE 0

\* What the latch has timed is behind by the step of the clock at most.
LatchKeepsTime ==
  outage.on => /\ clock + steps.back >= state.since + outage.passed
               /\ outage.judged <= outage.passed

\* A check under way judges the time at which it began.
CheckKeepsTime ==
  At("evaluate") =>
    /\ state # NoState /\ Judged /\ run.now # 0
    /\ run.waited <= outage.passed
    /\ ~outage.on => run.waited = 0
    /\ outage.on => run.now + steps.back >= state.since + run.waited
    /\ clock + steps.back >= run.now + outage.passed - run.waited

\* What was told of was due, what is due was told of.
ToldInTime == outage.judged > NotifyAfter + steps.back => outage.told >= 1

NoticeInv == PushTypes /\ LatchIsTheOutage /\ LatchKeepsTime /\ CheckKeepsTime /\ ToldInTime

----------------------------------------------------------------------------
(* The order of the documents, while the clock never stepped back. *)

Installed == {host, page.captured} \cup newest

\* Nothing was captured later than now, nor than the document under way.
NothingIsLater ==
  /\ \A c \in Installed : \A s \in Source : c[s] <= clock
  /\ run.pc \in {"export", "push", "record"} =>
       /\ run.captured["merged"] <= clock
       /\ \A c \in Installed : c["merged"] <= run.captured["merged"]
  /\ run.pc \in {"push", "record"} =>
       /\ run.captured["walked"] <= clock
       /\ \A c \in Installed : c["walked"] <= run.captured["walked"]

\* What is installed is no older than the record; it or what is served was
\* pushed since, or is no newer.
RecordIsRecent ==
  Judged =>
    /\ state.captured \in newest
    /\ NoNewer(state.captured, host)
    /\ \A c \in {host, page.captured} : c \in newest \/ NoNewer(c, state.captured)
    /\ At("evaluate") =>
         run.envelope.captured \in newest \/ NoNewer(run.envelope.captured, state.captured)

OrderInv == steps.back = 0 => NothingIsLater /\ RecordIsRecent

\* What is about to be recorded is what is installed.
RecordNamesInstalled == At("record") => host = run.captured

----------------------------------------------------------------------------
(* Types. *)

LEMMA Constants ==
    /\ BuiltIn \in Captures /\ NoPage \in Envelope /\ NoState \notin Kept
    /\ Off.pc = "off" /\ NoOutage \in [on : BOOLEAN, passed : Nat, judged : Nat, told : Nat]
    /\ Off \in [pc : {"off", "evaluate", "capture", "export", "push", "record"},
                now : Nat, waited : Nat, envelope : Envelope, captured : Captures]
    /\ NoOutage.on = FALSE /\ NoOutage.passed = 0 /\ NoOutage.judged = 0 /\ NoOutage.told = 0
    /\ NoState.schema # "v2"
<1>1. BuiltIn \in Captures
    BY DEF BuiltIn, Captures
<1>2. NoPage \in Envelope
    BY <1>1 DEF NoPage, Envelope
<1>3. NoState \notin Kept /\ NoState.schema # "v2"
    BY DEF NoState, Kept
<1>4. QED
    BY <1>1, <1>2, <1>3 DEF Off, NoOutage

(* The parts of what is kept. *)
LEMMA KeptParts ==
    ASSUME PushTypes, state # NoState
    PROVE  /\ state \in Kept /\ state.since \in Nat /\ state.notified \in BOOLEAN
           /\ Judged => /\ state.captured \in Captures
                        /\ state \in [schema : {"v2"}, captured : Captures, since : Nat, notified : BOOLEAN]
BY DEF PushTypes, Kept, Judged

(* The verdict of a check under way is kept beside what was pushed.        *)
LEMMA VerdictIs ==
    ASSUME PushTypes, state # NoState, Judged
    PROVE  /\ Since \in Nat /\ Verdict \in Kept /\ Verdict # NoState /\ Verdict.schema = "v2"
           /\ Verdict.captured = state.captured
           /\ Served(run.envelope) => Verdict.since = 0 /\ Verdict.notified = FALSE
           /\ ~Served(run.envelope) => Verdict.since = Since /\ Verdict.notified = (state.notified \/ Notifies)
<1>1. /\ state \in [schema : {"v2"}, captured : Captures, since : Nat, notified : BOOLEAN]
      /\ run.now \in Nat
    BY KeptParts DEF PushTypes
<1>2. Since \in Nat
    BY <1>1 DEF Since
<1>3. state.notified \/ Notifies \in BOOLEAN
    BY <1>1 DEF Notifies
<1>4. CASE Served(run.envelope)
    <2>1. Verdict = [state EXCEPT !.since = 0, !.notified = FALSE]
        BY <1>4 DEF Verdict
    <2>2. QED
        BY <1>1, <1>2, <1>4, <2>1, Constants DEF Kept
<1>5. CASE ~Served(run.envelope)
    <2> DEFINE told == state.notified \/ Notifies
    <2>1. Verdict = [state EXCEPT !.since = Since, !.notified = told]
        BY <1>5 DEF Verdict
    <2>2. told \in BOOLEAN
        BY <1>3
    <2> HIDE DEF told
    <2>3. /\ Verdict \in [schema : {"v2"}, captured : Captures, since : Nat, notified : BOOLEAN]
          /\ Verdict.since = Since /\ Verdict.notified = told /\ Verdict.captured = state.captured
        BY <1>1, <1>2, <2>1, <2>2
    <2>4. QED
        BY <1>2, <1>5, <2>3, Constants DEF Kept, told
<1>6. QED
    BY <1>4, <1>5

LEMMA TypesKept ==
    ASSUME PushTypes, At("evaluate") => state # NoState /\ Judged, Next
    PROVE  PushTypes'
<1> USE PushAssumption DEF PushTypes
<1>1. CASE Passes
    BY <1>1 DEF Passes
<1>2. CASE StepsBack
    <2>1. PICK n \in 1 .. MaxBack : n < clock /\ clock' = clock - n /\ steps' = [steps EXCEPT !.back = n]
        BY <1>2 DEF StepsBack
    <2>2. clock' \in Nat \ {0} /\ n \in Nat
        BY <2>1
    <2>3. QED
        BY <1>2, <2>1, <2>2 DEF StepsBack
<1>3. CASE OriginReads
    <2>1. [ok |-> TRUE, captured |-> host] \in Envelope /\ [page EXCEPT !.ok = FALSE] \in Envelope
        BY DEF Envelope
    <2>2. page' \in Envelope /\ floor' \in Captures
        BY <1>3, <2>1 DEF OriginReads
    <2>3. QED
        BY <1>3, <2>2 DEF OriginReads
<1>4. CASE OriginFalls
    <2>1. [page EXCEPT !.ok = FALSE] \in Envelope
        BY DEF Envelope
    <2>2. page' \in Envelope
        BY <1>4, <2>1, Constants DEF OriginFalls
    <2>3. steps' \in [faults : Nat, back : Nat]
        BY <1>4 DEF OriginFalls, Fault
    <2>4. floor' \in Captures
        BY <1>4, Constants DEF OriginFalls
    <2>5. QED
        BY <1>4, <2>2, <2>3, <2>4 DEF OriginFalls
<1>5. CASE StateLost
    BY <1>5, Constants DEF StateLost, Fault
<1>6. CASE Check
    <2>1. run' \in [pc : {"off", "evaluate", "capture", "export", "push", "record"},
                    now : Nat, waited : Nat, envelope : Envelope, captured : Captures]
        BY <1>6, Constants DEF Check, ToCapture
    <2>2. QED
        BY <1>6, <2>1 DEF Check
<1>7. CASE CheckUnavailable
    BY <1>7, Constants DEF CheckUnavailable, ToCapture, Fault
<1>8. CASE Evaluate
    <2>1. state' \in Kept
        BY <1>8, VerdictIs DEF Evaluate
    <2>2. Told \in {0, 1}
        BY DEF Told
    <2>3. outage' \in [on : BOOLEAN, passed : Nat, judged : Nat, told : Nat]
        BY <1>8, <2>2, Constants DEF Evaluate
    <2>4. QED
        BY <1>8, <2>1, <2>3, Constants DEF Evaluate, ToCapture
<1>9. CASE EvaluateUnwritten
    BY <1>9, Constants DEF EvaluateUnwritten, ToCapture, Fault
<1>10. CASE Capture
    <2>1. [run.captured EXCEPT !["merged"] = clock] \in Captures
        BY DEF Captures
    <2>2. QED
        BY <1>10, <2>1 DEF Capture
<1>11. CASE Export
    <2>1. Exported \in Captures
        BY DEF Exported, Captures
    <2>2. QED
        BY <1>11, <2>1, Constants DEF Export
<1>12. CASE Push
    BY <1>12 DEF Push, Goes
<1>13. CASE PushLost
    BY <1>13, Constants DEF PushLost, Fault
<1>14. CASE Record
    <2>1. Carried("since", 0) \in Nat /\ Carried("notified", FALSE) \in BOOLEAN
        BY DEF Carried, Kept
    <2>2. state' \in Kept
        BY <1>14, <2>1 DEF Record, Kept
    <2>3. QED
        BY <1>14, <2>2, Constants DEF Record
<1>15. CASE Stops
    BY <1>15, Constants DEF Stops, Fault
<1>16. QED
    BY <1>1, <1>2, <1>3, <1>4, <1>5, <1>6, <1>7, <1>8, <1>9, <1>10, <1>11, <1>12, <1>13, <1>14, <1>15
       DEF Next, RunStep

----------------------------------------------------------------------------
(* The notification. *)

LEMMA InitNotice == Init => NoticeInv
<1> SUFFICES ASSUME Init PROVE NoticeInv
    OBVIOUS
<1>1. state \in {NoState} \cup Kept /\ (state # NoState => state.since = 0 /\ state.notified = FALSE)
    <2> DEFINE first == [schema |-> "v1", since |-> 0, notified |-> FALSE]
    <2>1. first \in Kept /\ first.since = 0 /\ first.notified = FALSE
        BY DEF Kept
    <2>2. state = NoState \/ state = first
        BY DEF Init
    <2> HIDE DEF first
    <2>3. QED
        BY <2>1, <2>2
<1>2. PushTypes
    BY <1>1, Constants DEF Init, PushTypes
<1>3. ~At("evaluate")
    BY Constants DEF Init, At
<1>4. QED
    BY <1>1, <1>2, <1>3, Constants, PushAssumption
       DEF Init, NoticeInv, LatchIsTheOutage, LatchKeepsTime, CheckKeepsTime, ToldInTime

(* A recorded verdict on a page that does not serve starts the outage or   *)
(* goes on with it, and tells of it once it is due.                        *)
LEMMA NotServedKeeps ==
    ASSUME NoticeInv, PushTypes', Evaluate, ~Served(run.envelope)
    PROVE  NoticeInv'
<1> USE PushAssumption
<1>1. /\ state # NoState /\ Judged /\ run.now # 0 /\ run.now \in Nat /\ run.waited \in Nat
      /\ run.waited <= outage.passed
      /\ ~outage.on => run.waited = 0
      /\ outage.on => run.now + steps.back >= state.since + run.waited
      /\ clock + steps.back >= run.now + outage.passed - run.waited
    BY DEF NoticeInv, PushTypes, CheckKeepsTime, Evaluate
<1>2. /\ state.since \in Nat /\ state.notified \in BOOLEAN
      /\ outage.on \in BOOLEAN /\ outage.passed \in Nat /\ outage.judged \in Nat /\ outage.told \in Nat
      /\ steps.back \in Nat /\ clock \in Nat
    BY <1>1, KeptParts DEF NoticeInv, PushTypes
<1>3. /\ outage.on <=> state.since # 0
      /\ ~outage.on => outage.passed = 0
      /\ outage.told = IF state.notified THEN 1 ELSE 0
      /\ outage.on => clock + steps.back >= state.since + outage.passed
    BY <1>1, Constants DEF NoticeInv, LatchIsTheOutage, LatchKeepsTime
<1>4. /\ state'.since = Since /\ state'.notified = (state.notified \/ Notifies) /\ state' # NoState
      /\ Since \in Nat
    BY <1>1, VerdictIs DEF Evaluate, NoticeInv
<1>5. /\ outage'.on = TRUE /\ outage'.passed = outage.passed /\ outage'.judged = run.waited
      /\ outage'.told = outage.told + Told
      /\ steps' = steps /\ clock' = clock /\ ~At("evaluate")'
    BY Constants DEF Evaluate, ToCapture, At
<1>6. Since # 0 /\ Since <= run.now /\ (Since = run.now \/ (Since = state.since /\ outage.on))
    BY <1>1, <1>2, <1>3 DEF Since
<1>7. Told = IF Notifies THEN 1 ELSE 0
    BY DEF Told
<1>8. Notifies <=> ~state.notified /\ run.now - Since > NotifyAfter
    BY DEF Notifies
<1> HIDE DEF Since, Notifies, Told
<1>9. LatchIsTheOutage'
    <2>1. state'.notified <=> state.notified \/ Notifies
        BY <1>4, Zenon
    <2>2. CASE state.notified
        <3>1. state'.notified /\ ~Notifies
            BY <1>8, <2>1, <2>2, Zenon
        <3>2. outage'.told = 1
            BY <1>3, <1>5, <1>7, <2>2, <3>1
        <3>3. QED
            BY <1>4, <1>5, <1>6, <3>1, <3>2 DEF LatchIsTheOutage
    <2>3. CASE ~state.notified /\ Notifies
        <3>1. state'.notified
            BY <2>1, <2>3, Zenon
        <3>2. outage'.told = 1
            BY <1>3, <1>5, <1>7, <2>3
        <3>3. QED
            BY <1>4, <1>5, <1>6, <3>1, <3>2 DEF LatchIsTheOutage
    <2>4. CASE ~state.notified /\ ~Notifies
        <3>1. ~state'.notified
            BY <2>1, <2>4, Zenon
        <3>2. outage'.told = 0
            BY <1>3, <1>5, <1>7, <2>4
        <3>3. QED
            BY <1>4, <1>5, <1>6, <3>1, <3>2 DEF LatchIsTheOutage
    <2>5. QED
        BY <2>2, <2>3, <2>4
<1>10. LatchKeepsTime'
    <2>1. clock + steps.back >= Since + outage.passed
        <3>1. CASE Since = state.since /\ outage.on
            BY <1>3, <3>1
        <3>2. CASE Since = run.now /\ ~outage.on
            BY <1>1, <1>2, <1>3, <3>2
        <3>3. CASE Since = run.now /\ outage.on /\ Since # state.since
            BY <1>1, <1>2, <1>3, <3>3 DEF Since
        <3>4. QED
            BY <1>2, <1>6, <3>1, <3>2, <3>3
    <2>2. QED
        BY <1>1, <1>4, <1>5, <2>1 DEF LatchKeepsTime
<1>11. ToldInTime'
    <2>1. SUFFICES ASSUME run.waited > NotifyAfter + steps.back PROVE outage'.told >= 1
        BY <1>5 DEF ToldInTime
    <2>2. outage.on
        BY <1>1, <1>2, <2>1
    <2>3. Since = state.since
        BY <1>1, <1>2, <1>3, <2>1, <2>2 DEF Since
    <2>4. run.now - Since > NotifyAfter
        BY <1>1, <1>2, <2>1, <2>2, <2>3
    <2>5. CASE state.notified
        BY <1>2, <1>3, <1>5, <1>7, <2>5
    <2>6. CASE ~state.notified
        BY <1>2, <1>3, <1>5, <1>7, <1>8, <2>4, <2>6
    <2>7. QED
        BY <2>5, <2>6
<1>12. CheckKeepsTime'
    BY <1>5 DEF CheckKeepsTime
<1>13. QED
    BY <1>9, <1>10, <1>11, <1>12 DEF NoticeInv

LEMMA NextKeepsNotice == NoticeInv /\ [Next]_vars => NoticeInv'
<1> SUFFICES ASSUME NoticeInv, [Next]_vars PROVE NoticeInv'
    OBVIOUS
<1> USE PushAssumption
<1>1. CASE UNCHANGED vars
    BY <1>1 DEF vars, NoticeInv, PushTypes, LatchIsTheOutage, LatchKeepsTime, CheckKeepsTime, ToldInTime,
                Judged, At
<1>2. CASE Next
    <2>0. PushTypes'
        BY <1>2, TypesKept DEF NoticeInv, CheckKeepsTime
    <2>a. /\ clock \in Nat /\ steps.back \in Nat /\ run.now \in Nat /\ run.waited \in Nat
          /\ outage.passed \in Nat /\ outage.judged \in Nat /\ outage.told \in Nat /\ outage.on \in BOOLEAN
          /\ state # NoState => state.since \in Nat /\ state.notified \in BOOLEAN
        BY KeptParts DEF NoticeInv, PushTypes
    <2> USE DEF NoticeInv, LatchIsTheOutage, LatchKeepsTime, CheckKeepsTime, ToldInTime, Judged, At
    <2>1. CASE Passes
        <3>1. /\ clock' = clock + 1 /\ UNCHANGED <<run, state, steps>>
              /\ outage' = IF outage.on THEN [outage EXCEPT !.passed = outage.passed + 1] ELSE outage
            BY <2>1 DEF Passes
        <3>2. CASE ~outage.on
            BY <2>0, <2>a, <3>1, <3>2
        <3>3. CASE outage.on
            <4>1. /\ outage'.on = outage.on /\ outage'.passed = outage.passed + 1
                  /\ outage'.judged = outage.judged /\ outage'.told = outage.told
                BY <3>1, <3>3 DEF PushTypes
            <4>2. state # NoState
                BY <3>3, Constants
            <4>3. QED
                BY <2>0, <2>a, <3>1, <3>3, <4>1, <4>2
        <3>4. QED
            BY <3>2, <3>3
    <2>2. CASE StepsBack
        <3>1. PICK n \in 1 .. MaxBack : clock' = clock - n /\ steps' = [steps EXCEPT !.back = n]
            BY <2>2 DEF StepsBack
        <3>2. steps.back = 0 /\ steps'.back = n /\ UNCHANGED <<run, state, outage>> /\ n \in Nat
            BY <2>2, <3>1 DEF StepsBack, PushTypes
        <3>3. QED
            BY <2>0, <2>a, <3>1, <3>2
    <2>3. CASE OriginReads \/ OriginFalls
        <3>1. UNCHANGED <<clock, run, state, outage>> /\ steps'.back = steps.back
            BY <2>3 DEF OriginReads, OriginFalls, Fault, PushTypes
        <3>2. QED
            BY <2>0, <3>1
    <2>4. CASE StateLost
        <3>1. ~At("evaluate") /\ UNCHANGED <<clock, run>> /\ state' = NoState /\ outage' = NoOutage
              /\ steps'.back = steps.back
            BY <2>4 DEF StateLost, Fault, PushTypes
        <3>2. QED
            BY <2>0, <2>a, <3>1, Constants
    <2>5. CASE Check
        <3>1. UNCHANGED <<clock, state, outage, steps>>
            BY <2>5 DEF Check
        <3>2. CASE Judged
            <4>1. /\ run'.pc = "evaluate" /\ run'.now = clock /\ run'.waited = outage.passed
                BY <2>5, <3>2 DEF Check, Off
            <4>2. state # NoState /\ clock # 0
                BY <3>2, Constants DEF PushTypes
            <4>3. QED
                BY <2>0, <2>a, <3>1, <3>2, <4>1, <4>2, Constants
        <3>3. CASE ~Judged
            <4>1. run'.pc = "capture"
                BY <2>5, <3>3 DEF Check, ToCapture, Off
            <4>2. QED
                BY <2>0, <2>a, <3>1, <4>1
        <3>4. QED
            BY <3>2, <3>3
    <2>6. CASE CheckUnavailable \/ EvaluateUnwritten \/ Capture \/ Export \/ Push \/ PushLost \/ Stops
        <3>1. UNCHANGED <<clock, state, outage>> /\ steps'.back = steps.back
            BY <2>6 DEF CheckUnavailable, EvaluateUnwritten, Capture, Export, Push, PushLost, Stops, Fault,
                        PushTypes
        <3>2. run'.pc # "evaluate"
            <4>1. CASE CheckUnavailable \/ EvaluateUnwritten
                BY <4>1 DEF CheckUnavailable, EvaluateUnwritten, ToCapture, Off
            <4>2. CASE Capture
                BY <4>2 DEF Capture, PushTypes
            <4>3. CASE Export
                <5>1. run'.pc = "push" \/ run' = Off
                    BY <4>3 DEF Export, PushTypes
                <5>2. QED
                    BY <5>1, Constants
            <4>4. CASE Push
                BY <4>4 DEF Push, Goes, PushTypes
            <4>5. CASE PushLost \/ Stops
                BY <4>5, Constants DEF PushLost, Stops
            <4>6. QED
                BY <2>6, <4>1, <4>2, <4>3, <4>4, <4>5
        <3>3. QED
            BY <2>0, <2>a, <3>1, <3>2
    <2>7. CASE Evaluate /\ Served(run.envelope)
        <3>1. state' # NoState /\ state'.since = 0 /\ state'.notified = FALSE
            BY <2>7, VerdictIs DEF Evaluate
        <3>2. outage' = NoOutage /\ run'.pc = "capture" /\ UNCHANGED <<clock, steps>>
            BY <2>7 DEF Evaluate, ToCapture, Off
        <3>3. QED
            BY <2>0, <2>a, <3>1, <3>2, Constants
    <2>8. CASE Evaluate /\ ~Served(run.envelope)
        BY <2>0, <2>8, NotServedKeeps
    <2>9. CASE Record
        <3>1. UNCHANGED <<clock, outage, steps>> /\ run'.pc = "off"
            BY <2>9, Constants DEF Record
        <3>2. state'.since = Carried("since", 0) /\ state'.notified = Carried("notified", FALSE)
            BY <2>9 DEF Record
        <3>3. state' # NoState
            BY <2>9 DEF Record, NoState
        <3>4. CASE state = NoState
            BY <2>0, <2>a, <3>1, <3>2, <3>3, <3>4, Constants DEF Carried
        <3>5. CASE state # NoState
            BY <2>0, <2>a, <3>1, <3>2, <3>3, <3>5 DEF Carried
        <3>6. QED
            BY <3>4, <3>5
    <2>10. QED
        BY <1>2, <2>1, <2>2, <2>3, <2>4, <2>5, <2>6, <2>7, <2>8, <2>9 DEF Next, RunStep
<1>3. QED
    BY <1>1, <1>2

(* For every bound and whatever is pushed, lost or stepped back meanwhile: *)
(* a page that goes on not serving is told of in time, and once            *)
(* (evaluate, record).                                                     *)
THEOREM OutageIsTold == Spec => []NotifiedInTime
<1>1. NoticeInv => NotifiedInTime
    <2> SUFFICES ASSUME NoticeInv PROVE NotifiedInTime
        OBVIOUS
    <2>1. outage.told <= 1
        BY KeptParts, Constants DEF NoticeInv, LatchIsTheOutage
    <2>2. QED
        BY <2>1 DEF NoticeInv, ToldInTime, NotifiedInTime
<1>2. QED
    BY <1>1, InitNotice, NextKeepsNotice, PTL DEF Spec

----------------------------------------------------------------------------
(* What SERVED is said of. *)

PushInv == NoticeInv /\ OrderInv /\ RecordNamesInstalled

LEMMA InstalledAre ==
    ASSUME PushTypes PROVE Installed \subseteq Captures /\ run.captured \in Captures /\ clock \in Nat
BY DEF PushTypes, Installed, Envelope

LEMMA InitOrder == Init => OrderInv
<1> SUFFICES ASSUME Init PROVE OrderInv
    OBVIOUS
<1>1. Installed = {BuiltIn}
    BY DEF Init, Installed, NoPage
<1>2. \A s \in Source : BuiltIn[s] <= clock
    BY DEF Init, BuiltIn
<1>3. run.pc = "off" /\ ~Judged
    BY Constants DEF Init, Judged
<1>4. QED
    BY <1>1, <1>2, <1>3 DEF OrderInv, NothingIsLater, RecordIsRecent

LEMMA NextNamesInstalled ==
    ASSUME PushTypes, RecordNamesInstalled, [Next]_vars PROVE RecordNamesInstalled'
<1>1. CASE Push
    BY <1>1 DEF Push, Goes, PushTypes, RecordNamesInstalled, At
<1>2. CASE UNCHANGED vars \/ Passes \/ StepsBack \/ OriginReads \/ OriginFalls \/ StateLost
    <2>1. UNCHANGED <<run, host>>
        BY <1>2 DEF vars, Passes, StepsBack, OriginReads, OriginFalls, StateLost
    <2>2. QED
        BY <2>1 DEF RecordNamesInstalled, At
<1>3. CASE Check \/ Evaluate \/ CheckUnavailable \/ EvaluateUnwritten \/ PushLost \/ Stops \/ Record
    <2>1. run'.pc \in {"evaluate", "capture", "off"}
        BY <1>3, Constants DEF Check, Evaluate, CheckUnavailable, EvaluateUnwritten, PushLost, Stops, Record,
                               ToCapture, Off
    <2>2. QED
        BY <2>1 DEF RecordNamesInstalled, At
<1>4. CASE Capture \/ Export
    <2>1. run'.pc = "export" \/ run'.pc = "push" \/ run'.pc = "off"
        BY <1>4, Constants DEF Capture, Export, PushTypes
    <2>2. QED
        BY <2>1 DEF RecordNamesInstalled, At
<1>5. QED
    BY <1>1, <1>2, <1>3, <1>4 DEF Next, RunStep

(* A step that installs nothing and starts no stage keeps the order. *)
LEMMA SameOrder ==
    ASSUME PushTypes, steps.back = 0 => NothingIsLater, clock' \in Nat, steps.back = 0 => clock' >= clock,
           steps'.back = 0 => steps.back = 0,
           Installed' \subseteq Installed \cup {BuiltIn},
           run'.pc \in {"export", "push", "record"} => run'.pc = run.pc /\ run'.captured = run.captured
    PROVE  steps'.back = 0 => NothingIsLater'
<1> SUFFICES ASSUME steps'.back = 0 PROVE NothingIsLater'
    OBVIOUS
<1>1. clock \in Nat /\ \A c \in Installed' \cup {run.captured} : \A s \in Source : c[s] \in Nat
    BY InstalledAre, Constants DEF Captures
<1>2. \A s \in Source : BuiltIn[s] = 0
    BY DEF BuiltIn
<1>3. "walked" \in Source /\ "merged" \in Source
    BY DEF Source
<1>4. \A c \in Installed' : \A s \in Source : c[s] <= clock'
    BY <1>1, <1>2 DEF NothingIsLater
<1>5. run'.pc \in {"export", "push", "record"} =>
        /\ run'.captured["merged"] <= clock'
        /\ \A c \in Installed' : c["merged"] <= run'.captured["merged"]
    BY <1>1, <1>2, <1>3 DEF NothingIsLater
<1>6. run'.pc \in {"push", "record"} =>
        /\ run'.captured["walked"] <= clock'
        /\ \A c \in Installed' : c["walked"] <= run'.captured["walked"]
    BY <1>1, <1>2, <1>3 DEF NothingIsLater
<1>7. QED
    BY <1>4, <1>5, <1>6 DEF NothingIsLater

(* The order of the capture, the export and the push themselves.           *)
LEMMA DocumentOrder ==
    ASSUME PushTypes, steps.back = 0, NothingIsLater, Capture \/ Export \/ Push \/ PushLost
    PROVE  NothingIsLater'
<1>1. /\ clock \in Nat /\ run.captured \in Captures
      /\ \A c \in Installed \cup {run.captured} : \A s \in Source : c[s] \in Nat
    BY InstalledAre DEF Captures
<1>2. "walked" \in Source /\ "merged" \in Source /\ \A s \in Source : s = "walked" \/ s = "merged"
    BY DEF Source
<1>3. clock' = clock
    BY DEF Capture, Export, Push, PushLost
<1>4. CASE Capture
    <2>1. run'.pc = "export" /\ run'.captured["merged"] = clock /\ Installed' = Installed
        BY <1>4, <1>2 DEF Capture, PushTypes, Captures, Installed
    <2>2. QED
        BY <1>1, <1>2, <1>3, <2>1 DEF NothingIsLater
<1>5. CASE Export
    <2>1. Installed' = Installed /\ At("export")
        BY <1>5 DEF Export, Installed
    <2>2. CASE run' = Off
        BY <1>3, <2>1, <2>2, Constants DEF NothingIsLater
    <2>3. CASE run' = [run EXCEPT !.pc = "push", !.captured = Exported]
        <3>1. /\ run'.pc = "push" /\ run'.captured["walked"] = clock
              /\ run'.captured["merged"] = run.captured["merged"]
            BY <1>1, <1>2, <2>3 DEF PushTypes, Exported, Captures
        <3>2. QED
            BY <1>1, <1>2, <1>3, <2>1, <3>1 DEF NothingIsLater, At
    <2>4. QED
        BY <1>5, <2>2, <2>3 DEF Export
<1>6. CASE Push \/ PushLost
    <2>1. At("push") /\ Installed' \subseteq Installed \cup {run.captured}
        BY <1>6 DEF Push, PushLost, Installed
    <2>2. run' = Off \/ (run'.pc = "record" /\ run'.captured = run.captured)
        BY <1>6 DEF Push, PushLost, Goes, PushTypes
    <2>3. \A c \in Installed' : c["walked"] <= run.captured["walked"] /\ c["merged"] <= run.captured["merged"]
                                 /\ \A s \in Source : c[s] <= clock
        BY <1>1, <1>2, <2>1 DEF NothingIsLater, At
    <2>4. QED
        BY <1>3, <2>1, <2>2, <2>3, Constants DEF NothingIsLater, At
<1>7. QED
    BY <1>4, <1>5, <1>6

LEMMA NextKeepsOrder == PushInv /\ [Next]_vars => OrderInv'
<1> SUFFICES ASSUME PushInv, [Next]_vars PROVE OrderInv'
    OBVIOUS
<1>1. /\ PushTypes /\ OrderInv /\ clock \in Nat /\ steps.back \in Nat
      /\ steps.back = 0 => NothingIsLater /\ RecordIsRecent
    BY DEF PushInv, NoticeInv, PushTypes, OrderInv
<1>2. /\ At("evaluate") => Judged /\ state # NoState
      /\ \A s \in Source : BuiltIn[s] = 0
    BY DEF PushInv, NoticeInv, CheckKeepsTime, BuiltIn
<1>3. CASE UNCHANGED vars
    BY <1>1, <1>3 DEF vars, OrderInv, NothingIsLater, RecordIsRecent, Installed, Judged, At, NoNewer
<1>4. CASE StepsBack
    <2>1. steps'.back # 0
        BY <1>4 DEF StepsBack, PushTypes, PushInv, NoticeInv
    <2>2. QED
        BY <2>1 DEF OrderInv
<1>5. CASE Passes
    <2>1. clock' = clock + 1 /\ UNCHANGED <<run, state, host, page, newest, steps>>
        BY <1>5 DEF Passes
    <2>2. steps'.back = 0 => NothingIsLater'
        BY <1>1, <2>1, SameOrder DEF Installed
    <2>3. steps'.back = 0 => RecordIsRecent'
        BY <1>1, <2>1 DEF RecordIsRecent, Judged, At, NoNewer
    <2>4. QED
        BY <2>2, <2>3 DEF OrderInv
<1>6. CASE OriginReads \/ OriginFalls \/ CheckUnavailable \/ EvaluateUnwritten \/ Stops
    <2>1. /\ UNCHANGED <<clock, state, host, newest>> /\ steps'.back = steps.back
          /\ page'.captured \in {page.captured, host, BuiltIn}
        BY <1>1, <1>6 DEF OriginReads, OriginFalls, CheckUnavailable, EvaluateUnwritten, Stops, Fault,
                          PushTypes, Envelope, NoPage
    <2>2. run' = run \/ run'.pc = "off" \/ run'.pc = "capture"
        BY <1>6, Constants DEF OriginReads, OriginFalls, CheckUnavailable, EvaluateUnwritten, Stops,
                               ToCapture, Off
    <2>3. steps'.back = 0 => NothingIsLater'
        BY <1>1, <2>1, <2>2, SameOrder DEF Installed
    <2>4. ASSUME steps'.back = 0, Judged' PROVE RecordIsRecent'
        <3>1. RecordIsRecent /\ Judged
            BY <1>1, <2>1, <2>4 DEF Judged
        <3>2. state.captured \in Captures
            BY <1>1, <3>1, Constants, KeptParts DEF Judged
        <3>3. NoNewer(BuiltIn, state.captured)
            BY <1>2, <3>2 DEF NoNewer, Captures
        <3>4. QED
            BY <2>1, <2>2, <3>1, <3>3 DEF RecordIsRecent, At, Judged, NoNewer
    <2>5. QED
        BY <2>3, <2>4 DEF OrderInv, RecordIsRecent
<1>7. CASE StateLost
    <2>1. UNCHANGED <<clock, run, host, page, newest>> /\ state' = NoState /\ steps'.back = steps.back
        BY <1>1, <1>7 DEF StateLost, Fault, PushTypes
    <2>2. steps'.back = 0 => NothingIsLater'
        BY <1>1, <2>1, SameOrder DEF Installed
    <2>3. QED
        BY <2>1, <2>2, Constants DEF OrderInv, RecordIsRecent, Judged
<1>8. CASE Check
    <2>1. UNCHANGED <<clock, state, host, page, newest, steps>>
        BY <1>8 DEF Check
    <2>2. (run'.pc = "evaluate" /\ run'.envelope = page) \/ run'.pc = "capture"
        BY <1>8 DEF Check, ToCapture, Off
    <2>3. steps'.back = 0 => NothingIsLater'
        BY <1>1, <2>1, <2>2, SameOrder DEF Installed
    <2>4. steps'.back = 0 => RecordIsRecent'
        BY <1>1, <2>1, <2>2 DEF RecordIsRecent, Judged, At, NoNewer
    <2>5. QED
        BY <2>3, <2>4 DEF OrderInv
<1>9. CASE Evaluate
    <2>1. UNCHANGED <<clock, host, page, newest, steps>> /\ run'.pc = "capture"
        BY <1>9 DEF Evaluate, ToCapture, Off
    <2>2. Judged /\ state'.captured = state.captured
        BY <1>1, <1>2, <1>9, VerdictIs DEF Evaluate
    <2>3. steps'.back = 0 => NothingIsLater'
        BY <1>1, <2>1, SameOrder DEF Installed
    <2>4. steps'.back = 0 => RecordIsRecent'
        BY <1>1, <2>1, <2>2 DEF RecordIsRecent, At, NoNewer
    <2>5. QED
        BY <2>3, <2>4 DEF OrderInv
<1>10. CASE Capture \/ Export \/ Push \/ PushLost
    <2>1. UNCHANGED <<clock, state, page>> /\ steps'.back = steps.back
          /\ newest \subseteq newest' /\ (host' = host \/ host' \in newest')
        BY <1>1, <1>10 DEF Capture, Export, Push, PushLost, Fault, PushTypes
    <2>2. run'.pc # "evaluate"
        BY <1>1, <1>10, Constants DEF Capture, Export, Push, PushLost, Goes, PushTypes
    <2>3. steps'.back = 0 => NothingIsLater'
        BY <1>1, <1>10, <2>1, DocumentOrder
    <2>4. ASSUME steps'.back = 0, Judged, RecordIsRecent PROVE NoNewer(state.captured, host')
        <3>1. host' = host \/ (host' = run.captured /\ At("push"))
            BY <1>10 DEF Capture, Export, Push, PushLost
        <3>2. CASE host' = run.captured /\ At("push")
            <4>1. state.captured \in Installed /\ NothingIsLater
                BY <1>1, <2>1, <2>4 DEF RecordIsRecent, Installed
            <4>2. \A s \in Source : s = "walked" \/ s = "merged"
                BY DEF Source
            <4>3. QED
                BY <3>2, <4>1, <4>2 DEF NothingIsLater, NoNewer, At
        <3>3. CASE host' = host
            BY <2>4, <3>3 DEF RecordIsRecent
        <3>4. QED
            BY <3>1, <3>2, <3>3
    <2>5. steps'.back = 0 => RecordIsRecent'
        BY <1>1, <2>1, <2>2, <2>4 DEF RecordIsRecent, Judged, At, NoNewer
    <2>6. QED
        BY <2>3, <2>5 DEF OrderInv
<1>11. CASE Record
    <2>1. /\ UNCHANGED <<clock, host, page, steps>> /\ run'.pc = "off" /\ At("record")
          /\ state'.captured = run.captured /\ newest' = {run.captured}
        BY <1>11, Constants DEF Record
    <2>2. ASSUME steps'.back = 0
          PROVE  NothingIsLater' /\ NoNewer(host, run.captured) /\ NoNewer(page.captured, run.captured)
        <3>1. NothingIsLater /\ \A s \in Source : s = "walked" \/ s = "merged"
            BY <1>1, <2>1, <2>2 DEF Source
        <3>2. /\ \A c \in {host, page.captured} : \A s \in Source : c[s] <= run.captured[s] /\ c[s] <= clock
              /\ \A s \in Source : run.captured[s] <= clock
            BY <2>1, <3>1 DEF NothingIsLater, Installed, At
        <3>3. QED
            BY <2>1, <3>2 DEF NothingIsLater, Installed, NoNewer
    <2>3. NoNewer(run.captured, host)
        BY <1>1, <2>1, InstalledAre DEF PushInv, RecordNamesInstalled, NoNewer, Captures
    <2>4. steps'.back = 0 => RecordIsRecent'
        BY <2>1, <2>2, <2>3 DEF RecordIsRecent, At, NoNewer
    <2>5. QED
        BY <2>2, <2>4 DEF OrderInv
<1>12. QED
    BY <1>3, <1>4, <1>5, <1>6, <1>7, <1>8, <1>9, <1>10, <1>11 DEF Next, RunStep

LEMMA PushInvariant == Spec => []PushInv
<1>1. Init => PushInv
    BY InitNotice, InitOrder, Constants DEF PushInv, RecordNamesInstalled, Init, At
<1>2. PushInv /\ [Next]_vars => PushInv'
    BY NextKeepsNotice, NextKeepsOrder, NextNamesInstalled DEF PushInv, NoticeInv
<1>3. QED
    BY <1>1, <1>2, PTL DEF Spec

(* For every bound, while the workstation's clock never stepped back:      *)
(* SERVED is said only of the document of the last push recorded, or of    *)
(* one installed since (evaluate, served_captures).                        *)
THEOREM ServedIsOfWhatWasPushed == Spec => ServedIsTrue
<1>1. PushInv /\ [Next]_vars =>
        [Evaluate /\ outage' = NoOutage /\ steps.back = 0 => run.envelope.captured \in newest]_vars
    <2> SUFFICES ASSUME PushInv, Evaluate, outage' = NoOutage, steps.back = 0
                 PROVE  run.envelope.captured \in newest
        OBVIOUS
    <2>1. PushTypes /\ At("evaluate") /\ Judged /\ state # NoState /\ RecordIsRecent
        BY DEF PushInv, NoticeInv, CheckKeepsTime, OrderInv, Evaluate
    <2>2. Served(run.envelope)
        BY Constants DEF Evaluate
    <2>3. state.captured \in Captures /\ run.envelope.captured \in Captures
        BY <2>1, KeptParts DEF PushTypes, Envelope
    <2>4. NoNewer(run.envelope.captured, state.captured) => run.envelope.captured = state.captured
        <3>1. ASSUME NoNewer(run.envelope.captured, state.captured), NEW s \in Source
              PROVE  run.envelope.captured[s] = state.captured[s]
            <4>1. /\ run.envelope.captured[s] <= state.captured[s]
                  /\ run.envelope.captured[s] >= state.captured[s]
                BY <2>2, <3>1 DEF NoNewer, Served
            <4>2. run.envelope.captured[s] \in Nat /\ state.captured[s] \in Nat
                BY <2>3 DEF Captures
            <4>3. QED
                BY <4>1, <4>2
        <3>2. QED
            BY <2>3, <3>1 DEF Captures
    <2>5. QED
        BY <2>1, <2>4 DEF RecordIsRecent
<1>2. QED
    BY <1>1, PushInvariant, PTL DEF Spec, ServedIsTrue

(* And, for every bound and whatever was pushed and lost, recorded late or *)
(* not at all since: it is said of every page found to serve what is       *)
(* installed (evaluate, record, pushed_instants).                          *)
THEOREM ServingPagesAreFound == Spec => ServingIsFound
<1> DEFINE serving == [ok |-> TRUE, captured |-> host]
<1>1. PushInv /\ [Next]_vars =>
        [Evaluate /\ run.envelope = serving /\ steps.back = 0 => outage' = NoOutage]_vars
    <2> SUFFICES ASSUME PushInv, Evaluate, run.envelope = serving, steps.back = 0
                 PROVE  outage' = NoOutage
        OBVIOUS
    <2>1. PushTypes /\ Judged /\ state # NoState /\ NoNewer(state.captured, host)
        BY DEF PushInv, NoticeInv, CheckKeepsTime, OrderInv, RecordIsRecent, Evaluate
    <2>2. run.envelope.ok = TRUE /\ run.envelope.captured = host
        OBVIOUS
    <2>3. \A s \in Source : state.captured[s] \in Nat /\ host[s] \in Nat /\ host[s] >= state.captured[s]
        BY <2>1, KeptParts DEF PushTypes, NoNewer, Captures
    <2>4. Oldest(host) >= Oldest(state.captured)
        <3>1. /\ state.captured["walked"] \in Nat /\ host["walked"] \in Nat
              /\ state.captured["merged"] \in Nat /\ host["merged"] \in Nat
              /\ host["walked"] >= state.captured["walked"] /\ host["merged"] >= state.captured["merged"]
            BY <2>3 DEF Source
        <3>2. QED
            BY <3>1 DEF Oldest
    <2>5. Served(run.envelope)
        BY <2>2, <2>3, <2>4 DEF Served
    <2>6. QED
        BY <2>5 DEF Evaluate
<1>2. QED
    BY <1>1, PushInvariant, PTL DEF Spec, ServingIsFound
=============================================================================
