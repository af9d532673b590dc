-------------------------------- MODULE Push --------------------------------
(***************************************************************************)
(* The scheduled run that carries the usage document from the workstation  *)
(* to the page, scripts/usage-export/push-usage-series.sh, and its check   *)
(* that the page serves it, served-check.py.  A run first asks the page    *)
(* what it serves, then captures the other source again, exports one       *)
(* document over both (export_usage_series.py), pushes it, compares the    *)
(* host's checksum, and records what it pushed for the next run to check.  *)
(* The scheduler never starts a run while one is under way.                *)
(*                                                                         *)
(* What the host does with the document is external: it installs it, and   *)
(* the origin admits it over the floor of what it admitted before (modules *)
(* DataRoot and FloorStore), or falls back to what it was built with.  The *)
(* capture instants stand for a document's identity.                       *)
(***************************************************************************)
EXTENDS Integers, FiniteSets

CONSTANTS
  MaxTime,      \* the clock's bound
  NotifyAfter,  \* NOTIFY_AFTER_SECONDS, in ticks
  MaxBack,      \* how far the workstation's clock may step back, once
  MaxFaults     \* failed, killed and lost steps, and origins that fall back

Source == {"walked", "merged"}

ASSUME PushAssumption ==
  MaxTime \in Nat /\ NotifyAfter \in Nat /\ MaxBack \in Nat /\ MaxFaults \in Nat

\* What a section captured in no run, only built in, carries.
BuiltIn == [s \in Source |-> 0]
NoState == [schema |-> "none"]
NoPage  == [ok |-> FALSE, captured |-> BuiltIn]

\* The document's own instant: that of its export, which the walked source
\* carries too.
GeneratedAt(captured) == captured["walked"]

\* The least capture instant: what the origin serves as generatedAt.
Oldest(captured) == IF captured["walked"] <= captured["merged"]
                    THEN captured["walked"] ELSE captured["merged"]

VARIABLES
  clock,     \* the workstation's, which may step back
  run,       \* the run under way: its place, its clock, how long the outage had lasted,
             \* the page it read, its document
  state,     \* push-state.json
  host,      \* the capture instants of the document installed on the host
  floor,     \* the document the origin admitted last, as far as it remembers
  page,      \* what the page serves
  newest,    \* the documents installed since the last push recorded, and that one
  outage,    \* since the page was first found not to serve, until it is found to, on
             \* record: the time that passed, how long it was when last judged, and
             \* the notifications
  steps      \* [faults, back -> how many so far]

vars == <<clock, run, state, host, floor, page, newest, outage, steps>>

Off == [pc |-> "off", now |-> 0, waited |-> 0, envelope |-> NoPage, captured |-> BuiltIn]
NoOutage == [on |-> FALSE, passed |-> 0, judged |-> 0, told |-> 0]

Init ==
  /\ clock = 1 /\ run = Off
  /\ state \in {NoState, [schema |-> "v1", since |-> 0, notified |-> FALSE]}
  /\ host = BuiltIn /\ floor = BuiltIn /\ page = NoPage /\ newest = {}
  /\ outage = NoOutage
  /\ steps = [faults |-> 0, back |-> 0]

At(pc) == run.pc = pc
Goes(pc) == run' = [run EXCEPT !.pc = pc]
ToCapture == run' = [Off EXCEPT !.pc = "capture"]
Fault == steps.faults < MaxFaults /\ steps' = [steps EXCEPT !.faults = @ + 1]

----------------------------------------------------------------------------
(* The world: time, the host's origin. *)

Passes ==
  /\ clock < MaxTime
  /\ clock' = clock + 1
  /\ outage' = IF outage.on THEN [outage EXCEPT !.passed = @ + 1] ELSE outage
  /\ UNCHANGED <<run, state, host, floor, page, newest, steps>>

StepsBack ==
  /\ steps.back = 0
  /\ \E n \in 1 .. MaxBack : n < clock /\ clock' = clock - n
                             /\ steps' = [steps EXCEPT !.back = n]
  /\ UNCHANGED <<run, state, host, floor, page, newest, outage>>

\* The origin reads the installed document: one newer than its floor, or the
\* very one, or a replay, which it reports.
OriginReads ==
  LET newer == GeneratedAt(host) > GeneratedAt(floor) IN
  /\ host # BuiltIn
  /\ page' = IF newer \/ host = floor THEN [ok |-> TRUE, captured |-> host]
             ELSE [page EXCEPT !.ok = FALSE]
  /\ floor' = IF newer THEN host ELSE floor
  /\ UNCHANGED <<clock, run, state, host, newest, outage, steps>>

\* It restarts on what it was built with, and has its floor on record or not;
\* or it cannot read the document, or finds it too old.
OriginFalls ==
  /\ Fault
  /\ \/ page' = NoPage /\ floor' \in {floor, BuiltIn}
     \/ page' = [page EXCEPT !.ok = FALSE] /\ UNCHANGED floor
  /\ UNCHANGED <<clock, run, state, host, newest, outage>>

----------------------------------------------------------------------------
(* served-check.py check, at the start of a run. *)

Judged == state.schema = "v2"

\* The state and the page are read; a page that cannot be read, or a state
\* with nothing to compare, leaves the check unavailable.
Check ==
  /\ At("off")
  /\ IF Judged
     THEN run' = [Off EXCEPT !.pc = "evaluate", !.now = clock, !.waited = outage.passed, !.envelope = page]
     ELSE ToCapture
  /\ UNCHANGED <<clock, state, host, floor, page, newest, outage, steps>>

CheckUnavailable ==
  /\ At("evaluate") /\ Fault /\ ToCapture
  /\ UNCHANGED <<clock, state, host, floor, page, newest, outage>>

(* Mutant: only the oldest capture is compared. *)
ServedByOldest(envelope) == envelope.ok /\ Oldest(envelope.captured) >= Oldest(state.captured)

(* Mutant: a record later than what is served is not yet served. *)
ServedNewerOnly(envelope) ==
  /\ envelope.ok
  /\ Oldest(envelope.captured) > Oldest(state.captured)
  /\ \A s \in Source : envelope.captured[s] >= state.captured[s]

\* Every pushed source is served, at least as new, by an envelope that is ok.
Served(envelope) ==
  /\ envelope.ok
  /\ Oldest(envelope.captured) >= Oldest(state.captured)
  /\ \A s \in Source : envelope.captured[s] >= state.captured[s]

Since == IF state.since = 0 \/ state.since > run.now THEN run.now ELSE state.since
Notifies == ~state.notified /\ run.now - Since > NotifyAfter

\* What is kept of the verdict.
Verdict ==
  IF Served(run.envelope) THEN [state EXCEPT !.since = 0, !.notified = FALSE]
  ELSE [state EXCEPT !.since = Since, !.notified = @ \/ Notifies]

Told == IF ~Served(run.envelope) /\ Notifies THEN 1 ELSE 0

\* The desktop is told, then the state is written.
Evaluate ==
  /\ At("evaluate") /\ ToCapture
  /\ state' = Verdict
  /\ outage' = IF Served(run.envelope) THEN NoOutage
               ELSE [on |-> TRUE, passed |-> outage.passed, judged |-> run.waited,
                     told |-> outage.told + Told]
  /\ UNCHANGED <<clock, host, floor, page, newest, steps>>

\* The deadline, a full disk or a kill falls between the two: the verdict is
\* not on record.
EvaluateUnwritten ==
  /\ At("evaluate") /\ ToCapture /\ Fault
  /\ UNCHANGED <<clock, state, host, floor, page, newest, outage>>

----------------------------------------------------------------------------
(* Capture, export, push, record. *)

Capture ==
  /\ At("capture")
  /\ run' = [run EXCEPT !.pc = "export", !.captured["merged"] = clock]
  /\ UNCHANGED <<clock, state, host, floor, page, newest, outage, steps>>

\* admit_capture_instant: a capture from the future refuses the run.
AdmitCaptureInstant == run.captured["merged"] <= clock

\* The document's instants: the walked source is stamped with the run's own.
Exported == [run.captured EXCEPT !["walked"] = clock]

Export ==
  /\ At("export")
  /\ run' = IF AdmitCaptureInstant THEN [run EXCEPT !.pc = "push", !.captured = Exported] ELSE Off
  /\ UNCHANGED <<clock, state, host, floor, page, newest, outage, steps>>

Push ==
  /\ At("push") /\ Goes("record")
  /\ host' = run.captured /\ newest' = newest \cup {run.captured}
  /\ UNCHANGED <<clock, state, floor, page, outage, steps>>

\* A refused push, or one whose checksum does not come back.
PushLost ==
  /\ At("push") /\ run' = Off /\ Fault
  /\ \/ UNCHANGED <<host, newest>>
     \/ host' = run.captured /\ newest' = newest \cup {run.captured}
  /\ UNCHANGED <<clock, state, floor, page, outage>>

(* Mutant: a push restarts the clock of the page that does not serve. *)
CarriedNot(key, none) == none

\* What a record carries over of the state it replaces.
Carried(key, none) == IF state = NoState THEN none ELSE state[key]

Record ==
  /\ At("record") /\ run' = Off
  /\ state' = [schema |-> "v2", captured |-> run.captured,
               since |-> Carried("since", 0), notified |-> Carried("notified", FALSE)]
  /\ newest' = {run.captured}
  /\ UNCHANGED <<clock, host, floor, page, outage, steps>>

\* A run that is refused, stopped or unable to record ends where it is.
Stops ==
  /\ ~At("off") /\ run' = Off /\ Fault
  /\ UNCHANGED <<clock, state, host, floor, page, newest, outage>>

\* A state that cannot be read is one there was none of: the latch starts anew.
StateLost ==
  /\ state # NoState /\ ~At("evaluate") /\ Fault
  /\ state' = NoState /\ outage' = NoOutage
  /\ UNCHANGED <<clock, run, host, floor, page, newest>>

RunStep == Check \/ Evaluate \/ Capture \/ Export \/ Push \/ Record

Next ==
  \/ Passes \/ StepsBack \/ OriginReads \/ OriginFalls \/ StateLost
  \/ RunStep \/ CheckUnavailable \/ EvaluateUnwritten \/ PushLost \/ Stops

Spec == Init /\ [][Next]_vars

----------------------------------------------------------------------------
(* A page that goes on not serving is told of in time: once the verdict    *)
(* has stood for longer than the bound, whatever was pushed meanwhile, the *)
(* desktop was notified; a clock that stepped back delays it by no more    *)
(* than the step.  And it is told on record once, not again until it       *)
(* served (evaluate, record).                                              *)
NotifiedInTime ==
  /\ outage.judged > NotifyAfter + steps.back => outage.told >= 1
  /\ outage.told <= 1

(* SERVED is said only of a page that serves the document of the last push *)
(* recorded or one installed since, unless the clock stepped back: though  *)
(* nothing but capture instants can be compared, every source's is         *)
(* (evaluate, served_captures, record).                                    *)
ServedIsTrue ==
  [][Evaluate /\ outage' = NoOutage /\ steps.back = 0 => run.envelope.captured \in newest]_vars

(* And it is said of every page that serves what is installed: a check     *)
(* that read it there calls no outage, and ends one that was on, whatever  *)
(* was pushed and lost, recorded late or not at all since, unless the      *)
(* clock stepped back (evaluate, record, pushed_instants).                 *)
ServingIsFound ==
  [][Evaluate /\ run.envelope = [ok |-> TRUE, captured |-> host] /\ steps.back = 0
       => outage' = NoOutage]_vars
=============================================================================
