------------------------------ MODULE Journal ------------------------------
(***************************************************************************)
(* The two readers of a record tree, scripts/capture_usage_series.py: one  *)
(* journal file is a sequence of records, and a reader folds it into the   *)
(* rows the day index is built from.  Also the accounting projection of a  *)
(* running-totals journal, the only thing the walk keeps of a file.        *)
(*                                                                         *)
(* A row is [day, total, parts, id]: the day the tokens are billed on, how *)
(* many, their split by accounting class (NoParts when the record cannot   *)
(* be split) and the raw model identity they are recorded under.           *)
(*                                                                         *)
(* One cached class and one uncached one stand for the five accounting     *)
(* classes; a line is a record, and a line that is too long, does not      *)
(* parse or carries none of the keys is a "noise" record.                  *)
(***************************************************************************)
EXTENDS Integers, Sequences, SequencesExt

CONSTANTS
  Day,           \* local calendar days, a set of naturals
  Model,         \* model strings of the shape of an identifier
  Unidentified   \* the reserved bucket, and any string not of that shape

Ident == Model \cup {Unidentified}
Class == {"input", "cached", "output"}
NoParts == [c \in Class |-> -1]
NoClasses == [c \in Class |-> 0]

\* What one usage record counts: the total, the input (cached part included)
\* and the output.
Field == {"total", "input", "cached", "output"}
NoUsage == [x \in Field |-> 0]

----------------------------------------------------------------------------
(* The records. *)

SessionRecord(child)  == [kind |-> "session", child |-> child]
ModelRecord(m)        == [kind |-> "model", model |-> m]
Reading(d, usage, turn) == [kind |-> "reading", day |-> d, usage |-> usage, turn |-> turn]
NoTurn == -1
Noise == [kind |-> "noise"]
NoKey == 0   \* a message with neither identifier is always counted
Message(i, d, usage, m) ==
  [kind |-> "message", key |-> i, day |-> d, usage |-> usage, model |-> m]

\* The only normaliser of a recorded model string.
RawIdentity(m) == IF m \in Model THEN m ELSE Unidentified

SumParts(parts) == parts["input"] + parts["cached"] + parts["output"]

----------------------------------------------------------------------------
(* The running-totals reader.  It carries, per file: the last cumulative   *)
(* figures, the model in force, whether a model was declared and a reading *)
(* read, whether the file is a top-level session, the rows billed so far   *)
(* and the opening balances set aside.                                     *)

NewFile == [prev |-> NoUsage, id |-> Unidentified, declared |-> FALSE, read |-> FALSE,
            top |-> "unknown", rows |-> <<>>, carried |-> [d \in Day |-> 0]]

\* An advance is the distance moved, a restart is the new figure itself.
FieldAdvance(current, previous) ==
  IF current >= previous THEN current - previous ELSE current

\* The full split when it adds up, the two-way one when only that does, and
\* none otherwise.
RunningParts(adv) ==
  LET uncached == adv["input"] - adv["cached"]
      full   == [c \in Class |-> CASE c = "input" -> uncached [] OTHER -> adv[c]]
      coarse == [c \in Class |-> CASE c = "cached" -> 0 [] OTHER -> adv[c]]
  IN CASE uncached >= 0 /\ SumParts(full) = adv["total"] -> full
       [] ~(uncached >= 0 /\ SumParts(full) = adv["total"])
          /\ SumParts(coarse) = adv["total"] -> coarse
       [] OTHER -> NoParts

\* A first reading, before any model declaration, that reports more than the
\* turn it belongs to spent.
OpeningBalance(s, r) ==
  /\ ~s.read /\ ~s.declared
  /\ r.turn # NoTurn /\ r.usage["total"] > r.turn

\* One reading of the cumulative figures.
Advance(s, r) ==
  LET total == r.usage["total"]
      adv   == IF total > s.prev["total"]
               THEN [x \in Field |-> FieldAdvance(r.usage[x], s.prev[x])]
               ELSE r.usage
      bills == total # s.prev["total"] /\ adv["total"] > 0
      next  == [s EXCEPT !.read = TRUE, !.prev = r.usage]
  IN IF OpeningBalance(s, r)
     THEN [next EXCEPT !.carried[r.day] = @ + total]
     ELSE IF bills
     THEN [next EXCEPT !.rows = Append(@, [day |-> r.day, total |-> adv["total"],
                                           parts |-> RunningParts(adv), id |-> s.id])]
     ELSE next

ReadRunning(s, r) ==
  CASE r.kind = "session" /\ s.top = "unknown" ->
         [s EXCEPT !.top = IF r.child THEN "child" ELSE "top"]
    [] r.kind = "model" -> [s EXCEPT !.declared = TRUE, !.id = RawIdentity(r.model)]
    [] r.kind = "reading" -> Advance(s, r)
    [] OTHER -> s

WalkRunning(file) == FoldLeft(ReadRunning, NewFile, file)

----------------------------------------------------------------------------
(* The message reader: every record bills its own usage, once per message  *)
(* identity over the whole tree.                                           *)

UsageParts(usage) == [c \in Class |-> usage[c]]

ReadMessage(s, r) ==
  IF r.kind # "message" \/ (r.key # NoKey /\ r.key \in s.seen) THEN s
  ELSE [seen |-> s.seen \cup ({r.key} \ {NoKey}),
        rows |-> Append(s.rows, [day |-> r.day, total |-> SumParts(UsageParts(r.usage)),
                                 parts |-> UsageParts(r.usage), id |-> RawIdentity(r.model)])]

(* Mutant: the identities already counted are forgotten at each file. *)
WalkMessagesAlone(seen, file) == FoldLeft(ReadMessage, [seen |-> {}, rows |-> <<>>], file)

\* Reading one more file of the tree, after the files already read.
WalkMessages(seen, file) == FoldLeft(ReadMessage, [seen |-> seen, rows |-> <<>>], file)

----------------------------------------------------------------------------
(* The session of a file, for the ledger block: what its rows add up to,   *)
(* and the days they span.                                                 *)

NewSession == [total |-> 0, cats |-> NoClasses, days |-> {}, ids |-> {}, top |-> "unknown"]

NoteSession(s, row) ==
  [s EXCEPT !.total = @ + row.total,
            !.cats  = IF row.parts = NoParts THEN @ ELSE [c \in Class |-> @[c] + row.parts[c]],
            !.days  = @ \cup {row.day}, !.ids = @ \cup {row.id}]

\* A file that billed nothing is no session.
CloseSession(sessions, rows, top) ==
  LET s == FoldLeft(NoteSession, NewSession, rows)
  IN IF s.total <= 0 THEN sessions ELSE Append(sessions, [s EXCEPT !.top = top])

----------------------------------------------------------------------------
(* The accounting projection: each record cut to the reader's own reading  *)
(* of it; a record the reader ignores is absent.                           *)

KeptRecord(r) ==
  CASE r.kind = "model" -> ModelRecord(RawIdentity(r.model))
    [] OTHER -> r

KeepRecord(kept, r) ==
  IF r.kind \in {"session", "model", "reading"} THEN Append(kept, KeptRecord(r)) ELSE kept

Projection(file) == FoldLeft(KeepRecord, <<>>, file)
=============================================================================
