----------------------------- MODULE MCCapture -----------------------------
(* A two-file tree over two days, for TLC. *)
EXTENDS Capture

Runs == Permutations(Run)

U(total, input, cached, output) ==
  [x \in Field |-> CASE x = "total" -> total [] x = "input" -> input
                     [] x = "cached" -> cached [] OTHER -> output]

\* A figure, the same with a turn smaller than it (an opening balance where
\* it comes first), and one that cannot be split; each advances another.
MCRecords(f) ==
  IF f = "messages"
  THEN {Message(k, k, U(0, k, 0, 1), "m1") : k \in {1, 2}}
  ELSE {Reading(1, U(2, 2, 1, 0), NoTurn), Reading(2, U(3, 2, 1, 1), 1),
        Reading(1, U(1, 1, 1, 1), 1), ModelRecord("m1")}

NoCache == [rows |-> <<>>, usage |-> NoUsageAccounting, asOf |-> -1, longest |-> NoLongest]
MCCaches(f) ==
  IF f = "messages"
  THEN LET counted(m) == [day |-> 1, model |-> m, count |-> 2]
           cached == [rows |-> <<counted("m1"), counted("<none>")>>, asOf |-> 1, longest |-> 3,
                      usage |-> [i \in Ident |-> [c \in Class |-> 1]]]
       IN {cached, [cached EXCEPT !.usage = NoUsageAccounting]}
  ELSE {NoCache}

\* Vocabularies: the model named, by its name, by what follows its vendor,
\* under another vendor, by nobody, and by two members, which is refused.
Member1(key, ids, prefix) == [key |-> key, slot |-> 1, ids |-> ids, prefix |-> prefix]
MCVocabularies ==
  LET document(groups) == [residual |-> [key |-> "other", slot |-> 0, ids |-> {}, prefix |-> FALSE],
                           groups |-> groups]
      group(key, member) == [key |-> key, members |-> <<member>>]
      nameless == Member1("k2", {}, FALSE)
  IN {document(<<group("mine", Member1("k1", {"m1"}, FALSE)), group("others", nameless)>>),
      document(<<group("mine", Member1("k1", {}, TRUE)), group("others", nameless)>>),
      document(<<group("mine", nameless), group("others", Member1("k1", {"m1"}, FALSE))>>),
      document(<<group("mine", nameless)>>),
      document(<<group("mine", Member1("k1", {"m1"}, FALSE)), group("others", Member1("k2", {"m1"}, TRUE))>>)}
MCSourceRows == <<[key |-> "tool", vendor |-> "mine"]>>
MCRest == [i \in Ident |-> IF i = "m1" THEN "k1" ELSE i]

\* A file replayed from its projection, with the session declarations and
\* the noise the tree above leaves out.
ASSUME ProjectionAssumption ==
  \A n \in 0 .. 3 : \A file \in [1 .. n -> MCRecords("running") \cup {SessionRecord(FALSE), SessionRecord(TRUE), Noise}] :
    WalkRunning(Projection(file)) = WalkRunning(file)

\* The pure figures, against what they are said to be.
ASSUME StreaksAssumption ==
  \A n \in 0 .. 6 : \A totals \in [1 .. n -> {0, 1}] : DailyStreaks(totals) = StreaksByRuns(totals)
=============================================================================
