--------------------------- MODULE CaptureProofs ---------------------------
(***************************************************************************)
(* Proofs about Capture, for every tree, every number of runs and every    *)
(* record a tool may write: replaying a kept journal is reading the file,  *)
(* a kept journal stays a prefix of its file's accounting, the store       *)
(* forgets nothing, the owner's reading stands, a message bills once, and  *)
(* no run refuses its own output.                                          *)
(***************************************************************************)
EXTENDS Capture, FoldLemmas

----------------------------------------------------------------------------
(* What the readers carry. *)

\* A row bills its split where it has one.
BilledRow ==
  {row \in [day : Day, total : Nat, parts : [Class -> Nat] \cup {NoParts}, id : Ident] :
     row.parts # NoParts => SumParts(row.parts) = row.total}

\* The running-totals reader between two records.
ReaderState ==
  [prev : [Field -> Nat], id : Ident, declared : BOOLEAN, read : BOOLEAN,
   top : {"unknown", "child", "top"}, rows : Seq(BilledRow), carried : [Day -> Nat]]

\* S holds records only.
AreRecords(S) == \A rec \in S : IsRecord(rec)

\* The steps of the folds, as functions.
ReadRunningFcn(S) == [q \in ReaderState \X S |-> ReadRunning(q[1], q[2])]
KeptRecords(S) == {KeptRecord(rec) : rec \in S}
KeepRecordFcn(S) == [q \in Seq(KeptRecords(S)) \X S |-> KeepRecord(q[1], q[2])]

(* A raw identity is an identity, and its own. *)
LEMMA RawIdentityIs ==
    ASSUME NEW m
    PROVE  RawIdentity(m) \in Ident /\ RawIdentity(RawIdentity(m)) = RawIdentity(m)
BY DEF RawIdentity, Ident

(* A split adds up to its total, or is none. *)
LEMMA RunningPartsAre ==
    ASSUME NEW adv \in [Field -> Nat]
    PROVE  /\ RunningParts(adv) \in [Class -> Nat] \cup {NoParts}
           /\ RunningParts(adv) # NoParts => SumParts(RunningParts(adv)) = adv["total"]
<1> DEFINE uncached == adv["input"] - adv["cached"]
           full   == [c \in Class |-> CASE c = "input" -> uncached [] OTHER -> adv[c]]
           coarse == [c \in Class |-> CASE c = "cached" -> 0 [] OTHER -> adv[c]]
           parts == RunningParts(adv)
<1>1. /\ adv["total"] \in Nat /\ adv["input"] \in Nat /\ adv["cached"] \in Nat /\ adv["output"] \in Nat
      /\ Class = {"input", "cached", "output"}
    BY DEF Field, Class
<1>2. coarse \in [Class -> Nat]
    BY <1>1
<1>3. uncached >= 0 => full \in [Class -> Nat]
    BY <1>1
<1>4. parts = CASE uncached >= 0 /\ SumParts(full) = adv["total"] -> full
                [] ~(uncached >= 0 /\ SumParts(full) = adv["total"]) /\ SumParts(coarse) = adv["total"] -> coarse
                [] OTHER -> NoParts
    BY DEF RunningParts
<1> HIDE DEF full, coarse, parts, uncached
<1>5. \/ parts = full /\ uncached >= 0 /\ SumParts(full) = adv["total"]
      \/ parts = coarse /\ SumParts(coarse) = adv["total"]
      \/ parts = NoParts
    BY <1>4
<1>6. QED
    BY <1>2, <1>3, <1>5 DEF parts

(* An advance is a natural figure in every field. *)
LEMMA AdvancesAre ==
    ASSUME NEW usage \in [Field -> Nat], NEW prev \in [Field -> Nat]
    PROVE  [x \in Field |-> FieldAdvance(usage[x], prev[x])] \in [Field -> Nat]
BY DEF FieldAdvance

(* A reading is taken from one state of the reader to another. *)
LEMMA AdvanceType ==
    ASSUME NEW s \in ReaderState, NEW rec, IsRecord(rec), rec.kind = "reading"
    PROVE  Advance(s, rec) \in ReaderState
<1> DEFINE total == rec.usage["total"]
           adv   == IF total > s.prev["total"]
                    THEN [x \in Field |-> FieldAdvance(rec.usage[x], s.prev[x])]
                    ELSE rec.usage
           next  == [s EXCEPT !.read = TRUE, !.prev = rec.usage]
           row   == [day |-> rec.day, total |-> adv["total"], parts |-> RunningParts(adv), id |-> s.id]
<1>1. rec.day \in Day /\ rec.usage \in [Field -> Nat] /\ total \in Nat
    BY DEF IsRecord, Field
<1>2. adv \in [Field -> Nat] /\ adv["total"] \in Nat
    <2>1. adv \in [Field -> Nat]
        BY <1>1, AdvancesAre DEF ReaderState
    <2> HIDE DEF adv
    <2>2. QED
        BY <2>1 DEF Field
<1>3. next \in ReaderState
    BY <1>1 DEF ReaderState
<1>4. row \in BilledRow
    <2> HIDE DEF adv
    <2>1. s.id \in Ident
        BY DEF ReaderState
    <2>2. QED
        BY <1>1, <1>2, <2>1, RunningPartsAre DEF BilledRow
<1>5. [next EXCEPT !.carried[rec.day] = @ + total] \in ReaderState
    <2> HIDE DEF next, total
    <2>1. next.carried[rec.day] + total \in Nat
        BY <1>1, <1>3 DEF ReaderState
    <2>2. QED
        BY <1>1, <1>3, <2>1 DEF ReaderState
<1>6. [next EXCEPT !.rows = Append(@, row)] \in ReaderState
    <2> HIDE DEF next, row
    <2>1. Append(next.rows, row) \in Seq(BilledRow)
        BY <1>3, <1>4, AppendProperties DEF ReaderState
    <2>2. QED
        BY <1>3, <2>1 DEF ReaderState
<1>7. Advance(s, rec) \in {[next EXCEPT !.carried[rec.day] = @ + total], [next EXCEPT !.rows = Append(@, row)], next}
    <2>1. Advance(s, rec) = IF OpeningBalance(s, rec) THEN [next EXCEPT !.carried[rec.day] = @ + total]
                            ELSE IF total # s.prev["total"] /\ adv["total"] > 0
                            THEN [next EXCEPT !.rows = Append(@, row)] ELSE next
        BY DEF Advance
    <2> HIDE DEF next, row, adv, total
    <2>2. QED
        BY <2>1
<1>8. QED
    <2> HIDE DEF next, row, adv, total
    <2>1. QED
        BY <1>3, <1>5, <1>6, <1>7

(* What a record does to the reader, by its kind. *)
LEMMA ReadRunningIs ==
    ASSUME NEW s, NEW rec
    PROVE  /\ rec.kind = "session" => ReadRunning(s, rec) =
                IF s.top = "unknown" THEN [s EXCEPT !.top = IF rec.child THEN "child" ELSE "top"] ELSE s
           /\ rec.kind = "model" =>
                ReadRunning(s, rec) = [s EXCEPT !.declared = TRUE, !.id = RawIdentity(rec.model)]
           /\ rec.kind = "reading" => ReadRunning(s, rec) = Advance(s, rec)
           /\ rec.kind \notin {"session", "model", "reading"} => ReadRunning(s, rec) = s
BY DEF ReadRunning

(* A record takes the reader from one state to another. *)
LEMMA ReadRunningType ==
    ASSUME NEW s \in ReaderState, NEW rec, IsRecord(rec)
    PROVE  ReadRunning(s, rec) \in ReaderState
<1>1. CASE rec.kind = "session"
    <2>1. [s EXCEPT !.top = IF rec.child THEN "child" ELSE "top"] \in ReaderState
        BY DEF ReaderState
    <2>2. QED
        BY <1>1, <2>1, ReadRunningIs
<1>2. CASE rec.kind = "model"
    <2>1. [s EXCEPT !.declared = TRUE, !.id = RawIdentity(rec.model)] \in ReaderState
        BY RawIdentityIs DEF ReaderState
    <2>2. QED
        BY <1>2, <2>1, ReadRunningIs
<1>3. CASE rec.kind = "reading"
    <2>1. Advance(s, rec) \in ReaderState
        BY <1>3, AdvanceType
    <2>2. ReadRunning(s, rec) = Advance(s, rec)
        BY <1>3, ReadRunningIs
    <2>3. QED
        BY <2>1, <2>2
<1>4. CASE rec.kind \notin {"session", "model", "reading"}
    BY <1>4, ReadRunningIs
<1>5. QED
    BY <1>1, <1>2, <1>3, <1>4

(* The reader starts in a state of its own. *)
LEMMA NewFileType == NewFile \in ReaderState
<1>1. Unidentified \in Ident /\ <<>> \in Seq(BilledRow)
    BY EmptySeq DEF Ident
<1>2. QED
    BY <1>1 DEF NewFile, ReaderState, NoUsage

(* The reader's step is a function of its states and records. *)
LEMMA RunningFcnType ==
    ASSUME NEW S, AreRecords(S)
    PROVE  ReadRunningFcn(S) \in [ReaderState \X S -> ReaderState] /\ NewFile \in ReaderState
BY ReadRunningType, NewFileType DEF ReadRunningFcn, AreRecords

(* Reading a running-totals file is a fold of its records. *)
LEMMA RunningWalkIsAFold ==
    ASSUME NEW S, AreRecords(S), NEW file \in Seq(S)
    PROVE  WalkRunning(file) = FoldOf(ReaderState, ReadRunningFcn(S), NewFile, file)
<1> DEFINE Step(g, s) == LET x == Max(s) IN ReadRunning(g[s \ {x}], file[x])
           g == CHOOSE g : g = [s \in SUBSET (DOMAIN file) |-> IF s = {} THEN NewFile ELSE Step(g, s)]
<1>1. WalkRunning(file) = g[DOMAIN file]
    BY DEF WalkRunning, FoldLeft, MapThenFoldSet
<1>2. Folding(ReaderState, S, ReadRunningFcn(S), NewFile, file)
    BY RunningFcnType DEF Folding, ReadRunningFcn
<1>3. DOMAIN file = 1 .. Len(file) /\ Len(file) \in Nat
    BY LenProperties
<1>4. PICK f : FoldFcn(f, Len(file), ReaderState, ReadRunningFcn(S), NewFile, file)
    BY <1>2, FoldExists DEF Folding, Foldable, FoldFcn
<1>5. ASSUME NEW h, NEW s \in SUBSET (1 .. Len(file)), s # {}, h[s \ {Max(s)}] \in ReaderState
      PROVE  Step(h, s) = ReadRunningFcn(S)[<<h[s \ {Max(s)}], file[Max(s)]>>]
    <2>1. file[Max(s)] \in S
        BY <1>3, <1>5, MaxIn, ElementOfSeq
    <2>2. QED
        BY <1>5, <2>1 DEF ReadRunningFcn
<1>6. f = [s \in SUBSET (DOMAIN file) |-> IF s = {} THEN NewFile ELSE Step(f, s)]
    <2>1. ASSUME NEW s \in SUBSET (1 .. Len(file))
          PROVE  f[s] = IF s = {} THEN NewFile ELSE Step(f, s)
        <3>1. s \ {Max(s)} \in SUBSET (1 .. Len(file))
            OBVIOUS
        <3>2. f[s \ {Max(s)}] \in ReaderState
            BY <1>4, <3>1 DEF FoldFcn
        <3>3. f[s] = IF s = {} THEN NewFile ELSE ReadRunningFcn(S)[<<f[s \ {Max(s)}], file[Max(s)]>>]
            BY <1>4 DEF FoldFcn, IsFoldOf
        <3> HIDE DEF Step
        <3>4. QED
            BY <1>5, <3>2, <3>3
    <2> HIDE DEF Step
    <2>2. QED
        BY <1>3, <1>4, <2>1 DEF FoldFcn
<1>7. g = [s \in SUBSET (DOMAIN file) |-> IF s = {} THEN NewFile ELSE Step(g, s)]
    <2> HIDE DEF Step
    <2>1. QED
        BY <1>6
<1> HIDE DEF g
<1>8. Unfolds(g, Len(file), ReaderState, ReadRunningFcn(S), NewFile, file)
    <2>1. g[{}] = NewFile /\ \A s \in SUBSET (1 .. Len(file)) : s # {} => g[s] = Step(g, s)
        <3> HIDE DEF Step
        <3>1. QED
            BY <1>3, <1>7
    <2> HIDE DEF Step
    <2>2. QED
        BY <1>5, <2>1 DEF Unfolds
<1>9. g[1 .. Len(file)] = FoldOf(ReaderState, ReadRunningFcn(S), NewFile, file)
    BY <1>2, <1>8, FoldOfIs
<1>10. QED
    BY <1>1, <1>3, <1>9

(* One record more is read from the state the others left. *)
LEMMA RunningWalkOfAppend ==
    ASSUME NEW S, AreRecords(S), NEW file \in Seq(S), NEW e \in S
    PROVE  /\ WalkRunning(<<>>) = NewFile /\ WalkRunning(file) \in ReaderState
           /\ WalkRunning(Append(file, e)) = ReadRunning(WalkRunning(file), e)
<1>1. Folding(ReaderState, S, ReadRunningFcn(S), NewFile, file)
    BY RunningFcnType DEF Folding, ReadRunningFcn
<1>2. /\ FoldOf(ReaderState, ReadRunningFcn(S), NewFile, <<>>) = NewFile
      /\ FoldOf(ReaderState, ReadRunningFcn(S), NewFile, file) \in ReaderState
      /\ FoldOf(ReaderState, ReadRunningFcn(S), NewFile, Append(file, e))
           = ReadRunningFcn(S)[<<FoldOf(ReaderState, ReadRunningFcn(S), NewFile, file), e>>]
    BY <1>1, FoldOfAppend
<1>3. Append(file, e) \in Seq(S) /\ <<>> \in Seq(S)
    BY AppendProperties, EmptySeq
<1>4. QED
    BY <1>2, <1>3, RunningWalkIsAFold DEF ReadRunningFcn

----------------------------------------------------------------------------
(* The accounting projection. *)

(* The projection's step is a function of what is kept and a record. *)
LEMMA KeepFcnType ==
    ASSUME NEW S
    PROVE  KeepRecordFcn(S) \in [Seq(KeptRecords(S)) \X S -> Seq(KeptRecords(S))] /\ <<>> \in Seq(KeptRecords(S))
<1>1. ASSUME NEW lines \in Seq(KeptRecords(S)), NEW rec \in S PROVE KeepRecord(lines, rec) \in Seq(KeptRecords(S))
    <2>1. KeptRecord(rec) \in KeptRecords(S)
        BY DEF KeptRecords
    <2> HIDE DEF KeptRecords
    <2>2. Append(lines, KeptRecord(rec)) \in Seq(KeptRecords(S))
        BY <2>1, AppendProperties
    <2>3. QED
        BY <2>2 DEF KeepRecord
<1>2. <<>> \in Seq(KeptRecords(S))
    BY EmptySeq
<1>3. QED
    BY <1>1, <1>2 DEF KeepRecordFcn

(* A projection is a fold of the records. *)
LEMMA ProjectionIsAFold ==
    ASSUME NEW S, NEW file \in Seq(S)
    PROVE  Projection(file) = FoldOf(Seq(KeptRecords(S)), KeepRecordFcn(S), <<>>, file)
<1> DEFINE Step(g, s) == LET x == Max(s) IN KeepRecord(g[s \ {x}], file[x])
           g == CHOOSE g : g = [s \in SUBSET (DOMAIN file) |-> IF s = {} THEN <<>> ELSE Step(g, s)]
<1>1. Projection(file) = g[DOMAIN file]
    BY DEF Projection, FoldLeft, MapThenFoldSet
<1>2. Folding(Seq(KeptRecords(S)), S, KeepRecordFcn(S), <<>>, file)
    BY KeepFcnType DEF Folding, KeepRecordFcn
<1>3. DOMAIN file = 1 .. Len(file) /\ Len(file) \in Nat
    BY LenProperties
<1>4. PICK f : FoldFcn(f, Len(file), Seq(KeptRecords(S)), KeepRecordFcn(S), <<>>, file)
    BY <1>2, FoldExists DEF Folding, Foldable, FoldFcn
<1>5. ASSUME NEW h, NEW s \in SUBSET (1 .. Len(file)), s # {}, h[s \ {Max(s)}] \in Seq(KeptRecords(S))
      PROVE  Step(h, s) = KeepRecordFcn(S)[<<h[s \ {Max(s)}], file[Max(s)]>>]
    <2>1. file[Max(s)] \in S
        BY <1>3, <1>5, MaxIn, ElementOfSeq
    <2>2. QED
        BY <1>5, <2>1 DEF KeepRecordFcn
<1>6. f = [s \in SUBSET (DOMAIN file) |-> IF s = {} THEN <<>> ELSE Step(f, s)]
    <2>1. ASSUME NEW s \in SUBSET (1 .. Len(file))
          PROVE  f[s] = IF s = {} THEN <<>> ELSE Step(f, s)
        <3>1. s \ {Max(s)} \in SUBSET (1 .. Len(file))
            OBVIOUS
        <3>2. f[s \ {Max(s)}] \in Seq(KeptRecords(S))
            BY <1>4, <3>1 DEF FoldFcn
        <3>3. f[s] = IF s = {} THEN <<>> ELSE KeepRecordFcn(S)[<<f[s \ {Max(s)}], file[Max(s)]>>]
            BY <1>4 DEF FoldFcn, IsFoldOf
        <3> HIDE DEF Step
        <3>4. QED
            BY <1>5, <3>2, <3>3
    <2> HIDE DEF Step
    <2>2. QED
        BY <1>3, <1>4, <2>1 DEF FoldFcn
<1>7. g = [s \in SUBSET (DOMAIN file) |-> IF s = {} THEN <<>> ELSE Step(g, s)]
    <2> HIDE DEF Step
    <2>1. QED
        BY <1>6
<1> HIDE DEF g
<1>8. Unfolds(g, Len(file), Seq(KeptRecords(S)), KeepRecordFcn(S), <<>>, file)
    <2>1. g[{}] = <<>> /\ \A s \in SUBSET (1 .. Len(file)) : s # {} => g[s] = Step(g, s)
        <3> HIDE DEF Step
        <3>1. QED
            BY <1>3, <1>7
    <2> HIDE DEF Step
    <2>2. QED
        BY <1>5, <2>1 DEF Unfolds
<1>9. g[1 .. Len(file)] = FoldOf(Seq(KeptRecords(S)), KeepRecordFcn(S), <<>>, file)
    BY <1>2, <1>8, FoldOfIs
<1>10. QED
    BY <1>1, <1>3, <1>9

(* One record more is projected after the others. *)
LEMMA ProjectionOfAppend ==
    ASSUME NEW S, NEW file \in Seq(S), NEW e \in S
    PROVE  /\ Projection(<<>>) = <<>> /\ Projection(file) \in Seq(KeptRecords(S))
           /\ Projection(Append(file, e)) = KeepRecord(Projection(file), e)
<1>1. Folding(Seq(KeptRecords(S)), S, KeepRecordFcn(S), <<>>, file)
    BY KeepFcnType DEF Folding, KeepRecordFcn
<1>2. /\ FoldOf(Seq(KeptRecords(S)), KeepRecordFcn(S), <<>>, <<>>) = <<>>
      /\ FoldOf(Seq(KeptRecords(S)), KeepRecordFcn(S), <<>>, file) \in Seq(KeptRecords(S))
      /\ FoldOf(Seq(KeptRecords(S)), KeepRecordFcn(S), <<>>, Append(file, e))
           = KeepRecordFcn(S)[<<FoldOf(Seq(KeptRecords(S)), KeepRecordFcn(S), <<>>, file), e>>]
    BY <1>1, FoldOfAppend
<1>3. Append(file, e) \in Seq(S) /\ <<>> \in Seq(S)
    BY AppendProperties, EmptySeq
<1>4. QED
    BY <1>2, <1>3, ProjectionIsAFold DEF KeepRecordFcn

(* A kept record is read as the record it was kept of, and nothing else    *)
(* would have been read.                                                   *)
LEMMA KeptIsReadAlike ==
    ASSUME NEW s \in ReaderState, NEW rec
    PROVE  IF rec.kind \in {"session", "model", "reading"}
           THEN ReadRunning(s, KeptRecord(rec)) = ReadRunning(s, rec)
           ELSE ReadRunning(s, rec) = s
<1>1. CASE rec.kind = "model"
    <2> DEFINE cut == KeptRecord(rec)
    <2>1. cut = [kind |-> "model", model |-> RawIdentity(rec.model)]
        BY <1>1 DEF KeptRecord, ModelRecord
    <2>2. cut.kind = "model" /\ cut.model = RawIdentity(rec.model)
        BY <2>1
    <2> HIDE DEF cut
    <2>3. ReadRunning(s, cut) = [s EXCEPT !.declared = TRUE, !.id = RawIdentity(cut.model)]
        BY <2>2, ReadRunningIs
    <2>4. ReadRunning(s, rec) = [s EXCEPT !.declared = TRUE, !.id = RawIdentity(rec.model)]
        BY <1>1, ReadRunningIs
    <2>5. RawIdentity(cut.model) = RawIdentity(rec.model)
        BY <2>2, RawIdentityIs
    <2>6. QED
        BY <1>1, <2>3, <2>4, <2>5 DEF cut
<1>2. CASE rec.kind # "model"
    <2>1. KeptRecord(rec) = rec
        BY <1>2 DEF KeptRecord
    <2>2. QED
        BY <1>2, <2>1, ReadRunningIs
<1>3. QED
    BY <1>1, <1>2

(* What is kept of records are records. *)
LEMMA KeptAreRecords ==
    ASSUME NEW S, AreRecords(S)
    PROVE  AreRecords(KeptRecords(S))
<1>1. ASSUME NEW rec, IsRecord(rec) PROVE IsRecord(KeptRecord(rec))
    <2>1. CASE rec.kind = "model"
        <3>1. KeptRecord(rec) = [kind |-> "model", model |-> RawIdentity(rec.model)]
            BY <2>1 DEF KeptRecord, ModelRecord
        <3>2. KeptRecord(rec).kind = "model"
            BY <3>1
        <3>3. QED
            BY <3>2 DEF IsRecord
    <2>2. CASE rec.kind # "model"
        BY <1>1, <2>2 DEF KeptRecord
    <2>3. QED
        BY <2>1, <2>2
<1>2. QED
    BY <1>1 DEF AreRecords, KeptRecords

(* Nothing is read of nothing. *)
LEMMA OfNothing == WalkRunning(<<>>) = NewFile /\ Projection(<<>>) = <<>>
<1>1. AreRecords({Noise}) /\ <<>> \in Seq({Noise}) /\ Noise \in {Noise}
    BY EmptySeq DEF AreRecords, IsRecord, Noise
<1>2. QED
    BY <1>1, RunningWalkOfAppend, ProjectionOfAppend

(* Replaying the projection of any journal bills, sets aside and declares  *)
(* exactly what reading the journal does, whatever records it holds        *)
(* (accounting_projection, read_running_totals).                           *)
THEOREM ReplayIsReading ==
    ASSUME NEW S, AreRecords(S), NEW file \in Seq(S)
    PROVE  WalkRunning(Projection(file)) = WalkRunning(file)
<1> DEFINE K == KeptRecords(S)
           T == {seq \in Seq(S) : WalkRunning(Projection(seq)) = WalkRunning(seq)}
<1>1. AreRecords(K)
    BY KeptAreRecords
<1>2. T \subseteq Seq(S) /\ <<>> \in T
    BY EmptySeq, OfNothing
<1>3. ASSUME NEW seq \in T, NEW rec \in S PROVE Append(seq, rec) \in T
    <2> DEFINE p == Projection(seq)
               w == WalkRunning(seq)
    <2>1. seq \in Seq(S) /\ WalkRunning(p) = w
        OBVIOUS
    <2>2. p \in Seq(K) /\ Projection(Append(seq, rec)) = KeepRecord(p, rec)
        BY <2>1, ProjectionOfAppend
    <2>3. w \in ReaderState /\ WalkRunning(Append(seq, rec)) = ReadRunning(w, rec)
        BY <2>1, RunningWalkOfAppend
    <2>4. Append(seq, rec) \in Seq(S)
        BY <2>1, AppendProperties
    <2>5. KeptRecord(rec) \in K
        BY DEF KeptRecords
    <2> HIDE DEF p, w, K
    <2>6. WalkRunning(KeepRecord(p, rec)) = ReadRunning(w, rec)
        <3>1. CASE rec.kind \in {"session", "model", "reading"}
            <4>1. KeepRecord(p, rec) = Append(p, KeptRecord(rec))
                BY <3>1 DEF KeepRecord
            <4>2. WalkRunning(Append(p, KeptRecord(rec))) = ReadRunning(WalkRunning(p), KeptRecord(rec))
                BY <1>1, <2>2, <2>5, RunningWalkOfAppend
            <4>3. ReadRunning(w, KeptRecord(rec)) = ReadRunning(w, rec)
                BY <2>3, <3>1, KeptIsReadAlike
            <4>4. QED
                BY <2>1, <4>1, <4>2, <4>3
        <3>2. CASE rec.kind \notin {"session", "model", "reading"}
            <4>1. KeepRecord(p, rec) = p
                BY <3>2 DEF KeepRecord
            <4>2. ReadRunning(w, rec) = w
                BY <2>3, <3>2, KeptIsReadAlike
            <4>3. QED
                BY <2>1, <4>1, <4>2
        <3>3. QED
            BY <3>1, <3>2
    <2>7. QED
        BY <2>2, <2>3, <2>4, <2>6
<1>4. T = Seq(S)
    <2> HIDE DEF T
    <2>1. QED
        BY <1>2, <1>3, SeqsByAppend
<1>5. QED
    BY <1>4

(* A projection only grows with its journal. *)
LEMMA ProjectionGrows ==
    ASSUME NEW S, NEW file \in Seq(S), NEW rec \in S
    PROVE  \/ Projection(Append(file, rec)) = Projection(file)
           \/ Projection(Append(file, rec)) = Append(Projection(file), KeptRecord(rec))
BY ProjectionOfAppend DEF KeepRecord

----------------------------------------------------------------------------
(* The day index. *)

AddRowFcn(sessions) == [q \in Indexes(sessions) \X BilledRow |-> AddRow(q[1], q[2])]

(* A row is added to its day. *)
LEMMA AddRowIs ==
    ASSUME NEW sessions, NEW x \in Indexes(sessions), NEW row \in BilledRow
    PROVE  /\ AddRow(x, row) \in Indexes(sessions)
           /\ AddRow(x, row).total = [x.total EXCEPT ![row.day] = @ + row.total]
<1> DEFINE d == row.day
           i == row.id
           base == [x EXCEPT !.days = @ \cup {row.day},
                             !.total[row.day] = @ + row.total,
                             !.ids[row.day][row.id] = @ + row.total]
           split == [base EXCEPT !.cats[row.day] = [c \in Class |-> @[c] + row.parts[c]],
                                 !.joint[row.day][row.id] = [c \in Class |-> @[c] + row.parts[c]]]
           loose == [base EXCEPT !.loose = @ \cup {row.day}]
<1>1. d \in Day /\ i \in Ident /\ row.total \in Nat /\ (row.parts # NoParts => row.parts \in [Class -> Nat])
    BY DEF BilledRow
<1>2. base \in Indexes(sessions) /\ base.total = [x.total EXCEPT ![d] = @ + row.total]
    <2>1. x.total[d] + row.total \in Nat /\ x.ids[d][i] + row.total \in Nat
        BY <1>1 DEF Indexes
    <2>2. [x.total EXCEPT ![d] = @ + row.total] \in [Day -> Nat]
        BY <1>1, <2>1 DEF Indexes
    <2>3. [x.ids EXCEPT ![d][i] = @ + row.total] \in [Day -> [Ident -> Nat]]
        BY <1>1, <2>1 DEF Indexes
    <2>4. base = [x EXCEPT !.days = @ \cup {d}, !.total = [x.total EXCEPT ![d] = @ + row.total],
                           !.ids = [x.ids EXCEPT ![d][i] = @ + row.total]]
        BY DEF Indexes
    <2> HIDE DEF base
    <2>5. QED
        BY <1>1, <2>2, <2>3, <2>4 DEF Indexes
<1>3. loose \in Indexes(sessions) /\ loose.total = base.total
    <2> HIDE DEF base
    <2>1. QED
        BY <1>1, <1>2 DEF Indexes
<1>4. ASSUME row.parts # NoParts PROVE split \in Indexes(sessions) /\ split.total = base.total
    <2> DEFINE more(f) == [c \in Class |-> f[c] + row.parts[c]]
    <2> HIDE DEF base
    <2>1. more(base.cats[d]) \in [Class -> Nat] /\ more(base.joint[d][i]) \in [Class -> Nat]
        BY <1>1, <1>2, <1>4 DEF Indexes
    <2>2. split = [base EXCEPT !.cats = [base.cats EXCEPT ![d] = more(base.cats[d])],
                               !.joint = [base.joint EXCEPT ![d][i] = more(base.joint[d][i])]]
        BY <1>2 DEF Indexes
    <2> HIDE DEF more, split
    <2>3. QED
        BY <1>1, <1>2, <2>1, <2>2 DEF Indexes
<1>5. AddRow(x, row) = IF row.parts = NoParts THEN loose ELSE split
    BY DEF AddRow
<1> HIDE DEF base, split, loose
<1>6. QED
    BY <1>2, <1>3, <1>4, <1>5

(* The index's step is a function of an index and a row. *)
LEMMA AddRowFcnType ==
    ASSUME NEW sessions, NEW x \in Indexes(sessions)
    PROVE  AddRowFcn(sessions) \in [Indexes(sessions) \X BilledRow -> Indexes(sessions)] /\ x \in Indexes(sessions)
BY AddRowIs DEF AddRowFcn

(* The index of some rows is a fold of them. *)
LEMMA IndexIsAFold ==
    ASSUME NEW sessions, NEW x \in Indexes(sessions), NEW rows \in Seq(BilledRow)
    PROVE  FoldLeft(AddRow, x, rows) = FoldOf(Indexes(sessions), AddRowFcn(sessions), x, rows)
<1> DEFINE Step(g, s) == LET last == Max(s) IN AddRow(g[s \ {last}], rows[last])
           g == CHOOSE h : h = [s \in SUBSET (DOMAIN rows) |-> IF s = {} THEN x ELSE Step(h, s)]
<1>1. FoldLeft(AddRow, x, rows) = g[DOMAIN rows]
    BY DEF FoldLeft, MapThenFoldSet
<1>2. Folding(Indexes(sessions), BilledRow, AddRowFcn(sessions), x, rows)
    BY AddRowFcnType DEF Folding, AddRowFcn
<1>3. DOMAIN rows = 1 .. Len(rows) /\ Len(rows) \in Nat
    BY LenProperties
<1>4. PICK f : FoldFcn(f, Len(rows), Indexes(sessions), AddRowFcn(sessions), x, rows)
    BY <1>2, FoldExists DEF Folding, Foldable, FoldFcn
<1>5. ASSUME NEW h, NEW s \in SUBSET (1 .. Len(rows)), s # {}, h[s \ {Max(s)}] \in Indexes(sessions)
      PROVE  Step(h, s) = AddRowFcn(sessions)[<<h[s \ {Max(s)}], rows[Max(s)]>>]
    <2>1. rows[Max(s)] \in BilledRow
        BY <1>3, <1>5, MaxIn, ElementOfSeq
    <2>2. QED
        BY <1>5, <2>1 DEF AddRowFcn
<1>6. f = [s \in SUBSET (DOMAIN rows) |-> IF s = {} THEN x ELSE Step(f, s)]
    <2>1. ASSUME NEW s \in SUBSET (1 .. Len(rows))
          PROVE  f[s] = IF s = {} THEN x ELSE Step(f, s)
        <3>1. s \ {Max(s)} \in SUBSET (1 .. Len(rows))
            OBVIOUS
        <3>2. f[s \ {Max(s)}] \in Indexes(sessions)
            BY <1>4, <3>1 DEF FoldFcn
        <3>3. f[s] = IF s = {} THEN x ELSE AddRowFcn(sessions)[<<f[s \ {Max(s)}], rows[Max(s)]>>]
            BY <1>4 DEF FoldFcn, IsFoldOf
        <3> HIDE DEF Step
        <3>4. QED
            BY <1>5, <3>2, <3>3
    <2> HIDE DEF Step
    <2>2. QED
        BY <1>3, <1>4, <2>1 DEF FoldFcn
<1>7. g = [s \in SUBSET (DOMAIN rows) |-> IF s = {} THEN x ELSE Step(g, s)]
    <2> HIDE DEF Step
    <2>1. QED
        BY <1>6
<1> HIDE DEF g
<1>8. Unfolds(g, Len(rows), Indexes(sessions), AddRowFcn(sessions), x, rows)
    <2>1. g[{}] = x /\ \A s \in SUBSET (1 .. Len(rows)) : s # {} => g[s] = Step(g, s)
        <3> HIDE DEF Step
        <3>1. QED
            BY <1>3, <1>7
    <2> HIDE DEF Step
    <2>2. QED
        BY <1>5, <2>1 DEF Unfolds
<1>9. g[1 .. Len(rows)] = FoldOf(Indexes(sessions), AddRowFcn(sessions), x, rows)
    BY <1>2, <1>8, FoldOfIs
<1>10. QED
    BY <1>1, <1>3, <1>9

(* One row more is added to the index of the others. *)
LEMMA IndexOfAppend ==
    ASSUME NEW sessions, NEW x \in Indexes(sessions), NEW rows \in Seq(BilledRow), NEW e \in BilledRow
    PROVE  /\ FoldLeft(AddRow, x, <<>>) = x /\ FoldLeft(AddRow, x, rows) \in Indexes(sessions)
           /\ FoldLeft(AddRow, x, Append(rows, e)) = AddRow(FoldLeft(AddRow, x, rows), e)
<1>1. Folding(Indexes(sessions), BilledRow, AddRowFcn(sessions), x, rows)
    BY AddRowFcnType DEF Folding, AddRowFcn
<1>2. /\ FoldOf(Indexes(sessions), AddRowFcn(sessions), x, <<>>) = x
      /\ FoldOf(Indexes(sessions), AddRowFcn(sessions), x, rows) \in Indexes(sessions)
      /\ FoldOf(Indexes(sessions), AddRowFcn(sessions), x, Append(rows, e))
           = AddRowFcn(sessions)[<<FoldOf(Indexes(sessions), AddRowFcn(sessions), x, rows), e>>]
    BY <1>1, FoldOfAppend
<1>3. Append(rows, e) \in Seq(BilledRow) /\ <<>> \in Seq(BilledRow)
    BY AppendProperties, EmptySeq
<1>4. QED
    BY <1>2, <1>3, IndexIsAFold DEF AddRowFcn


----------------------------------------------------------------------------
(* The message reader. *)

Messages(S) == {rec \in S : rec.kind = "message"}
KeysOf(S) == {rec.key : rec \in Messages(S)}
CountedState(S) == [seen : {k \in SUBSET KeysOf(S) : IsFiniteSet(k)}, rows : Seq(BilledRow)]
Fresh(seen) == [seen |-> seen, rows |-> <<>>]
ReadMessageFcn(S) == [q \in CountedState(S) \X S |-> ReadMessage(q[1], q[2])]

(* A message bills its own usage once, and is known from then on. *)
LEMMA ReadMessageIs ==
    ASSUME NEW S, AreRecords(S), NEW s \in CountedState(S), NEW rec \in S
    PROVE  /\ ReadMessage(s, rec) \in CountedState(S)
           /\ \/ ReadMessage(s, rec) = s
              \/ /\ rec.kind = "message" /\ (rec.key = NoKey \/ rec.key \notin s.seen)
                 /\ \E row \in BilledRow :
                      /\ ReadMessage(s, rec) = [seen |-> s.seen \cup ({rec.key} \ {NoKey}), rows |-> Append(s.rows, row)]
                      /\ row.total = SumParts(UsageParts(rec.usage))
<1>1. CASE rec.kind # "message" \/ (rec.key # NoKey /\ rec.key \in s.seen)
    <2>1. ReadMessage(s, rec) = s
        BY <1>1 DEF ReadMessage
    <2>2. QED
        BY <2>1
<1>2. CASE ~(rec.kind # "message" \/ (rec.key # NoKey /\ rec.key \in s.seen))
    <2> DEFINE row == [day |-> rec.day, total |-> SumParts(UsageParts(rec.usage)),
                       parts |-> UsageParts(rec.usage), id |-> RawIdentity(rec.model)]
               seen == s.seen \cup ({rec.key} \ {NoKey})
    <2>1. rec.day \in Day /\ rec.usage \in [Field -> Nat] /\ rec \in Messages(S)
        BY <1>2 DEF IsRecord, AreRecords, Messages
    <2>2. UsageParts(rec.usage) \in [Class -> Nat] /\ SumParts(UsageParts(rec.usage)) \in Nat
        <3>1. UsageParts(rec.usage) \in [Class -> Nat]
            BY <2>1 DEF UsageParts, Class, Field
        <3>2. QED
            BY <3>1 DEF SumParts, Class
    <2>3. row \in BilledRow
        BY <2>1, <2>2, RawIdentityIs DEF BilledRow
    <2>4. seen \in SUBSET KeysOf(S) /\ IsFiniteSet(seen)
        <3>1. IsFiniteSet({rec.key} \ {NoKey})
            BY FS_Singleton, FS_Subset
        <3>2. s.seen \in SUBSET KeysOf(S) /\ IsFiniteSet(s.seen)
            BY DEF CountedState
        <3>3. rec.key \in KeysOf(S)
            BY <2>1 DEF KeysOf
        <3>4. QED
            BY <3>1, <3>2, <3>3, FS_Union
    <2>5. ReadMessage(s, rec) = [seen |-> seen, rows |-> Append(s.rows, row)]
        BY <1>2 DEF ReadMessage
    <2> HIDE DEF row
    <2>6. Append(s.rows, row) \in Seq(BilledRow)
        BY <2>3, AppendProperties DEF CountedState
    <2>7. row.total = SumParts(UsageParts(rec.usage))
        BY DEF row
    <2>8. ReadMessage(s, rec) \in CountedState(S)
        <3> HIDE DEF seen
        <3>1. QED
            BY <2>4, <2>5, <2>6 DEF CountedState
    <2>9. QED
        BY <1>2, <2>3, <2>5, <2>7, <2>8
<1>3. QED
    BY <1>1, <1>2

(* The message reader's step is a function of its states and records. *)
LEMMA MessageFcnType ==
    ASSUME NEW S, AreRecords(S), NEW seen \in SUBSET KeysOf(S), IsFiniteSet(seen)
    PROVE  ReadMessageFcn(S) \in [CountedState(S) \X S -> CountedState(S)] /\ Fresh(seen) \in CountedState(S)
<1>1. Fresh(seen) \in CountedState(S)
    BY EmptySeq DEF Fresh, CountedState
<1>2. QED
    BY <1>1, ReadMessageIs DEF ReadMessageFcn

(* Reading a file of messages is a fold of its records. *)
LEMMA MessageWalkIsAFold ==
    ASSUME NEW S, AreRecords(S), NEW seen \in SUBSET KeysOf(S), IsFiniteSet(seen), NEW file \in Seq(S)
    PROVE  WalkMessages(seen, file) = FoldOf(CountedState(S), ReadMessageFcn(S), Fresh(seen), file)
<1> DEFINE Step(g, s) == LET x == Max(s) IN ReadMessage(g[s \ {x}], file[x])
           g == CHOOSE g : g = [s \in SUBSET (DOMAIN file) |-> IF s = {} THEN Fresh(seen) ELSE Step(g, s)]
<1>1. WalkMessages(seen, file) = g[DOMAIN file]
    BY DEF Fresh, WalkMessages, FoldLeft, MapThenFoldSet
<1>2. Folding(CountedState(S), S, ReadMessageFcn(S), Fresh(seen), file)
    BY MessageFcnType DEF Folding, ReadMessageFcn
<1>3. DOMAIN file = 1 .. Len(file) /\ Len(file) \in Nat
    BY LenProperties
<1>4. PICK f : FoldFcn(f, Len(file), CountedState(S), ReadMessageFcn(S), Fresh(seen), file)
    BY <1>2, FoldExists DEF Folding, Foldable, FoldFcn
<1>5. ASSUME NEW h, NEW s \in SUBSET (1 .. Len(file)), s # {}, h[s \ {Max(s)}] \in CountedState(S)
      PROVE  Step(h, s) = ReadMessageFcn(S)[<<h[s \ {Max(s)}], file[Max(s)]>>]
    <2>1. file[Max(s)] \in S
        BY <1>3, <1>5, MaxIn, ElementOfSeq
    <2>2. QED
        BY <1>5, <2>1 DEF ReadMessageFcn
<1>6. f = [s \in SUBSET (DOMAIN file) |-> IF s = {} THEN Fresh(seen) ELSE Step(f, s)]
    <2>1. ASSUME NEW s \in SUBSET (1 .. Len(file))
          PROVE  f[s] = IF s = {} THEN Fresh(seen) ELSE Step(f, s)
        <3>1. s \ {Max(s)} \in SUBSET (1 .. Len(file))
            OBVIOUS
        <3>2. f[s \ {Max(s)}] \in CountedState(S)
            BY <1>4, <3>1 DEF FoldFcn
        <3>3. f[s] = IF s = {} THEN Fresh(seen) ELSE ReadMessageFcn(S)[<<f[s \ {Max(s)}], file[Max(s)]>>]
            BY <1>4 DEF FoldFcn, IsFoldOf
        <3> HIDE DEF Step
        <3>4. QED
            BY <1>5, <3>2, <3>3
    <2> HIDE DEF Step
    <2>2. QED
        BY <1>3, <1>4, <2>1 DEF FoldFcn
<1>7. g = [s \in SUBSET (DOMAIN file) |-> IF s = {} THEN Fresh(seen) ELSE Step(g, s)]
    <2> HIDE DEF Step
    <2>1. QED
        BY <1>6
<1> HIDE DEF g
<1>8. Unfolds(g, Len(file), CountedState(S), ReadMessageFcn(S), Fresh(seen), file)
    <2>1. g[{}] = Fresh(seen) /\ \A s \in SUBSET (1 .. Len(file)) : s # {} => g[s] = Step(g, s)
        <3> HIDE DEF Step
        <3>1. QED
            BY <1>3, <1>7
    <2> HIDE DEF Step
    <2>2. QED
        BY <1>5, <2>1 DEF Unfolds
<1>9. g[1 .. Len(file)] = FoldOf(CountedState(S), ReadMessageFcn(S), Fresh(seen), file)
    BY <1>2, <1>8, FoldOfIs
<1>10. QED
    BY <1>1, <1>3, <1>9

(* One record more is read after the others. *)
LEMMA MessageWalkOfAppend ==
    ASSUME NEW S, AreRecords(S), NEW seen \in SUBSET KeysOf(S), IsFiniteSet(seen), NEW file \in Seq(S), NEW e \in S
    PROVE  /\ WalkMessages(seen, <<>>) = Fresh(seen) /\ WalkMessages(seen, file) \in CountedState(S)
           /\ WalkMessages(seen, Append(file, e)) = ReadMessage(WalkMessages(seen, file), e)
<1>1. Folding(CountedState(S), S, ReadMessageFcn(S), Fresh(seen), file)
    BY MessageFcnType DEF Folding, ReadMessageFcn
<1>2. /\ FoldOf(CountedState(S), ReadMessageFcn(S), Fresh(seen), <<>>) = Fresh(seen)
      /\ FoldOf(CountedState(S), ReadMessageFcn(S), Fresh(seen), file) \in CountedState(S)
      /\ FoldOf(CountedState(S), ReadMessageFcn(S), Fresh(seen), Append(file, e))
           = ReadMessageFcn(S)[<<FoldOf(CountedState(S), ReadMessageFcn(S), Fresh(seen), file), e>>]
    BY <1>1, FoldOfAppend
<1>3. Append(file, e) \in Seq(S) /\ <<>> \in Seq(S)
    BY AppendProperties, EmptySeq
<1>4. QED
    BY <1>2, <1>3, MessageWalkIsAFold DEF ReadMessageFcn


----------------------------------------------------------------------------
(* The kept journals. *)

\* t begins with s.
Begins(s, t) == Len(s) <= Len(t) /\ \A i \in 1 .. Len(s) : s[i] = t[i]

(* A prefix of a sequence is what it begins with. *)
LEMMA PrefixIs ==
    ASSUME NEW S, NEW s \in Seq(S), NEW t \in Seq(S)
    PROVE  IsPrefix(s, t) <=> Begins(s, t)
<1>1. Len(s) \in Nat /\ Len(t) \in Nat
    BY LenProperties
<1>2. /\ Len(SubSeq(s, 1, Len(s))) = Len(s)
      /\ \A i \in 1 .. Len(s) : SubSeq(s, 1, Len(s))[i] = s[i]
      /\ SubSeq(s, 1, Len(s)) \in Seq(S)
    <2>1. \A i \in 1 .. Len(s) : s[i] \in S
        BY ElementOfSeq
    <2>2. QED
        BY <1>1, <2>1, SubSeqProperties
<1>3. ASSUME Len(s) <= Len(t)
      PROVE  /\ Len(SubSeq(t, 1, Len(s))) = Len(s)
             /\ \A i \in 1 .. Len(s) : SubSeq(t, 1, Len(s))[i] = t[i]
             /\ SubSeq(t, 1, Len(s)) \in Seq(S)
    <2>1. \A i \in 1 .. Len(s) : t[i] \in S
        BY <1>1, <1>3, ElementOfSeq
    <2>2. QED
        BY <1>1, <1>3, <2>1, SubSeqProperties
<1>4. ASSUME IsPrefix(s, t) PROVE Begins(s, t)
    <2>1. Len(s) <= Len(t) /\ SubSeq(s, 1, Len(s)) = SubSeq(t, 1, Len(s))
        BY <1>4 DEF IsPrefix
    <2>2. ASSUME NEW i \in 1 .. Len(s) PROVE s[i] = t[i]
        BY <1>2, <1>3, <2>1
    <2>3. QED
        BY <2>1, <2>2 DEF Begins
<1>5. ASSUME Begins(s, t) PROVE IsPrefix(s, t)
    <2>1. Len(s) <= Len(t) /\ \A i \in 1 .. Len(s) : s[i] = t[i]
        BY <1>5 DEF Begins
    <2>2. SubSeq(s, 1, Len(s)) = SubSeq(t, 1, Len(s))
        BY <1>2, <1>3, <2>1, SeqEqual
    <2>3. QED
        BY <2>1, <2>2 DEF IsPrefix
<1>6. QED
    BY <1>4, <1>5

(* A prefix stays one of a sequence an element longer. *)
LEMMA PrefixOfAppend ==
    ASSUME NEW S, NEW s \in Seq(S), NEW t \in Seq(S), NEW e \in S, IsPrefix(s, t)
    PROVE  IsPrefix(s, Append(t, e))
<1>1. Begins(s, t) /\ Append(t, e) \in Seq(S) /\ Len(Append(t, e)) = Len(t) + 1
      /\ (\A i \in 1 .. Len(t) : Append(t, e)[i] = t[i]) /\ Len(s) \in Nat /\ Len(t) \in Nat
    BY PrefixIs, AppendProperties, LenProperties
<1>2. Begins(s, Append(t, e))
    BY <1>1 DEF Begins
<1>3. QED
    BY <1>1, <1>2, PrefixIs

(* What is left of a sequence after a prefix completes it, and each part of *)
(* what is left extends the prefix.                                        *)
LEMMA PrefixAndRest ==
    ASSUME NEW S, NEW s \in Seq(S), NEW t \in Seq(S), IsPrefix(s, t)
    PROVE  LET rest == SubSeq(t, Len(s) + 1, Len(t))
           IN rest \in Seq(S) /\ IsPrefix(s \o rest, t)
<1> DEFINE rest == SubSeq(t, Len(s) + 1, Len(t))
<1>1. Len(s) \in Nat /\ Len(t) \in Nat /\ Len(s) <= Len(t) /\ \A i \in 1 .. Len(s) : s[i] = t[i]
    BY PrefixIs, LenProperties DEF Begins
<1>2. /\ rest \in Seq(S) /\ Len(rest) = Len(t) - Len(s)
      /\ \A i \in 1 .. Len(t) - Len(s) : rest[i] = t[Len(s) + i]
    <2>1. \A i \in Len(s) + 1 .. Len(t) : t[i] \in S
        BY <1>1, ElementOfSeq
    <2>2. Len(s) + 1 \in Int /\ Len(t) \in Int
        BY <1>1
    <2>3. rest \in Seq(S)
        BY <2>1, <2>2, SubSeqProperties
    <2>4. Len(rest) = IF Len(s) + 1 <= Len(t) THEN Len(t) - (Len(s) + 1) + 1 ELSE 0
        BY <2>1, <2>2, SubSeqProperties
    <2>5. \A i \in 1 .. Len(t) - (Len(s) + 1) + 1 : rest[i] = t[Len(s) + 1 + i - 1]
        BY <2>1, <2>2, SubSeqProperties
    <2> HIDE DEF rest
    <2>6. QED
        BY <1>1, <2>3, <2>4, <2>5
<1> HIDE DEF rest
<1>3. s \o rest \in Seq(S) /\ Len(s \o rest) = Len(t)
      /\ \A i \in 1 .. Len(t) : (s \o rest)[i] = IF i <= Len(s) THEN s[i] ELSE rest[i - Len(s)]
    BY <1>1, <1>2, ConcatProperties
<1>4. Begins(s \o rest, t)
    BY <1>1, <1>2, <1>3 DEF Begins
<1>5. QED
    BY <1>2, <1>3, <1>4, PrefixIs DEF rest

(* A part of what extends a prefix extends it too. *)
LEMMA PartOfRest ==
    ASSUME NEW S, NEW s \in Seq(S), NEW rest \in Seq(S), NEW n \in 0 .. Len(rest)
    PROVE  /\ s \o SubSeq(rest, 1, n) \in Seq(S)
           /\ \A t \in Seq(S) : IsPrefix(s \o rest, t) => IsPrefix(s \o SubSeq(rest, 1, n), t)
<1> DEFINE part == SubSeq(rest, 1, n)
<1>1. Len(s) \in Nat /\ Len(rest) \in Nat /\ n \in Int /\ n \in Nat /\ n <= Len(rest)
    BY LenProperties
<1>2. part \in Seq(S) /\ Len(part) = n /\ \A i \in 1 .. n : part[i] = rest[i]
    <2>1. \A i \in 1 .. n : rest[i] \in S
        BY <1>1, ElementOfSeq
    <2>2. QED
        BY <1>1, <2>1, SubSeqProperties
<1> HIDE DEF part
<1>3. /\ s \o rest \in Seq(S) /\ Len(s \o rest) = Len(s) + Len(rest)
      /\ \A i \in 1 .. Len(s) + Len(rest) : (s \o rest)[i] = IF i <= Len(s) THEN s[i] ELSE rest[i - Len(s)]
    BY ConcatProperties
<1>4. /\ s \o part \in Seq(S) /\ Len(s \o part) = Len(s) + n
      /\ \A i \in 1 .. Len(s) + n : (s \o part)[i] = IF i <= Len(s) THEN s[i] ELSE part[i - Len(s)]
    BY <1>2, ConcatProperties
<1>5. ASSUME NEW t \in Seq(S), IsPrefix(s \o rest, t) PROVE IsPrefix(s \o part, t)
    <2>1. Begins(s \o rest, t) /\ Len(t) \in Nat
        BY <1>3, <1>5, PrefixIs, LenProperties
    <2>2. ASSUME NEW i \in 1 .. Len(s) + n PROVE (s \o part)[i] = t[i]
        <3>1. i \in 1 .. Len(s) + Len(rest) /\ (i > Len(s) => i - Len(s) \in 1 .. n)
            BY <1>1
        <3>2. (s \o part)[i] = (s \o rest)[i]
            BY <1>1, <1>2, <1>3, <1>4, <3>1
        <3>3. QED
            BY <1>3, <2>1, <3>1, <3>2 DEF Begins
    <2>3. Len(s \o part) <= Len(t)
        BY <1>1, <1>3, <1>4, <2>1 DEF Begins
    <2>4. Begins(s \o part, t)
        BY <1>4, <2>2, <2>3 DEF Begins
    <2>5. QED
        BY <1>4, <2>4, PrefixIs
<1>6. QED
    BY <1>4, <1>5 DEF part

----------------------------------------------------------------------------
(* What a run carries. *)

(* What the tool writes and what is kept of it are records, of the same    *)
(* messages.                                                               *)
LEMMA LinesAre ==
    ASSUME format \in Formats
    PROVE  /\ AreRecords(Lines) /\ KeptLines = KeptRecords(Lines) /\ AreRecords(Lines \cup KeptLines)
           /\ KeysOf(Lines \cup KeptLines) = MessageKeys
           /\ Messages(Lines \cup KeptLines) = Messages(Lines)
<1>1. AreRecords(Lines) /\ KeptLines = KeptRecords(Lines)
    BY CaptureAssumption DEF Lines, KeptLines, AreRecords, KeptRecords
<1>2. AreRecords(Lines \cup KeptLines)
    BY <1>1, KeptAreRecords DEF AreRecords
<1>3. ASSUME NEW rec \in KeptLines, rec.kind = "message" PROVE rec \in Lines
    <2>1. PICK line \in Lines : rec = KeptRecord(line)
        BY DEF KeptLines
    <2>2. CASE line.kind = "model"
        BY <1>3, <2>1, <2>2 DEF KeptRecord, ModelRecord
    <2>3. CASE line.kind # "model"
        BY <2>1, <2>3 DEF KeptRecord
    <2>4. QED
        BY <2>2, <2>3
<1>4. /\ Messages(Lines \cup KeptLines) = {m \in Lines : m.kind = "message"}
      /\ Messages(Lines) = {m \in Lines : m.kind = "message"}
    BY <1>3 DEF Messages
<1>5. KeysOf(Lines \cup KeptLines) = MessageKeys
    BY <1>4 DEF KeysOf, MessageKeys
<1>6. QED
    BY <1>1, <1>2, <1>4, <1>5

(* A file's rows take a run's index from one index to another, and only    *)
(* its sessions otherwise.                                                 *)
LEMMA IndexedIs ==
    ASSUME NEW x, x \in Indexes(x.sessions), NEW rows \in Seq(BilledRow), NEW top
    PROVE  /\ Indexed(x, rows, top) \in Indexes(Indexed(x, rows, top).sessions)
           /\ Indexed(x, rows, top).total = FoldLeft(AddRow, x, rows).total
<1> DEFINE all == FoldLeft(AddRow, x, rows)
           y == Indexed(x, rows, top)
<1>1. all \in Indexes(x.sessions)
    <2> DEFINE sessions == x.sessions
    <2>1. x \in Indexes(sessions)
        OBVIOUS
    <2> HIDE DEF sessions
    <2>2. Folding(Indexes(sessions), BilledRow, AddRowFcn(sessions), x, rows)
        BY <2>1, AddRowFcnType DEF Folding, AddRowFcn
    <2>3. all = FoldOf(Indexes(sessions), AddRowFcn(sessions), x, rows)
        BY <2>1, IndexIsAFold
    <2>4. all \in Indexes(sessions)
        BY <2>2, <2>3, FoldOfType
    <2>5. QED
        BY <2>4 DEF sessions
<1>2. y = [all EXCEPT !.sessions = CloseSession(all.sessions, rows, top)]
    BY DEF Indexed
<1> HIDE DEF all, y
<1>3. y \in Indexes(y.sessions) /\ y.total = all.total
    BY <1>1, <1>2 DEF Indexes
<1>4. QED
    BY <1>3 DEF all, y

(* A walk ends in a state of its reader. *)
LEMMA WalksAre ==
    ASSUME NEW S, AreRecords(S), NEW file \in Seq(S)
    PROVE  /\ WalkRunning(file) \in ReaderState
           /\ \A seen \in SUBSET KeysOf(S) : IsFiniteSet(seen) => WalkMessages(seen, file) \in CountedState(S)
<1>1. WalkRunning(file) \in ReaderState
    <2>1. Folding(ReaderState, S, ReadRunningFcn(S), NewFile, file)
        BY RunningFcnType DEF Folding, ReadRunningFcn
    <2>2. QED
        BY <2>1, FoldOfType, RunningWalkIsAFold
<1>2. ASSUME NEW seen \in SUBSET KeysOf(S), IsFiniteSet(seen) PROVE WalkMessages(seen, file) \in CountedState(S)
    <2>1. Folding(CountedState(S), S, ReadMessageFcn(S), Fresh(seen), file)
        BY <1>2, MessageFcnType DEF Folding, ReadMessageFcn
    <2>2. WalkMessages(seen, file) = FoldOf(CountedState(S), ReadMessageFcn(S), Fresh(seen), file)
        BY <1>2, MessageWalkIsAFold
    <2>3. QED
        BY <2>1, <2>2, FoldOfType
<1>3. QED
    BY <1>1, <1>2

(* What a run carries is well formed. *)
Carries(q) == q \in InFlight(q) /\ IsFiniteSet(q.seen)

(* A file read leaves a run well formed, and moves only what it counted. *)
LEMMA WalkedIs ==
    ASSUME TypeOK, NEW r \in Run, NEW item \in run[r].todo
    PROVE  LET w == Walked(r, item) IN
           /\ Carries(w)
           /\ w.pc = run[r].pc /\ w.merge = run[r].merge
<1> DEFINE q == run[r]
           file == IF item.live THEN live[item.file] ELSE kept[item.file]
           S == Lines \cup KeptLines
           a == WalkRunning(file)
           m == WalkMessages(q.seen, file)
           carried == [d \in Day |-> q.carried[d] + a.carried[d]]
           byRunning == [q EXCEPT !.todo = q.todo \ {item}, !.index = Indexed(q.index, a.rows, a.top), !.carried = carried]
           byMessage == [q EXCEPT !.todo = q.todo \ {item}, !.index = Indexed(q.index, m.rows, "unknown"), !.seen = m.seen]
<1>1. q \in InFlight(q) /\ IsFiniteSet(q.seen) /\ format \in Formats
    BY DEF TypeOK
<1>2. /\ q.seen \in SUBSET MessageKeys /\ q.index \in Indexes(q.index.sessions)
      /\ item.file \in File /\ q.carried \in [Day -> Nat]
    BY <1>1 DEF InFlight
<1>3. file \in Seq(S)
    <2>1. live[item.file] \in Seq(Lines) /\ kept[item.file] \in Seq(KeptLines)
        BY <1>2 DEF TypeOK
    <2>2. live[item.file] \in Seq(S)
        BY <2>1, SeqMonotonic
    <2>3. kept[item.file] \in Seq(S)
        BY <2>1, SeqMonotonic
    <2>4. QED
        BY <2>2, <2>3
<1>4. a \in ReaderState /\ m \in CountedState(S)
    <2>1. AreRecords(S) /\ KeysOf(S) = MessageKeys
        BY <1>1, LinesAre
    <2> HIDE DEF S, file, q
    <2>2. QED
        BY <1>1, <1>2, <1>3, <2>1, WalksAre
<1>5. a.rows \in Seq(BilledRow) /\ m.rows \in Seq(BilledRow) /\ carried \in [Day -> Nat]
      /\ m.seen \in SUBSET MessageKeys /\ IsFiniteSet(m.seen)
    <2>1. KeysOf(S) = MessageKeys
        BY <1>1, LinesAre
    <2> HIDE DEF S, file, q, a, m
    <2>2. QED
        BY <1>2, <1>4, <2>1 DEF ReaderState, CountedState
<1>6. Walked(r, item) = IF Retains THEN byRunning ELSE byMessage
    BY DEF Walked
<1>7. Carries(byRunning) /\ byRunning.pc = q.pc /\ byRunning.merge = q.merge
    <2> DEFINE index == Indexed(q.index, a.rows, a.top)
    <2> HIDE DEF q, a, carried
    <2>1. index \in Indexes(index.sessions)
        BY <1>2, <1>5, IndexedIs
    <2> HIDE DEF index
    <2>2. byRunning = [q EXCEPT !.todo = q.todo \ {item}, !.index = index, !.carried = carried]
        BY DEF index
    <2> HIDE DEF byRunning
    <2>3. QED
        BY <1>1, <1>5, <2>1, <2>2 DEF InFlight, Carries
<1>8. Carries(byMessage) /\ byMessage.pc = q.pc /\ byMessage.merge = q.merge
    <2> DEFINE index == Indexed(q.index, m.rows, "unknown")
    <2> HIDE DEF q, m
    <2>1. index \in Indexes(index.sessions)
        BY <1>2, <1>5, IndexedIs
    <2> HIDE DEF index
    <2>2. byMessage = [q EXCEPT !.todo = q.todo \ {item}, !.index = index, !.seen = m.seen]
        BY DEF index
    <2> HIDE DEF byMessage
    <2>3. QED
        BY <1>1, <1>5, <2>1, <2>2 DEF InFlight, Carries
<1> HIDE DEF byRunning, byMessage
<1>9. QED
    BY <1>6, <1>7, <1>8 DEF q

(* A run that has not begun carries nothing. *)
LEMMA IdleIs == Carries(Idle) /\ Idle.pc = "off"
<1>1. EmptyIndex \in Indexes(EmptyIndex.sessions)
    BY DEF EmptyIndex, Indexes, NoIds, NoClasses
<1>2. Idle.index = EmptyIndex /\ Idle.seen = {} /\ <<>> \in Seq(KeptLines) /\ IsFiniteSet({})
    BY EmptySeq, FS_EmptySet DEF Idle
<1> DEFINE x == EmptyIndex
<1>3. Idle = [pc |-> "off", todo |-> {}, seen |-> {}, index |-> x,
              carried |-> [d \in Day |-> 0], merge |-> NoMerge, tail |-> <<>>, file |-> 0, gen |-> 0]
    BY DEF Idle
<1> HIDE DEF x
<1>4. QED
    BY <1>1, <1>2, <1>3 DEF InFlight, Carries, x

(* What the walk measured and the tool's own counts complete is a natural  *)
(* figure on every day.                                                    *)
LEMMA ExtendedTotals ==
    ASSUME NEW x, x \in Indexes(x.sessions), NEW c, IsCache(c)
    PROVE  \A d \in Day : ExtendWithCache(DailySeries(x), c).total[d] \in Nat
<1> DEFINE s == DailySeries(x)
           counted == ActivityDays(c)
           lost == KnownDays(c) \ Window(s)
           all == ExtendWithCache(s, c)
<1>1. s.total = x.total /\ \A d \in Day : s.total[d] \in Nat
    BY DEF DailySeries, Indexes
<1>2. ASSUME NEW d \in Day PROVE SumFunction(counted[d]) \in Nat
    <2>1. ASSUME NEW i \in Ident
          PROVE  SumFunction([k \in {n \in DOMAIN c.rows : c.rows[n].day = d /\ RawIdentity(c.rows[n].model) = i}
                               |-> c.rows[k].count]) \in Nat
        <3> DEFINE K == {n \in DOMAIN c.rows : c.rows[n].day = d /\ RawIdentity(c.rows[n].model) = i}
                   f == [k \in K |-> c.rows[k].count]
        <3>1. IsFiniteSet(K)
            BY FS_Subset DEF IsCache
        <3>2. f \in [K -> Nat]
            BY DEF IsCache
        <3> HIDE DEF f, K
        <3>3. SumFunction(f) \in Nat
            BY <3>1, <3>2, SumIsNat
        <3>4. QED
            BY <3>3 DEF f, K
    <2>2. counted[d] \in [Ident -> Nat]
        BY <2>1 DEF ActivityDays
    <2>3. IsFiniteSet(Ident)
        BY CaptureAssumption, FS_AddElement, FS_Union, FS_Singleton DEF Ident
    <2> HIDE DEF counted
    <2>4. QED
        BY <2>2, <2>3, SumIsNat
<1>3. c.rows # <<>> => all.total = [d \in Day |-> IF d \in lost THEN SumFunction(counted[d]) ELSE s.total[d]]
    BY DEF ExtendWithCache, DailySeries
<1>4. c.rows = <<>> => all = s
    BY DEF ExtendWithCache
<1> HIDE DEF s, counted, lost, all
<1>5. QED
    BY <1>1, <1>2, <1>3, <1>4 DEF s, all

(* What a run is about to store is what the owner read, and otherwise no   *)
(* less than what is stored unless an opening balance was set aside.       *)
LEMMA MergeIs ==
    ASSUME TypeOK, NEW q, Carries(q)
    PROVE  LET m == Merge(q) IN
           /\ \A d \in Day : m.readings[d] \in Nat /\ m.entries[d].total \in Nat
           /\ \A d \in Verified(m.readings) :
                m.entries[d].total = m.readings[d] /\ m.series.total[d] = m.readings[d]
           /\ \A d \in Day :
                m.entries[d].total < store[d].total => m.readings[d] > 0 \/ q.carried[d] > 0
<1> DEFINE fresh == ExtendWithCache(DailySeries(q.index), cache)
           remembered == Seeded(store, readings)
           merged == MergedDays(fresh, remembered, q.carried)
           union == MergeHistory(fresh, merged)
           corrected == VerifiedSeries(union, readings)
           entries == VerifiedEntries(merged, union, readings)
           m == Merge(q)
<1>1. m.readings = readings /\ m.entries = entries /\ m.series = corrected
    BY DEF Merge
<1>2. /\ \A d \in Day : readings[d] \in Nat /\ store[d].total \in Nat /\ q.carried[d] \in Nat
      /\ q.index \in Indexes(q.index.sessions) /\ IsCache(cache)
    <2>1. readings \in [Day -> Nat] /\ (\A d \in Day : store[d].total \in Nat) /\ cache \in Caches(format) /\ format \in Formats
        BY DEF TypeOK
    <2>2. q.carried \in [Day -> Nat] /\ q.index \in Indexes(q.index.sessions)
        BY DEF Carries, InFlight
    <2>3. IsCache(cache)
        BY <2>1, CaptureAssumption
    <2>4. QED
        BY <2>1, <2>2, <2>3
<1>3. \A d \in Day : fresh.total[d] \in Nat
    BY <1>2, ExtendedTotals
<1> HIDE DEF fresh
<1>4. \A d \in Day : remembered[d].total \in Nat /\ (readings[d] = 0 => remembered[d] = store[d])
    BY <1>2 DEF Seeded, Absent
<1> HIDE DEF remembered
<1>5. ASSUME NEW d \in Day
      PROVE  /\ merged[d].total \in Nat
             /\ merged[d].total < remembered[d].total => q.carried[d] > 0
    <2>1. CASE d \in Overridden(fresh, remembered, q.carried)
        <3>1. merged[d] = remembered[d]
            BY <2>1 DEF MergedDays
        <3>2. QED
            BY <1>4, <3>1
    <2>2. CASE d \notin Overridden(fresh, remembered, q.carried)
        <3>1. merged[d] = FreshEntry(fresh, d)
            BY <2>2 DEF MergedDays
        <3>2. FreshEntry(fresh, d).total = fresh.total[d]
            BY <1>3 DEF FreshEntry, Absent
        <3>3. remembered[d].total > 0 => fresh.total[d] + q.carried[d] >= remembered[d].total
            BY <1>2, <1>3, <1>4, <2>2 DEF Overridden
        <3>4. QED
            BY <1>2, <1>3, <1>4, <3>1, <3>2, <3>3
    <2>3. QED
        BY <2>1, <2>2
<1> HIDE DEF merged, union
<1>6. \A d \in Day : entries[d].total = IF d \in Verified(readings) THEN readings[d] ELSE merged[d].total
    BY DEF VerifiedEntries
<1>7. \A d \in Verified(readings) : d \in Day /\ readings[d] > 0 /\ corrected.total[d] = readings[d]
    <2>1. corrected.total = [d \in Day |-> IF d \in Verified(readings) THEN readings[d] ELSE union.total[d]]
        BY DEF VerifiedSeries, union, MergeHistory, fresh, ExtendWithCache, DailySeries
    <2>2. QED
        BY <2>1 DEF Verified
<1>8. \A d \in Day : d \notin Verified(readings) => readings[d] = 0
    BY <1>2 DEF Verified
<1> HIDE DEF entries, corrected, m
<1>9. QED
    BY <1>1, <1>2, <1>4, <1>5, <1>6, <1>7, <1>8 DEF m

----------------------------------------------------------------------------
(* The invariant, a step at a time. *)

LockIsHeld == Retains => \A r \in Run : run[r].pc # "off" <=> lock = r
RunsHold == \A r \in Run : TailIsOfItsFile(r) /\ MergeRemembers(r)
KeptHolds == \A f \in File : KeptIsOfItsFile(f)
ReplayHolds(l) == \A f \in File : WalkRunning(Projection(l[f])) = WalkRunning(l[f])

(* The invariant and its parts. *)
LEMMA CaptureInvIs ==
    /\ CaptureInv <=> TypeOK /\ LockIsHeld /\ KeptHolds /\ RunsHold /\ ReplayHolds(live)
    /\ CaptureInv' <=> TypeOK' /\ LockIsHeld' /\ KeptHolds' /\ RunsHold' /\ ReplayHolds(live')
BY DEF CaptureInv, LockIsHeld, KeptHolds, RunsHold, ReplayHolds

(* Replaying is reading, whatever is in the tree. *)
LEMMA ReplayAlwaysHolds ==
    ASSUME NEW fmt \in Formats, NEW l \in [File -> Seq(Records(fmt))]
    PROVE  ReplayHolds(l)
<1>1. AreRecords(Records(fmt))
    BY CaptureAssumption DEF AreRecords
<1>2. QED
    BY <1>1, ReplayIsReading DEF ReplayHolds

(* The frame of a step that moves no run and no store. *)
LEMMA ToolTypeOK ==
    ASSUME TypeOK, UNCHANGED <<format, kept, torn, keptGen, cache, store, lock, run>>,
           there' \subseteq File, gen' \in [File -> Nat], live' \in [File -> Seq(Lines)],
           \A f \in File : Len(live'[f]) <= MaxRecords /\ (f \in there' => live'[f] # <<>>),
           readings' \in [Day -> Nat]
    PROVE  TypeOK' /\ ReplayHolds(live') /\ KeptLines' = KeptLines /\ Lines' = Lines
<1>1. /\ Lines' = Lines /\ KeptLines' = KeptLines /\ MessageKeys' = MessageKeys
    BY DEF Lines, KeptLines, MessageKeys
<1>2. \A r \in Run : (run[r] \in InFlight(run[r]) /\ IsFiniteSet(run[r].seen))'
    BY <1>1 DEF InFlight, TypeOK
<1>3. TypeOK'
    BY <1>1, <1>2 DEF TypeOK
<1>4. ReplayHolds(live')
    <2>1. format \in Formats /\ live' \in [File -> Seq(Records(format))]
        BY DEF TypeOK, Lines
    <2>2. QED
        BY <2>1, ReplayAlwaysHolds
<1>5. QED
    BY <1>1, <1>3, <1>4

(* A projection is of what is kept. *)
LEMMA ProjectionType ==
    ASSUME TypeOK, NEW f \in File
    PROVE  Projection(live[f]) \in Seq(KeptLines) /\ Projection(live[f]) \in Seq(KeptRecords(Lines))
<1>1. KeptLines = KeptRecords(Lines) /\ live[f] \in Seq(Lines)
    BY LinesAre DEF TypeOK
<1>2. Folding(Seq(KeptRecords(Lines)), Lines, KeepRecordFcn(Lines), <<>>, live[f])
    BY <1>1, KeepFcnType DEF Folding, KeepRecordFcn
<1>3. QED
    BY <1>1, <1>2, FoldOfType, ProjectionIsAFold

(* A file started anew is none of those anything was kept of. *)
LEMMA ToolCreatesKeeps ==
    ASSUME CaptureInv, NEW f \in File, NEW rec \in Records(format), ToolCreates(f, rec)
    PROVE  CaptureInv'
<1>1. TypeOK /\ LockIsHeld /\ KeptHolds /\ RunsHold
    BY CaptureInvIs
<1>2. /\ UNCHANGED <<format, kept, torn, keptGen, cache, store, lock, run, readings>>
      /\ there' = there \cup {f} /\ gen' = [gen EXCEPT ![f] = @ + 1] /\ live' = [live EXCEPT ![f] = <<rec>>]
    BY DEF ToolCreates, ToolStep, journals
<1>3. gen \in [File -> Nat] /\ live \in [File -> Seq(Lines)] /\ there \subseteq File /\ readings \in [Day -> Nat]
      /\ keptGen \in [File -> Nat]
    BY <1>1 DEF TypeOK
<1>4. <<rec>> \in Seq(Lines) /\ <<rec>> # <<>> /\ Len(<<rec>>) = 1
    BY DEF Lines
<1>5. gen'[f] = gen[f] + 1 /\ gen' \in [File -> Nat] /\ \A g \in File : gen'[g] >= gen[g] /\ (g # f => gen'[g] = gen[g])
    BY <1>2, <1>3
<1>6. live' \in [File -> Seq(Lines)] /\ live'[f] = <<rec>> /\ \A g \in File : g # f => live'[g] = live[g]
    BY <1>2, <1>3, <1>4
<1>7. \A g \in File : Len(live'[g]) <= MaxRecords /\ (g \in there' => live'[g] # <<>>)
    <2>1. \A g \in File : Len(live[g]) <= MaxRecords /\ (g \in there => live[g] # <<>>)
        BY <1>1 DEF TypeOK
    <2>2. MaxRecords >= 1
        BY CaptureAssumption
    <2>3. QED
        BY <1>2, <1>4, <1>6, <2>1, <2>2
<1>8. TypeOK' /\ ReplayHolds(live')
    BY <1>1, <1>2, <1>3, <1>5, <1>6, <1>7, ToolTypeOK
<1>9. LockIsHeld'
    BY <1>1, <1>2 DEF LockIsHeld, Retains
<1>10. KeptHolds'
    <2>1. ASSUME NEW g \in File PROVE KeptIsOfItsFile(g)'
        <3>1. KeptIsOfItsFile(g) /\ gen[g] \in Nat /\ keptGen[g] \in Nat
            BY <1>1, <1>3 DEF KeptHolds
        <3>2. CASE g = f
            BY <1>2, <1>3, <1>5, <3>1, <3>2 DEF KeptIsOfItsFile
        <3>3. CASE g # f
            BY <1>2, <1>5, <1>6, <3>1, <3>3 DEF KeptIsOfItsFile
        <3>4. QED
            BY <3>2, <3>3
    <2>2. QED
        BY <2>1 DEF KeptHolds
<1>11. RunsHold'
    <2>1. ASSUME NEW r \in Run PROVE TailIsOfItsFile(r)' /\ MergeRemembers(r)'
        <3>1. TailIsOfItsFile(r) /\ MergeRemembers(r) /\ run[r].gen \in Nat
            BY <1>1 DEF RunsHold, TypeOK, InFlight
        <3>2. MergeRemembers(r)'
            BY <1>2, <3>1 DEF MergeRemembers, Retains
        <3>3. TailIsOfItsFile(r)'
            <4>1. CASE run[r].pc # "keep"
                BY <1>2, <4>1 DEF TailIsOfItsFile
            <4>2. CASE run[r].pc = "keep"
                <5>1. Retains /\ run[r].file \in File /\ run[r].gen <= gen[run[r].file]
                    BY <3>1, <4>2 DEF TailIsOfItsFile
                <5>2. CASE run[r].file = f
                    BY <1>2, <1>3, <1>5, <3>1, <5>1, <5>2 DEF TailIsOfItsFile, Retains
                <5>3. CASE run[r].file # f
                    BY <1>2, <1>5, <1>6, <3>1, <5>1, <5>3 DEF TailIsOfItsFile, Retains
                <5>4. QED
                    BY <5>2, <5>3
            <4>3. QED
                BY <4>1, <4>2
        <3>4. QED
            BY <3>2, <3>3
    <2>2. QED
        BY <2>1 DEF RunsHold
<1>12. QED
    BY <1>8, <1>9, <1>10, <1>11, CaptureInvIs

(* A journal that grew still begins with what was kept of it. *)
LEMMA ToolAppendsKeeps ==
    ASSUME CaptureInv, NEW f \in File, NEW rec \in Records(format), ToolAppends(f, rec)
    PROVE  CaptureInv'
<1>1. TypeOK /\ LockIsHeld /\ KeptHolds /\ RunsHold
    BY CaptureInvIs
<1>2. /\ UNCHANGED <<format, kept, torn, keptGen, cache, store, lock, run, readings, gen, there>>
      /\ f \in there /\ Len(live[f]) < MaxRecords /\ live' = [live EXCEPT ![f] = Append(@, rec)]
    BY DEF ToolAppends, ToolStep, journals
<1>3. gen \in [File -> Nat] /\ live \in [File -> Seq(Lines)] /\ there \subseteq File /\ readings \in [Day -> Nat]
      /\ kept \in [File -> Seq(KeptLines)] /\ format \in Formats
    BY <1>1 DEF TypeOK
<1>4. rec \in Lines /\ live[f] \in Seq(Lines) /\ Len(live[f]) \in Nat /\ MaxRecords \in Nat
    BY <1>3, LenProperties, CaptureAssumption DEF Lines
<1>5. Append(live[f], rec) \in Seq(Lines) /\ Append(live[f], rec) # <<>> /\ Len(Append(live[f], rec)) = Len(live[f]) + 1
    BY <1>4, AppendProperties
<1>6. live' \in [File -> Seq(Lines)] /\ live'[f] = Append(live[f], rec) /\ \A g \in File : g # f => live'[g] = live[g]
    BY <1>2, <1>3, <1>5
<1>7. \A g \in File : Len(live'[g]) <= MaxRecords /\ (g \in there' => live'[g] # <<>>)
    <2>1. \A g \in File : Len(live[g]) <= MaxRecords /\ (g \in there => live[g] # <<>>)
        BY <1>1 DEF TypeOK
    <2>2. QED
        BY <1>2, <1>4, <1>5, <1>6, <2>1
<1>8. TypeOK' /\ ReplayHolds(live')
    BY <1>1, <1>2, <1>3, <1>6, <1>7, ToolTypeOK
<1>9. ASSUME NEW s \in Seq(KeptLines), NEW g \in File, IsPrefix(s, Projection(live[g]))
      PROVE  IsPrefix(s, Projection(live'[g]))
    <2>1. Projection(live[f]) \in Seq(KeptLines) /\ KeptLines = KeptRecords(Lines)
        BY <1>1, <1>3, ProjectionType, LinesAre
    <2>2. KeptRecord(rec) \in KeptLines
        BY <1>4 DEF KeptLines
    <2>3. \/ Projection(Append(live[f], rec)) = Projection(live[f])
          \/ Projection(Append(live[f], rec)) = Append(Projection(live[f]), KeptRecord(rec))
        BY <1>4, ProjectionGrows
    <2>4. g = f => IsPrefix(s, Append(Projection(live[f]), KeptRecord(rec)))
        BY <1>9, <2>1, <2>2, PrefixOfAppend
    <2>5. QED
        BY <1>6, <1>9, <2>3, <2>4
<1>10. LockIsHeld'
    BY <1>1, <1>2 DEF LockIsHeld, Retains
<1>11. KeptHolds'
    <2>1. ASSUME NEW g \in File PROVE KeptIsOfItsFile(g)'
        <3>1. KeptIsOfItsFile(g) /\ kept[g] \in Seq(KeptLines)
            BY <1>1, <1>3 DEF KeptHolds
        <3>2. QED
            BY <1>2, <1>9, <3>1 DEF KeptIsOfItsFile
    <2>2. QED
        BY <2>1 DEF KeptHolds
<1>12. RunsHold'
    <2>1. ASSUME NEW r \in Run PROVE TailIsOfItsFile(r)' /\ MergeRemembers(r)'
        <3>1. TailIsOfItsFile(r) /\ MergeRemembers(r) /\ run[r].tail \in Seq(KeptLines)
            BY <1>1 DEF RunsHold, TypeOK, InFlight
        <3>2. MergeRemembers(r)'
            BY <1>2, <3>1 DEF MergeRemembers, Retains
        <3>3. run[r].file \in File => kept[run[r].file] \o run[r].tail \in Seq(KeptLines)
            BY <1>3, <3>1, ConcatProperties
        <3>4. TailIsOfItsFile(r)'
            BY <1>2, <1>9, <3>1, <3>3 DEF TailIsOfItsFile, Retains
        <3>5. QED
            BY <3>2, <3>4
    <2>2. QED
        BY <2>1 DEF RunsHold
<1>13. QED
    BY <1>8, <1>10, <1>11, <1>12, CaptureInvIs

(* Pruning a file moves nothing of what was kept of it. *)
LEMMA ToolPrunesKeeps ==
    ASSUME CaptureInv, NEW f \in File, ToolPrunes(f)
    PROVE  CaptureInv'
<1>1. TypeOK /\ LockIsHeld /\ KeptHolds /\ RunsHold
    BY CaptureInvIs
<1>2. /\ UNCHANGED <<format, kept, torn, keptGen, cache, store, lock, run, readings, gen, live>>
      /\ there' = there \ {f}
    BY DEF ToolPrunes, ToolStep, journals
<1>3. TypeOK' /\ ReplayHolds(live')
    <2>1. /\ there' \subseteq File /\ gen' \in [File -> Nat] /\ live' \in [File -> Seq(Lines)]
          /\ \A g \in File : Len(live'[g]) <= MaxRecords /\ (g \in there' => live'[g] # <<>>)
          /\ readings' \in [Day -> Nat]
        BY <1>1, <1>2 DEF TypeOK
    <2>2. QED
        BY <1>1, <1>2, <2>1, ToolTypeOK
<1>4. LockIsHeld' /\ KeptHolds' /\ RunsHold'
    BY <1>1, <1>2 DEF LockIsHeld, Retains, KeptHolds, KeptIsOfItsFile, RunsHold, TailIsOfItsFile, MergeRemembers
<1>5. QED
    BY <1>3, <1>4, CaptureInvIs

(* A figure the owner reads is none of what a run already merged. *)
LEMMA OwnerReadsKeeps ==
    ASSUME CaptureInv, NEW d \in Day, NEW n \in Figures, OwnerReads(d, n)
    PROVE  CaptureInv'
<1>1. TypeOK /\ LockIsHeld /\ KeptHolds /\ RunsHold
    BY CaptureInvIs
<1>2. /\ UNCHANGED <<format, kept, torn, keptGen, cache, store, lock, run, gen, live, there>>
      /\ readings' = [readings EXCEPT ![d] = n]
    BY DEF OwnerReads, journals, tree
<1>3. TypeOK' /\ ReplayHolds(live')
    <2>1. n \in Nat
        BY CaptureAssumption
    <2>2. /\ there' \subseteq File /\ gen' \in [File -> Nat] /\ live' \in [File -> Seq(Lines)]
          /\ \A g \in File : Len(live'[g]) <= MaxRecords /\ (g \in there' => live'[g] # <<>>)
          /\ readings' \in [Day -> Nat]
        BY <1>1, <1>2, <2>1 DEF TypeOK
    <2>3. QED
        BY <1>1, <1>2, <2>2, ToolTypeOK
<1>4. LockIsHeld' /\ KeptHolds' /\ RunsHold'
    BY <1>1, <1>2 DEF LockIsHeld, Retains, KeptHolds, KeptIsOfItsFile, RunsHold, TailIsOfItsFile, MergeRemembers
<1>5. QED
    BY <1>3, <1>4, CaptureInvIs

(* A step of one run.  Where the kept tree is locked no other is in        *)
(* flight, and where it is not nothing is kept and nothing is compared.    *)
LEMMA RunStepKeeps ==
    ASSUME CaptureInv, NEW r \in Run, NEW w, Carries(w), run' = [run EXCEPT ![r] = w],
           UNCHANGED <<format, cache, there, gen, live, readings>>,
           kept' \in [File -> Seq(KeptLines)], keptGen' \in [File -> Nat], DOMAIN torn' = File,
           \A d \in Day : store'[d].total \in Nat,
           lock' \in Run \cup {Nobody},
           Retains => /\ \A q \in Run : q # r => run[q].pc = "off"
                      /\ w.pc # "off" <=> lock' = r
                      /\ lock' \in {r, Nobody},
           KeptHolds', TailIsOfItsFile(r)', MergeRemembers(r)'
    PROVE  CaptureInv' /\ run'[r] = w
<1>1. TypeOK /\ LockIsHeld /\ KeptHolds /\ RunsHold
    BY CaptureInvIs
<1>2. run' = [q \in Run |-> run'[q]] /\ run'[r] = w /\ \A q \in Run : q # r => run'[q] = run[q]
    BY <1>1 DEF TypeOK
<1>3. Lines' = Lines /\ KeptLines' = KeptLines /\ MessageKeys' = MessageKeys
    BY DEF Lines, KeptLines, MessageKeys
<1>4. \A q \in Run : (run[q] \in InFlight(run[q]) /\ IsFiniteSet(run[q].seen))'
    <2>1. ASSUME NEW q \in Run PROVE Carries(run'[q])
        BY <1>1, <1>2 DEF TypeOK, Carries
    <2>2. QED
        BY <1>3, <2>1 DEF InFlight, Carries
<1>5. TypeOK'
    <2>1. format' \in Formats /\ cache' \in Caches(format')
        BY <1>1 DEF TypeOK
    <2>2. there' \subseteq File /\ gen' \in [File -> Nat] /\ live' \in [File -> Seq(Lines')] /\ readings' \in [Day -> Nat]
          /\ \A f \in File : Len(live'[f]) <= MaxRecords /\ (f \in there' => live'[f] # <<>>)
        BY <1>1, <1>3 DEF TypeOK
    <2>3. QED
        BY <1>2, <1>3, <1>4, <2>1, <2>2 DEF TypeOK
<1>6. ReplayHolds(live')
    BY <1>1 DEF CaptureInv, ReplayHolds
<1>7. LockIsHeld'
    <2>1. Retains' <=> Retains
        BY DEF Retains
    <2>2. ASSUME Retains, NEW q \in Run, q # r PROVE run'[q].pc = "off" /\ lock' # q
        BY <1>2, <2>2, CaptureAssumption
    <2>3. Retains => (run'[r].pc # "off" <=> lock' = r)
        BY <1>2
    <2>4. QED
        BY <2>1, <2>2, <2>3 DEF LockIsHeld
<1>8. ASSUME NEW q \in Run, q # r PROVE TailIsOfItsFile(q)' /\ MergeRemembers(q)'
    <2>1. TailIsOfItsFile(q) /\ MergeRemembers(q) /\ run'[q] = run[q]
        BY <1>1, <1>2, <1>8 DEF RunsHold
    <2>2. CASE Retains
        <3>1. run'[q].pc = "off"
            BY <1>8, <2>1, <2>2
        <3>2. QED
            BY <3>1 DEF TailIsOfItsFile, MergeRemembers
    <2>3. CASE ~Retains
        <3>1. run[q].pc # "keep"
            BY <2>1, <2>3 DEF TailIsOfItsFile
        <3>2. TailIsOfItsFile(q)'
            BY <2>1, <3>1 DEF TailIsOfItsFile
        <3>3. MergeRemembers(q)'
            BY <2>1, <2>3 DEF MergeRemembers, Retains
        <3>4. QED
            BY <3>2, <3>3
    <2>4. QED
        BY <2>2, <2>3
<1>9. RunsHold'
    BY <1>8 DEF RunsHold
<1>10. QED
    BY <1>2, <1>5, <1>6, <1>7, <1>9, CaptureInvIs

(* A run in flight over a kept tree is the only one. *)
LEMMA AloneInFlight ==
    ASSUME TypeOK, LockIsHeld, NEW r \in Run, run[r].pc # "off", Retains
    PROVE  lock = r /\ \A q \in Run : q # r => run[q].pc = "off"
BY DEF LockIsHeld

(* A run that ends releases what it held. *)
LEMMA EndKeeps ==
    ASSUME CaptureInv, NEW r \in Run, run[r].pc # "off", End(r),
           UNCHANGED <<format, cache, there, gen, live, readings>>,
           kept' \in [File -> Seq(KeptLines)], keptGen' \in [File -> Nat], DOMAIN torn' = File,
           \A d \in Day : store'[d].total \in Nat, KeptHolds'
    PROVE  CaptureInv' /\ run'[r] = Idle
<1>1. TypeOK /\ LockIsHeld /\ KeptHolds /\ RunsHold
    BY CaptureInvIs
<1>2. run' = [run EXCEPT ![r] = Idle] /\ lock' = IF lock = r THEN Nobody ELSE lock
    BY DEF End, Release
<1>3. run'[r] = Idle /\ Carries(Idle) /\ Idle.pc = "off"
    BY <1>1, <1>2, IdleIs DEF TypeOK
<1>4. TailIsOfItsFile(r)' /\ MergeRemembers(r)'
    BY <1>3 DEF TailIsOfItsFile, MergeRemembers
<1>5. lock' \in Run \cup {Nobody}
    BY <1>1, <1>2 DEF TypeOK
<1>6. ASSUME Retains
      PROVE  /\ \A q \in Run : q # r => run[q].pc = "off"
             /\ Idle.pc # "off" <=> lock' = r
             /\ lock' \in {r, Nobody}
    <2>1. lock = r /\ \A q \in Run : q # r => run[q].pc = "off"
        BY <1>1, <1>6, AloneInFlight
    <2>2. QED
        BY <1>2, <1>3, <2>1, CaptureAssumption
<1> DEFINE w == Idle
<1>7. Carries(w) /\ run' = [run EXCEPT ![r] = w] /\ w.pc = "off"
    BY <1>2, <1>3
<1>8. Retains => /\ \A q \in Run : q # r => run[q].pc = "off"
                 /\ w.pc # "off" <=> lock' = r
                 /\ lock' \in {r, Nobody}
    BY <1>6
<1> HIDE DEF w
<1>9. CaptureInv' /\ run'[r] = w
    BY <1>4, <1>5, <1>7, <1>8, RunStepKeeps
<1>10. QED
    BY <1>9 DEF w

(* What is listed is files of the tree. *)
LEMMA ListingIs ==
    ASSUME TypeOK
    PROVE  Listing \in SUBSET [file : File, live : BOOLEAN, gen : Nat]
<1> DEFINE keptOnly == IF Retains THEN {f \in File \ there : kept[f] # <<>>} ELSE {}
<1>1. \A f \in there \cup keptOnly : f \in File /\ gen[f] \in Nat /\ (f \in there) \in BOOLEAN
    BY DEF TypeOK
<1>2. Listing = {[file |-> f, live |-> f \in there, gen |-> gen[f]] : f \in there \cup keptOnly}
    BY DEF Listing
<1>3. ASSUME NEW f \in there \cup keptOnly
      PROVE  [file |-> f, live |-> f \in there, gen |-> gen[f]] \in [file : File, live : BOOLEAN, gen : Nat]
    <2> HIDE DEF keptOnly
    <2>1. f \in File /\ gen[f] \in Nat
        BY <1>1
    <2>2. CASE f \in there
        <3>1. (f \in there) = TRUE
            BY <2>2, Zenon
        <3>2. QED
            BY <2>1, <3>1
    <2>3. CASE f \notin there
        <3>1. (f \in there) = FALSE
            BY <2>3
        <3>2. QED
            BY <2>1, <3>1
    <2>4. QED
        BY <2>2, <2>3
<1> HIDE DEF keptOnly
<1>4. QED
    BY <1>2, <1>3, Zenon

(* A run that begins takes the lock nobody held. *)
LEMMA StartKeeps ==
    ASSUME CaptureInv, NEW r \in Run, Start(r)
    PROVE  CaptureInv'
<1>1. TypeOK /\ LockIsHeld /\ KeptHolds /\ RunsHold
    BY CaptureInvIs
<1> DEFINE w == [Idle EXCEPT !.pc = "walk", !.todo = Listing]
<1>2. /\ run[r].pc = "off" /\ (Retains => lock = Nobody) /\ lock' = (IF Retains THEN r ELSE lock)
      /\ run' = [run EXCEPT ![r] = w]
      /\ UNCHANGED <<format, cache, there, gen, live, readings, kept, keptGen, torn, store>>
    BY DEF Start, MayStart, tree, journals
<1>3. Carries(w) /\ w.pc = "walk"
    <2> DEFINE idle == Idle
    <2>1. Carries(idle)
        BY IdleIs
    <2> HIDE DEF idle
    <2>2. w = [idle EXCEPT !.pc = "walk", !.todo = Listing]
        BY DEF idle
    <2> HIDE DEF w
    <2>3. QED
        BY <1>1, <2>1, <2>2, ListingIs DEF Carries, InFlight
<1> HIDE DEF w
<1>4. run'[r] = w
    BY <1>1, <1>2 DEF TypeOK
<1>5. TailIsOfItsFile(r)' /\ MergeRemembers(r)' /\ KeptHolds'
    <2>1. TailIsOfItsFile(r)' /\ MergeRemembers(r)'
        BY <1>3, <1>4 DEF TailIsOfItsFile, MergeRemembers
    <2>2. KeptHolds'
        BY <1>1, <1>2 DEF KeptHolds, KeptIsOfItsFile
    <2>3. QED
        BY <2>1, <2>2
<1>6. Retains => \A q \in Run : q # r => run[q].pc = "off"
    BY <1>1, <1>2, CaptureAssumption DEF LockIsHeld
<1>7. /\ kept' \in [File -> Seq(KeptLines)] /\ keptGen' \in [File -> Nat] /\ DOMAIN torn' = File
      /\ \A d \in Day : store'[d].total \in Nat
      /\ lock' \in Run \cup {Nobody}
    BY <1>1, <1>2 DEF TypeOK
<1>8. QED
    BY <1>2, <1>3, <1>5, <1>6, <1>7, RunStepKeeps

(* A step of a run in flight that keeps nothing and stores nothing. *)
LEMMA InnerStepKeeps ==
    ASSUME CaptureInv, NEW r \in Run, run[r].pc # "off", NEW w, Carries(w), w.pc # "off", run' = [run EXCEPT ![r] = w],
           UNCHANGED <<format, cache, there, gen, live, readings, kept, keptGen, torn, store, lock>>,
           TailIsOfItsFile(r)', MergeRemembers(r)'
    PROVE  CaptureInv'
<1>1. TypeOK /\ LockIsHeld /\ KeptHolds /\ RunsHold
    BY CaptureInvIs
<1>2. KeptHolds'
    BY <1>1 DEF KeptHolds, KeptIsOfItsFile
<1>3. /\ kept' \in [File -> Seq(KeptLines)] /\ keptGen' \in [File -> Nat] /\ DOMAIN torn' = File
      /\ \A d \in Day : store'[d].total \in Nat
      /\ lock' \in Run \cup {Nobody}
    BY <1>1 DEF TypeOK
<1>4. Retains => lock' = r /\ \A q \in Run : q # r => run[q].pc = "off"
    BY <1>1, AloneInFlight
<1>5. QED
    BY <1>2, <1>3, <1>4, RunStepKeeps

(* What a run reads of a file is compared with what was kept of it. *)
LEMMA TailIs ==
    ASSUME TypeOK, NEW item \in [file : File, live : BOOLEAN, gen : Nat], TailOf(item) # <<>>
    PROVE  /\ Retains /\ item.live /\ TailOf(item) \in Seq(KeptLines)
           /\ IsPrefix(kept[item.file] \o TailOf(item), Projection(live[item.file]))
<1> DEFINE s == kept[item.file]
           p == Projection(live[item.file])
<1>1. Retains /\ item.live /\ Extends(item.file) /\ TailOf(item) = SubSeq(p, Len(s) + 1, Len(p))
    BY DEF TailOf
<1>2. s \in Seq(KeptLines) /\ p \in Seq(KeptLines) /\ IsPrefix(s, p)
    BY <1>1, ProjectionType DEF TypeOK, Extends
<1> HIDE DEF s, p
<1>3. SubSeq(p, Len(s) + 1, Len(p)) \in Seq(KeptLines) /\ IsPrefix(s \o SubSeq(p, Len(s) + 1, Len(p)), p)
    BY <1>2, PrefixAndRest
<1>4. QED
    BY <1>1, <1>3 DEF s, p

(* A file read is counted, and what is new of it is what its journal lacks. *)
LEMMA ReadFileKeeps ==
    ASSUME CaptureInv, NEW r \in Run, ReadFile(r)
    PROVE  CaptureInv'
<1>1. TypeOK /\ LockIsHeld /\ KeptHolds /\ RunsHold
    BY CaptureInvIs
<1>2. /\ run[r].pc = "walk"
      /\ UNCHANGED <<format, cache, there, gen, live, readings, kept, keptGen, torn, store, lock>>
    BY DEF ReadFile, tree, journals
<1>3. PICK item \in run[r].todo : run' = [run EXCEPT ![r] =
         IF ~Opens(item) THEN [run[r] EXCEPT !.todo = run[r].todo \ {item}]
         ELSE IF TailOf(item) = <<>> THEN Walked(r, item)
         ELSE [Walked(r, item) EXCEPT !.pc = "keep", !.tail = TailOf(item),
                                      !.file = item.file, !.gen = item.gen]]
    BY DEF ReadFile
<1>4. Carries(run[r]) /\ item \in [file : File, live : BOOLEAN, gen : Nat]
    BY <1>1 DEF TypeOK, Carries, InFlight
<1> DEFINE q == Walked(r, item)
           tail == TailOf(item)
           skipped == [run[r] EXCEPT !.todo = run[r].todo \ {item}]
           keeps == [q EXCEPT !.pc = "keep", !.tail = tail, !.file = item.file, !.gen = item.gen]
<1>5. Carries(q) /\ q.pc = "walk"
    BY <1>1, <1>2, WalkedIs
<1>6. Carries(skipped) /\ skipped.pc = "walk"
    <2> DEFINE x == run[r]
    <2>1. Carries(x) /\ x.pc = "walk"
        BY <1>2, <1>4
    <2> HIDE DEF x
    <2>2. Carries([x EXCEPT !.todo = x.todo \ {item}]) /\ [x EXCEPT !.todo = x.todo \ {item}].pc = "walk"
        BY <2>1 DEF Carries, InFlight
    <2>3. QED
        BY <2>2 DEF x
<1>7. \/ run' = [run EXCEPT ![r] = skipped]
      \/ run' = [run EXCEPT ![r] = q]
      \/ Opens(item) /\ tail # <<>> /\ run' = [run EXCEPT ![r] = keeps]
    BY <1>3
<1> HIDE DEF q, skipped
<1>8. ASSUME NEW w, Carries(w), w.pc = "walk", run' = [run EXCEPT ![r] = w] PROVE CaptureInv'
    <2>1. run'[r] = w
        BY <1>1, <1>8 DEF TypeOK
    <2>2. TailIsOfItsFile(r)' /\ MergeRemembers(r)'
        BY <1>8, <2>1 DEF TailIsOfItsFile, MergeRemembers
    <2>3. QED
        BY <1>2, <1>8, <2>2, InnerStepKeeps
<1>9. ASSUME Opens(item), tail # <<>>, run' = [run EXCEPT ![r] = keeps] PROVE CaptureInv'
    <2>1. /\ Retains /\ item.live /\ tail \in Seq(KeptLines)
          /\ IsPrefix(kept[item.file] \o tail, Projection(live[item.file]))
        BY <1>1, <1>4, <1>9, TailIs
    <2>2. item.file \in File /\ item.gen = gen[item.file] /\ item.gen \in Nat /\ gen[item.file] \in Nat
        BY <1>1, <1>4, <1>9, <2>1 DEF Opens, TypeOK
    <2> HIDE DEF tail
    <2>3. /\ Carries(keeps) /\ keeps.pc = "keep" /\ keeps.file = item.file /\ keeps.gen = item.gen
          /\ keeps.tail = tail
        BY <1>5, <2>1, <2>2 DEF Carries, InFlight
    <2> HIDE DEF keeps
    <2>4. run'[r] = keeps
        BY <1>1, <1>9 DEF TypeOK
    <2>5. MergeRemembers(r)'
        BY <2>3, <2>4 DEF MergeRemembers
    <2>6. TailIsOfItsFile(r)'
        BY <1>2, <2>1, <2>2, <2>3, <2>4 DEF TailIsOfItsFile, Retains
    <2>7. QED
        BY <1>2, <1>9, <2>3, <2>5, <2>6, InnerStepKeeps
<1>10. CASE run' = [run EXCEPT ![r] = skipped]
    BY <1>6, <1>8, <1>10
<1>11. CASE run' = [run EXCEPT ![r] = q]
    BY <1>5, <1>8, <1>11
<1>12. QED
    BY <1>7, <1>9, <1>10, <1>11

(* What is appended of a tail leaves the journal a prefix of its file, if  *)
(* the file is still the one that was read.                                *)
LEMMA AppendHolds ==
    ASSUME CaptureInv, NEW r \in Run, run[r].pc = "keep", NEW n \in 0 .. Len(run[r].tail), NEW cut,
           AppendKept(r, n, cut), UNCHANGED <<live, gen>>
    PROVE  /\ kept' \in [File -> Seq(KeptLines)] /\ keptGen' \in [File -> Nat] /\ DOMAIN torn' = File
           /\ KeptHolds' /\ Retains
<1>1. TypeOK /\ LockIsHeld /\ KeptHolds /\ TailIsOfItsFile(r)
    BY CaptureInvIs DEF RunsHold
<1> DEFINE f == run[r].file
           tail == run[r].tail
           more == kept[f] \o SubSeq(tail, 1, n)
<1>2. Retains /\ f \in File /\ run[r].gen <= gen[f] /\ (run[r].gen = gen[f] => IsPrefix(kept[f] \o tail, Projection(live[f])))
    BY <1>1 DEF TailIsOfItsFile
<1>3. /\ kept[f] \in Seq(KeptLines) /\ tail \in Seq(KeptLines) /\ run[r].gen \in Nat
      /\ \A g \in File : Projection(live[g]) \in Seq(KeptLines)
    BY <1>1, <1>2, ProjectionType DEF TypeOK, InFlight
<1>4. kept' = [kept EXCEPT ![f] = more] /\ torn' = [torn EXCEPT ![f] = cut] /\ keptGen' = [keptGen EXCEPT ![f] = run[r].gen]
    BY DEF AppendKept
<1>5. more \in Seq(KeptLines) /\ (run[r].gen = gen[f] => IsPrefix(more, Projection(live[f])))
    <2> DEFINE s == kept[f]
               p == Projection(live[f])
    <2>1. s \in Seq(KeptLines) /\ tail \in Seq(KeptLines) /\ p \in Seq(KeptLines)
        BY <1>2, <1>3
    <2>2. n \in 0 .. Len(tail)
        OBVIOUS
    <2> HIDE DEF s, p, tail
    <2>3. s \o SubSeq(tail, 1, n) \in Seq(KeptLines) /\ (IsPrefix(s \o tail, p) => IsPrefix(s \o SubSeq(tail, 1, n), p))
        BY <2>1, <2>2, PartOfRest
    <2>4. QED
        BY <1>2, <2>3 DEF s, p, tail
<1> HIDE DEF more, f
<1>6. kept' \in [File -> Seq(KeptLines)] /\ keptGen' \in [File -> Nat] /\ DOMAIN torn' = File
      /\ kept'[f] = more /\ keptGen'[f] = run[r].gen
      /\ \A g \in File : g # f => kept'[g] = kept[g] /\ keptGen'[g] = keptGen[g]
    BY <1>1, <1>2, <1>3, <1>4, <1>5 DEF TypeOK
<1>7. ASSUME NEW g \in File PROVE KeptIsOfItsFile(g)'
    <2>1. CASE g = f
        BY <1>2, <1>5, <1>6, <2>1 DEF KeptIsOfItsFile
    <2>2. CASE g # f
        BY <1>1, <1>6, <2>2 DEF KeptHolds, KeptIsOfItsFile
    <2>3. QED
        BY <2>1, <2>2
<1>8. QED
    BY <1>2, <1>6, <1>7 DEF KeptHolds

(* The new tail is kept whole. *)
LEMMA KeepKeeps ==
    ASSUME CaptureInv, NEW r \in Run, Keep(r)
    PROVE  CaptureInv'
<1>1. TypeOK /\ LockIsHeld /\ KeptHolds /\ RunsHold
    BY CaptureInvIs
<1> DEFINE w == [run[r] EXCEPT !.pc = "walk", !.tail = <<>>]
           n == Len(run[r].tail)
<1>2. /\ run[r].pc = "keep" /\ AppendKept(r, n, NoRecord) /\ run' = [run EXCEPT ![r].pc = "walk", ![r].tail = <<>>]
      /\ UNCHANGED <<format, cache, there, gen, live, readings, store, lock>>
    BY DEF Keep, tree
<1>3. Carries(run[r]) /\ n \in 0 .. Len(run[r].tail)
    <2>1. run[r].tail \in Seq(KeptLines) /\ Carries(run[r])
        BY <1>1 DEF TypeOK, Carries, InFlight
    <2>2. QED
        BY <2>1, LenProperties
<1>4. Carries(w) /\ w.pc = "walk" /\ run' = [run EXCEPT ![r] = w]
    <2> DEFINE x == run[r]
    <2>1. run' = [run EXCEPT ![r] = w]
        BY <1>1, <1>2 DEF TypeOK
    <2>2. Carries(x)
        BY <1>3
    <2>3. w = [x EXCEPT !.pc = "walk", !.tail = <<>>] /\ <<>> \in Seq(KeptLines)
        BY EmptySeq
    <2> HIDE DEF x, w
    <2>4. Carries(w) /\ w.pc = "walk"
        BY <2>2, <2>3 DEF Carries, InFlight
    <2>5. QED
        BY <2>1, <2>4
<1> HIDE DEF w, n
<1>5. /\ kept' \in [File -> Seq(KeptLines)] /\ keptGen' \in [File -> Nat] /\ DOMAIN torn' = File
      /\ KeptHolds' /\ Retains
    BY <1>2, <1>3, AppendHolds
<1>6. lock = r /\ \A q \in Run : q # r => run[q].pc = "off"
    BY <1>1, <1>2, <1>5, AloneInFlight
<1>7. run'[r] = w
    BY <1>1, <1>4 DEF TypeOK
<1>8. TailIsOfItsFile(r)' /\ MergeRemembers(r)'
    BY <1>4, <1>7 DEF TailIsOfItsFile, MergeRemembers
<1>9. (\A d \in Day : store'[d].total \in Nat) /\ lock' \in Run \cup {Nobody} /\ lock' = r
    BY <1>1, <1>2, <1>6 DEF TypeOK
<1>10. QED
    BY <1>2, <1>4, <1>5, <1>6, <1>8, <1>9, RunStepKeeps

(* A run that found nothing ends with nothing read of the store. *)
LEMMA NothingFoundKeeps ==
    ASSUME CaptureInv, NEW r \in Run, NothingFound(r)
    PROVE  CaptureInv'
<1>1. TypeOK /\ KeptHolds
    BY CaptureInvIs
<1>2. /\ run[r].pc # "off" /\ End(r)
      /\ UNCHANGED <<format, cache, there, gen, live, readings, kept, keptGen, torn, store>>
    BY DEF NothingFound, tree, journals
<1>3. KeptHolds' /\ kept' \in [File -> Seq(KeptLines)] /\ keptGen' \in [File -> Nat] /\ DOMAIN torn' = File
      /\ \A d \in Day : store'[d].total \in Nat
    BY <1>1, <1>2 DEF KeptHolds, KeptIsOfItsFile, TypeOK
<1>4. QED
    BY <1>2, <1>3, EndKeeps

(* The store and the readings are merged with what was measured. *)
LEMMA ReadStoreKeeps ==
    ASSUME CaptureInv, NEW r \in Run, ReadStore(r)
    PROVE  CaptureInv'
<1>1. TypeOK /\ LockIsHeld /\ KeptHolds /\ RunsHold
    BY CaptureInvIs
<1> DEFINE m == Merge(run[r])
           w == [run[r] EXCEPT !.pc = "merge", !.merge = m]
<1>2. /\ run[r].pc = "walk" /\ run' = [run EXCEPT ![r].pc = "merge", ![r].merge = m]
      /\ UNCHANGED <<format, cache, there, gen, live, readings, kept, keptGen, torn, store, lock>>
    BY DEF ReadStore, tree, journals
<1>3. Carries(run[r])
    BY <1>1 DEF TypeOK, Carries
<1>4. /\ \A d \in Day : m.readings[d] \in Nat /\ m.entries[d].total \in Nat
      /\ \A d \in Verified(m.readings) :
           m.entries[d].total = m.readings[d] /\ m.series.total[d] = m.readings[d]
      /\ \A d \in Day :
           m.entries[d].total < store[d].total => m.readings[d] > 0 \/ run[r].carried[d] > 0
    BY <1>1, <1>3, MergeIs
<1>5. Carries(w) /\ w.pc = "merge" /\ w.merge = m /\ w.carried = run[r].carried /\ run' = [run EXCEPT ![r] = w]
    <2> DEFINE x == run[r]
    <2> HIDE DEF m
    <2>1. run' = [run EXCEPT ![r] = w]
        BY <1>1, <1>2 DEF TypeOK
    <2>2. Carries(x)
        BY <1>3
    <2>3. w = [x EXCEPT !.pc = "merge", !.merge = m]
        OBVIOUS
    <2> HIDE DEF x, w
    <2>4. Carries(w) /\ w.pc = "merge" /\ w.merge = m /\ w.carried = x.carried
        BY <2>2, <2>3 DEF Carries, InFlight
    <2>5. QED
        BY <2>1, <2>4 DEF x
<1> HIDE DEF w, m
<1>6. run'[r] = w
    BY <1>1, <1>5 DEF TypeOK
<1>7. TailIsOfItsFile(r)'
    BY <1>5, <1>6 DEF TailIsOfItsFile
<1>8. MergeRemembers(r)'
    BY <1>2, <1>4, <1>5, <1>6 DEF MergeRemembers
<1>9. QED
    BY <1>2, <1>5, <1>7, <1>8, InnerStepKeeps

(* A run that ends leaves what it merged, or what there was. *)
LEMMA FinishKeeps ==
    ASSUME CaptureInv, NEW r \in Run, Finish(r)
    PROVE  CaptureInv'
<1>1. TypeOK /\ KeptHolds /\ RunsHold
    BY CaptureInvIs
<1>2. /\ run[r].pc = "merge" /\ End(r)
      /\ UNCHANGED <<format, cache, there, gen, live, readings, kept, keptGen, torn>>
      /\ store' = store \/ store' = run[r].merge.entries
    BY DEF Finish, tree, journals
<1>3. \A d \in Day : store'[d].total \in Nat
    BY <1>1, <1>2 DEF TypeOK, RunsHold, MergeRemembers
<1>4. KeptHolds' /\ kept' \in [File -> Seq(KeptLines)] /\ keptGen' \in [File -> Nat] /\ DOMAIN torn' = File
    BY <1>1, <1>2 DEF KeptHolds, KeptIsOfItsFile, TypeOK
<1>5. QED
    BY <1>2, <1>3, <1>4, EndKeeps

(* A run stopped between two steps leaves what was kept. *)
LEMMA StopBetweenKeeps ==
    ASSUME CaptureInv, NEW r \in Run, StopBetween(r)
    PROVE  CaptureInv'
<1>1. TypeOK /\ KeptHolds
    BY CaptureInvIs
<1>2. /\ run[r].pc # "off" /\ End(r)
      /\ UNCHANGED <<format, cache, there, gen, live, readings, kept, keptGen, torn, store>>
    BY DEF StopBetween, Crashes, tree, journals
<1>3. KeptHolds' /\ kept' \in [File -> Seq(KeptLines)] /\ keptGen' \in [File -> Nat] /\ DOMAIN torn' = File
      /\ \A d \in Day : store'[d].total \in Nat
    BY <1>1, <1>2 DEF KeptHolds, KeptIsOfItsFile, TypeOK
<1>4. QED
    BY <1>2, <1>3, EndKeeps

(* A run stopped within an append leaves a part of its tail. *)
LEMMA StopInAppendKeeps ==
    ASSUME CaptureInv, NEW r \in Run, StopInAppend(r)
    PROVE  CaptureInv'
<1>1. TypeOK /\ KeptHolds
    BY CaptureInvIs
<1>2. /\ run[r].pc = "keep" /\ End(r)
      /\ UNCHANGED <<format, cache, there, gen, live, readings, store>>
    BY DEF StopInAppend, Crashes, tree
<1>3. PICK n \in 0 .. Len(run[r].tail) - 1 : \E cut : AppendKept(r, n, cut)
    BY DEF StopInAppend
<1>4. PICK cut : AppendKept(r, n, cut)
    BY <1>3
<1>5. n \in 0 .. Len(run[r].tail)
    <2>1. run[r].tail \in Seq(KeptLines)
        BY <1>1 DEF TypeOK, InFlight
    <2>2. QED
        BY <2>1, LenProperties
<1>6. KeptHolds' /\ kept' \in [File -> Seq(KeptLines)] /\ keptGen' \in [File -> Nat] /\ DOMAIN torn' = File
    BY <1>2, <1>4, <1>5, AppendHolds
<1>7. \A d \in Day : store'[d].total \in Nat
    BY <1>1, <1>2 DEF TypeOK
<1>8. QED
    BY <1>2, <1>6, <1>7, EndKeeps

(* Nothing is kept, measured or locked at first. *)
LEMMA CaptureBegins == Init => CaptureInv
<1> SUFFICES ASSUME Init PROVE CaptureInv
    OBVIOUS
<1>1. /\ format \in Formats /\ cache \in Caches(format) /\ live = [f \in File |-> <<>>] /\ gen = [f \in File |-> 0]
      /\ there = {} /\ kept = [f \in File |-> <<>>] /\ torn = [f \in File |-> NoRecord] /\ keptGen = [f \in File |-> 0]
      /\ store = [d \in Day |-> Absent] /\ readings = [d \in Day |-> 0] /\ lock = Nobody /\ run = [r \in Run |-> Idle]
    BY DEF Init
<1>2. <<>> \in Seq(Lines) /\ <<>> \in Seq(KeptLines) /\ Len(<<>>) = 0 /\ Absent.total = 0 /\ MaxRecords \in Nat
    BY EmptySeq, CaptureAssumption DEF Absent
<1>3. \A r \in Run : run[r] = Idle /\ Carries(run[r]) /\ run[r].pc = "off"
    BY <1>1, IdleIs
<1>4. run = [r \in Run |-> run[r]]
    BY <1>1
<1>5. TypeOK
    BY <1>1, <1>2, <1>3, <1>4 DEF TypeOK, Carries
<1>6. LockIsHeld
    BY <1>1, <1>3, CaptureAssumption DEF LockIsHeld
<1>7. KeptHolds
    BY <1>1 DEF KeptHolds, KeptIsOfItsFile
<1>8. RunsHold
    BY <1>3 DEF RunsHold, TailIsOfItsFile, MergeRemembers
<1>9. ReplayHolds(live)
    BY <1>5, ReplayAlwaysHolds DEF TypeOK, Lines
<1>10. QED
    BY <1>5, <1>6, <1>7, <1>8, <1>9, CaptureInvIs

(* A state repeated keeps it. *)
LEMMA CaptureStutters == CaptureInv /\ UNCHANGED vars => CaptureInv'
<1> SUFFICES ASSUME CaptureInv, UNCHANGED vars PROVE CaptureInv'
    OBVIOUS
<1>1. TypeOK /\ LockIsHeld /\ KeptHolds /\ RunsHold
    BY CaptureInvIs
<1>2. UNCHANGED <<format, kept, torn, keptGen, cache, store, lock, run, live, gen, there, readings>>
    BY DEF vars, tree, journals
<1>3. TypeOK' /\ ReplayHolds(live')
    <2>1. /\ there' \subseteq File /\ gen' \in [File -> Nat] /\ live' \in [File -> Seq(Lines)]
          /\ \A f \in File : Len(live'[f]) <= MaxRecords /\ (f \in there' => live'[f] # <<>>)
          /\ readings' \in [Day -> Nat]
        BY <1>1, <1>2 DEF TypeOK
    <2>2. QED
        BY <1>1, <1>2, <2>1, ToolTypeOK
<1>4. LockIsHeld' /\ KeptHolds' /\ RunsHold'
    BY <1>1, <1>2 DEF LockIsHeld, Retains, KeptHolds, KeptIsOfItsFile, RunsHold, TailIsOfItsFile, MergeRemembers
<1>5. QED
    BY <1>3, <1>4, CaptureInvIs

(* Every step keeps it. *)
LEMMA CaptureKeeps == CaptureInv /\ [Next]_vars => CaptureInv'
<1> SUFFICES ASSUME CaptureInv, [Next]_vars PROVE CaptureInv'
    OBVIOUS
<1>1. CASE UNCHANGED vars
    BY <1>1, CaptureStutters
<1>2. ASSUME NEW f \in File, NEW rec \in Records(format), ToolCreates(f, rec) PROVE CaptureInv'
    BY <1>2, ToolCreatesKeeps
<1>3. ASSUME NEW f \in File, NEW rec \in Records(format), ToolAppends(f, rec) PROVE CaptureInv'
    BY <1>3, ToolAppendsKeeps
<1>4. ASSUME NEW f \in File, ToolPrunes(f) PROVE CaptureInv'
    BY <1>4, ToolPrunesKeeps
<1>5. ASSUME NEW d \in Day, NEW n \in Figures, OwnerReads(d, n) PROVE CaptureInv'
    BY <1>5, OwnerReadsKeeps
<1>6. ASSUME NEW r \in Run, RunStep(r) PROVE CaptureInv'
    BY <1>6, StartKeeps, ReadFileKeeps, KeepKeeps, NothingFoundKeeps, ReadStoreKeeps, FinishKeeps DEF RunStep
<1>7. ASSUME NEW r \in Run, StopBetween(r) PROVE CaptureInv'
    BY <1>7, StopBetweenKeeps
<1>8. ASSUME NEW r \in Run, StopInAppend(r) PROVE CaptureInv'
    BY <1>8, StopInAppendKeeps
<1>9. QED
    BY <1>1, <1>2, <1>3, <1>4, <1>5, <1>6, <1>7, <1>8, Zenon DEF Next

(* However runs, the tool and the owner interleave, and wherever runs are  *)
(* stopped, CaptureInv holds.                                              *)
THEOREM CaptureInvariant == Spec => []CaptureInv
<1>1. Init => CaptureInv
    BY CaptureBegins
<1>2. CaptureInv /\ [Next]_vars => CaptureInv'
    BY CaptureKeeps
<1>3. QED
    BY <1>1, <1>2, PTL DEF Spec

(* The last step of a run that writes is its Finish. *)
LEMMA WritesAre ==
    ASSUME CaptureInv, [Next]_vars, NEW r \in Run, Writes(r)
    PROVE  /\ store' = run[r].merge.entries
           /\ served' = served \/ served'.total = run[r].merge.series.total
<1>1. TypeOK /\ run[r].pc = "merge" /\ run'[r].pc = "off" /\ store' # store
    BY DEF Writes, CaptureInv
<1>2. PICK q \in Run : Finish(q)
    <2>1. /\ ~ UNCHANGED vars
          /\ \A f \in File : ~ ToolPrunes(f) /\ \A rec : ~ ToolCreates(f, rec) /\ ~ ToolAppends(f, rec)
          /\ \A d, n : ~ OwnerReads(d, n)
          /\ \A q \in Run : ~ Start(q) /\ ~ ReadFile(q) /\ ~ Keep(q) /\ ~ NothingFound(q) /\ ~ ReadStore(q)
                            /\ ~ StopBetween(q) /\ ~ StopInAppend(q)
        BY <1>1 DEF vars, ToolPrunes, ToolCreates, ToolAppends, ToolStep, OwnerReads, Start, ReadFile, Keep,
                    NothingFound, ReadStore, StopBetween, StopInAppend, Crashes
    <2>2. QED
        BY <2>1, Zenon DEF Next, RunStep
<1>3. q = r
    <2>1. run' = [run EXCEPT ![q] = Idle]
        BY <1>2 DEF Finish, End
    <2>2. QED
        BY <1>1, <2>1 DEF TypeOK
<1> DEFINE m == run[r].merge
           section == Section(run[r].index, m)
<1>4. store' = m.entries /\ (served' = served \/ served' = section)
    BY <1>1, <1>2, <1>3 DEF Finish
<1>5. section.total = m.series.total
    BY DEF Section
<1> HIDE DEF section, m
<1>6. QED
    BY <1>4, <1>5 DEF m

(* A day the owner read is remembered and served at that figure, whatever  *)
(* the walk and the store say of it.                                       *)
THEOREM TheOwnersReadingStands == Spec => VerifiedStands
<1> DEFINE Act == \A r \in Run : Writes(r) =>
                    \A d \in Verified(run[r].merge.readings) :
                      /\ store'[d].total = run[r].merge.readings[d]
                      /\ served' # served => served'.total[d] = run[r].merge.readings[d]
<1>1. ASSUME CaptureInv, [Next]_vars PROVE Act
    <2> SUFFICES ASSUME NEW r \in Run, Writes(r), NEW d \in Verified(run[r].merge.readings)
                 PROVE  /\ store'[d].total = run[r].merge.readings[d]
                        /\ served' # served => served'.total[d] = run[r].merge.readings[d]
        OBVIOUS
    <2>1. MergeRemembers(r) /\ run[r].pc = "merge"
        BY <1>1 DEF CaptureInv, Writes
    <2>2. QED
        BY <1>1, <2>1, WritesAre DEF MergeRemembers
<1>2. CaptureInv /\ [Next]_vars => [Act]_vars
    BY <1>1
<1> HIDE DEF Act
<1>3. Spec => [][Act]_vars
    BY <1>2, CaptureInvariant, PTL DEF Spec
<1>4. QED
    BY <1>3 DEF Act, VerifiedStands

(* Where runs are serialised by the kept tree's lock, a remembered day     *)
(* falls only where the owner read it, or this run set a balance aside.    *)
THEOREM TheStoreNeverForgets == Spec => StoreNeverForgets
<1> DEFINE Act == \A r \in Run : Retains /\ Writes(r) =>
                    \A d \in Day : store'[d].total < store[d].total =>
                      run[r].merge.readings[d] > 0 \/ run[r].carried[d] > 0
<1>1. ASSUME CaptureInv, [Next]_vars PROVE Act
    <2> SUFFICES ASSUME NEW r \in Run, Retains, Writes(r), NEW d \in Day, store'[d].total < store[d].total
                 PROVE  run[r].merge.readings[d] > 0 \/ run[r].carried[d] > 0
        OBVIOUS
    <2>1. MergeRemembers(r) /\ run[r].pc = "merge"
        BY <1>1 DEF CaptureInv, Writes
    <2>2. QED
        BY <1>1, <2>1, WritesAre DEF MergeRemembers
<1>2. CaptureInv /\ [Next]_vars => [Act]_vars
    BY <1>1
<1> HIDE DEF Act
<1>3. Spec => [][Act]_vars
    BY <1>2, CaptureInvariant, PTL DEF Spec
<1>4. QED
    BY <1>3 DEF Act, StoreNeverForgets

----------------------------------------------------------------------------
(* What is billed, and to which messages. *)

Bill(k) == SumParts(UsageParts(UsageOf(k)))
Billed(seen) == SumFunction([k \in seen |-> Bill(k)])

(* A message is billed what it says, wherever it is replayed. *)
LEMMA BillIs ==
    ASSUME "messages" \in Formats, NEW rec \in Messages(Records("messages"))
    PROVE  Bill(rec.key) = SumParts(UsageParts(rec.usage)) /\ Bill(rec.key) \in Nat /\ rec.key # NoKey
<1>1. rec \in Records("messages") /\ rec.kind = "message" /\ IsRecord(rec)
    BY CaptureAssumption DEF Messages
<1> DEFINE same == CHOOSE other \in Records("messages") : other.kind = "message" /\ other.key = rec.key
<1>2. same \in Records("messages") /\ same.kind = "message" /\ same.key = rec.key
    BY <1>1
<1>3. UsageOf(rec.key) = same.usage
    BY DEF UsageOf
<1> HIDE DEF same
<1>4. same.usage = rec.usage /\ rec.key # NoKey
    BY <1>1, <1>2, MessagesAssumption
<1>5. SumParts(UsageParts(rec.usage)) \in Nat
    BY <1>1 DEF IsRecord, SumParts, UsageParts, Class, Field
<1>6. QED
    BY <1>3, <1>4, <1>5 DEF Bill

(* One message more is billed once. *)
LEMMA BilledMore ==
    ASSUME "messages" \in Formats, NEW seen \in SUBSET KeysOf(Records("messages")), IsFiniteSet(seen),
           NEW k \in KeysOf(Records("messages")), k \notin seen
    PROVE  /\ Billed(seen \cup {k}) = Billed(seen) + Bill(k)
           /\ Billed(seen) \in Int /\ Bill(k) \in Int
<1>1. \A key \in KeysOf(Records("messages")) : Bill(key) \in Nat
    BY BillIs DEF KeysOf
<1> DEFINE more == seen \cup {k}
           f == [key \in more |-> Bill(key)]
           g == [key \in seen |-> Bill(key)]
<1>2. IsFiniteSet(more) /\ f \in [more -> Int] /\ k \in more /\ g = [key \in more \ {k} |-> f[key]] /\ f[k] = Bill(k)
    BY <1>1, FS_AddElement
<1> HIDE DEF more, f, g
<1>3. SumFunction(f) = f[k] + SumFunction(g) /\ SumFunction(g) \in Int /\ f[k] \in Int
    BY <1>2, SumWithout
<1>4. Billed(seen \cup {k}) = SumFunction(f) /\ Billed(seen) = SumFunction(g)
    BY DEF Billed, f, g, more
<1>5. QED
    BY <1>2, <1>3, <1>4

(* A row is billed on its day, and on no other. *)
LEMMA RowBills ==
    ASSUME NEW sessions, NEW x \in Indexes(sessions), NEW row \in BilledRow
    PROVE  /\ SumFunction(AddRow(x, row).total) = SumFunction(x.total) + row.total
           /\ SumFunction(x.total) \in Int /\ row.total \in Int
<1> DEFINE f == x.total
           g == AddRow(x, row).total
           d == row.day
<1>1. f \in [Day -> Int] /\ d \in Day /\ row.total \in Nat /\ f[d] \in Nat
    BY DEF Indexes, BilledRow
<1>2. g = [f EXCEPT ![d] = f[d] + row.total]
    BY AddRowIs
<1>3. IsFiniteSet(Day)
    BY CaptureAssumption
<1> HIDE DEF f, g, d
<1>4. g \in [Day -> Int] /\ g[d] - f[d] = row.total /\ \A e \in Day \ {d} : g[e] = f[e]
    BY <1>1, <1>2
<1>5. SumFunction(g) = SumFunction(f) + (g[d] - f[d])
    BY <1>1, <1>3, <1>4, SumMoves
<1>6. SumFunction(f) \in Int
    BY <1>1, <1>3, SumIsInt
<1>7. QED
    BY <1>1, <1>4, <1>5, <1>6 DEF f, g

\* What a file adds to the days is what its messages, not known before, bill.
BillsItsOwn(x, seen, file) ==
  SumFunction(FoldLeft(AddRow, x, WalkMessages(seen, file).rows).total) - SumFunction(x.total)
    = Billed(WalkMessages(seen, file).seen) - Billed(seen)

(* Whatever a file replays, it adds what its new messages say. *)
LEMMA FileBillsItsOwn ==
    ASSUME "messages" \in Formats, NEW S, AreRecords(S), Messages(S) = Messages(Records("messages")),
           NEW seen \in SUBSET KeysOf(S), IsFiniteSet(seen), NEW sessions, NEW x \in Indexes(sessions), NEW file \in Seq(S)
    PROVE  BillsItsOwn(x, seen, file)
<1>1. KeysOf(S) = KeysOf(Records("messages"))
    BY DEF KeysOf
<1>2. Billed(seen) \in Int
    <2>1. \A k \in seen : Bill(k) \in Nat
        BY <1>1, BillIs DEF KeysOf
    <2> DEFINE g == [k \in seen |-> Bill(k)]
    <2>2. g \in [seen -> Int]
        BY <2>1
    <2> HIDE DEF g
    <2>3. SumFunction(g) \in Int
        BY <2>2, SumIsInt
    <2>4. QED
        BY <2>3 DEF Billed, g
<1>3. SumFunction(x.total) \in Int
    <2> DEFINE f == x.total
    <2>1. f \in [Day -> Int] /\ IsFiniteSet(Day)
        BY CaptureAssumption DEF Indexes
    <2> HIDE DEF f
    <2>2. SumFunction(f) \in Int
        BY <2>1, SumIsInt
    <2>3. QED
        BY <2>2 DEF f
<1> DEFINE T == {seq \in Seq(S) : BillsItsOwn(x, seen, seq)}
<1>4. T \subseteq Seq(S) /\ <<>> \in T
    <2>1. WalkMessages(seen, <<>>) = Fresh(seen)
        <3>1. <<>> \in Seq(S) /\ Folding(CountedState(S), S, ReadMessageFcn(S), Fresh(seen), <<>>)
            BY EmptySeq, MessageFcnType DEF Folding, ReadMessageFcn
        <3>2. QED
            BY <3>1, FoldOfNothing, MessageWalkIsAFold
    <2>2. FoldLeft(AddRow, x, <<>>) = x
        <3>1. <<>> \in Seq(BilledRow) /\ Folding(Indexes(sessions), BilledRow, AddRowFcn(sessions), x, <<>>)
            BY EmptySeq, AddRowFcnType DEF Folding, AddRowFcn
        <3>2. QED
            BY <3>1, FoldOfNothing, IndexIsAFold
    <2>3. BillsItsOwn(x, seen, <<>>)
        BY <1>2, <1>3, <2>1, <2>2 DEF BillsItsOwn, Fresh
    <2>4. QED
        BY <2>3, EmptySeq
<1>5. ASSUME NEW seq \in T, NEW rec \in S PROVE Append(seq, rec) \in T
    <2> DEFINE m == WalkMessages(seen, seq)
               n == WalkMessages(seen, Append(seq, rec))
               y == FoldLeft(AddRow, x, m.rows)
    <2>1. seq \in Seq(S) /\ BillsItsOwn(x, seen, seq) /\ Append(seq, rec) \in Seq(S)
        BY AppendProperties
    <2>2. m \in CountedState(S) /\ n = ReadMessage(m, rec)
        BY <2>1, MessageWalkOfAppend
    <2>3. m.rows \in Seq(BilledRow) /\ m.seen \in SUBSET KeysOf(S) /\ IsFiniteSet(m.seen)
        BY <2>2 DEF CountedState
    <2>4. CASE n = m
        BY <2>1, <2>4 DEF BillsItsOwn
    <2>5. CASE n # m
        <3> HIDE DEF m, n, y
        <3>1. /\ rec.kind = "message" /\ (rec.key = NoKey \/ rec.key \notin m.seen)
              /\ \E row \in BilledRow :
                   /\ n = [seen |-> m.seen \cup ({rec.key} \ {NoKey}), rows |-> Append(m.rows, row)]
                   /\ row.total = SumParts(UsageParts(rec.usage))
            BY <2>2, <2>5, ReadMessageIs
        <3>2. rec \in Messages(Records("messages"))
            BY <3>1 DEF Messages
        <3>3. Bill(rec.key) = SumParts(UsageParts(rec.usage)) /\ rec.key # NoKey /\ rec.key \in KeysOf(Records("messages"))
            BY <3>2, BillIs DEF KeysOf
        <3>4. PICK row \in BilledRow : n = [seen |-> m.seen \cup {rec.key}, rows |-> Append(m.rows, row)]
                                       /\ row.total = Bill(rec.key)
            BY <3>1, <3>3
        <3>5. /\ y \in Indexes(sessions)
              /\ FoldLeft(AddRow, x, Append(m.rows, row)) = AddRow(y, row)
            BY <2>3, IndexOfAppend DEF y
        <3>6. /\ SumFunction(AddRow(y, row).total) = SumFunction(y.total) + row.total
              /\ SumFunction(y.total) \in Int /\ row.total \in Int
            BY <3>5, RowBills
        <3>7. Billed(m.seen \cup {rec.key}) = Billed(m.seen) + Bill(rec.key) /\ Billed(m.seen) \in Int
            BY <1>1, <2>3, <3>1, <3>3, BilledMore
        <3>8. n.seen = m.seen \cup {rec.key} /\ n.rows = Append(m.rows, row)
            BY <3>4
        <3>9. SumFunction(y.total) - SumFunction(x.total) = Billed(m.seen) - Billed(seen)
            BY <2>1 DEF BillsItsOwn, m, y
        <3>10. SumFunction(AddRow(y, row).total) - SumFunction(x.total) = Billed(n.seen) - Billed(seen)
            BY <1>2, <1>3, <3>4, <3>6, <3>7, <3>8, <3>9
        <3>11. BillsItsOwn(x, seen, Append(seq, rec))
            BY <3>5, <3>8, <3>10 DEF BillsItsOwn, n
        <3>12. QED
            BY <2>1, <3>11
    <2>6. QED
        BY <2>4, <2>5
<1>6. T = Seq(S)
    <2> HIDE DEF T
    <2>1. QED
        BY <1>4, <1>5, SeqsByAppend
<1>7. QED
    BY <1>6

(* Nothing adds up to nothing. *)
LEMMA SumOfNothing == SumFunction([d \in Day |-> 0]) = 0 /\ Billed({}) = 0
<1>1. Billed({}) = 0
    <2> DEFINE f == [k \in {} |-> Bill(k)]
    <2>1. f \in [{} -> Int] /\ IsFiniteSet({})
        BY FS_EmptySet
    <2> HIDE DEF f
    <2>2. SumFunction(f) = 0
        BY <2>1, SumIsInt
    <2>3. QED
        BY <2>2 DEF Billed, f
<1>2. SumFunction([d \in Day |-> 0]) = 0
    <2> DEFINE T == {s \in SUBSET Day : SumFunction([d \in s |-> 0]) = 0}
    <2>1. {} \in T
        <3> DEFINE f == [d \in {} |-> 0]
        <3>1. f \in [{} -> Int] /\ IsFiniteSet({})
            BY FS_EmptySet
        <3> HIDE DEF f
        <3>2. SumFunction(f) = 0
            BY <3>1, SumIsInt
        <3>3. QED
            BY <3>2 DEF f
    <2>2. ASSUME NEW s \in SUBSET Day, NEW a \in Day \ s, s \in T PROVE s \cup {a} \in T
        <3> DEFINE more == s \cup {a}
                   f == [d \in more |-> 0]
                   g == [d \in s |-> 0]
        <3>1. IsFiniteSet(more)
            BY CaptureAssumption, FS_Subset
        <3>2. f \in [more -> Int] /\ a \in more /\ g = [d \in more \ {a} |-> f[d]] /\ f[a] = 0 /\ SumFunction(g) = 0
            BY <2>2
        <3> HIDE DEF f, g, more
        <3>3. SumFunction(f) = f[a] + SumFunction(g)
            BY <3>1, <3>2, SumWithout
        <3>4. SumFunction(f) = 0
            BY <3>2, <3>3
        <3>5. QED
            BY <3>4 DEF f, more
    <2>3. IsFiniteSet(Day)
        BY CaptureAssumption
    <2> HIDE DEF T
    <2>4. Day \in T
        BY <2>1, <2>2, <2>3, SetsByAdding
    <2>5. QED
        BY <2>4 DEF T
<1>3. QED
    BY <1>1, <1>2

\* What a run counted is what its messages say.
Counts(q) == SumFunction(q.index.total) = Billed(q.seen)

(* BilledOnce is of each run. *)
LEMMA BilledOnceIs ==
    /\ BilledOnce <=> (format = "messages" => \A r \in Run : Counts(run[r]))
    /\ BilledOnce' <=> (format' = "messages" => \A r \in Run : Counts(run'[r]))
BY DEF BilledOnce, Counts, Billed, Bill

(* A file read counts its new messages. *)
LEMMA WalkedCounts ==
    ASSUME TypeOK, format = "messages", NEW r \in Run, NEW item \in run[r].todo, Counts(run[r])
    PROVE  Counts(Walked(r, item))
<1> DEFINE q == run[r]
           file == IF item.live THEN live[item.file] ELSE kept[item.file]
           S == Lines \cup KeptLines
           m == WalkMessages(q.seen, file)
           index == Indexed(q.index, m.rows, "unknown")
           w == [q EXCEPT !.todo = q.todo \ {item}, !.index = index, !.seen = m.seen]
<1>1. q \in InFlight(q) /\ IsFiniteSet(q.seen) /\ format \in Formats /\ ~Retains
    BY DEF TypeOK, Retains
<1>2. /\ q.seen \in SUBSET MessageKeys /\ q.index \in Indexes(q.index.sessions)
      /\ item.file \in File
    BY <1>1 DEF InFlight
<1>3. AreRecords(S) /\ KeysOf(S) = MessageKeys /\ Messages(S) = Messages(Records("messages"))
    BY <1>1, LinesAre DEF Lines
<1>4. file \in Seq(S)
    <2>1. live[item.file] \in Seq(Lines) /\ kept[item.file] \in Seq(KeptLines)
        BY <1>2 DEF TypeOK
    <2>2. live[item.file] \in Seq(S)
        BY <2>1, SeqMonotonic
    <2>3. kept[item.file] \in Seq(S)
        BY <2>1, SeqMonotonic
    <2>4. QED
        BY <2>2, <2>3
<1>5. Walked(r, item) = w
    BY <1>1 DEF Walked
<1>6. q.seen \in SUBSET KeysOf(S) /\ "messages" \in Formats
    BY <1>1, <1>2, <1>3
<1> DEFINE x == q.index
           sessions == x.sessions
           seen == q.seen
<1>7. x \in Indexes(sessions) /\ seen \in SUBSET KeysOf(S) /\ IsFiniteSet(seen)
    BY <1>1, <1>2, <1>6
<1> HIDE DEF S, file, sessions, x, seen
<1>8. BillsItsOwn(x, seen, file)
    BY <1>3, <1>4, <1>6, <1>7, FileBillsItsOwn
<1>9. WalkMessages(seen, file) \in CountedState(S)
    BY <1>3, <1>4, <1>7, WalksAre
<1>10. m.rows \in Seq(BilledRow) /\ x \in Indexes(x.sessions) /\ m = WalkMessages(seen, file)
       /\ \A k \in m.seen : k \in KeysOf(Records("messages"))
    BY <1>3, <1>7, <1>9 DEF CountedState, seen, sessions, KeysOf
<1> HIDE DEF m
<1>11. index.total = FoldLeft(AddRow, x, m.rows).total
    BY <1>10, IndexedIs DEF x
<1> HIDE DEF index
<1>12. w.index = index /\ w.seen = m.seen
    BY <1>1 DEF InFlight
<1>13. SumFunction(x.total) = Billed(seen) /\ SumFunction(x.total) \in Int
    <2>1. SumFunction(x.total) = Billed(seen)
        BY DEF Counts, x, seen
    <2> DEFINE f == x.total
    <2>2. f \in [Day -> Int] /\ IsFiniteSet(Day)
        BY <1>7, CaptureAssumption DEF Indexes
    <2> HIDE DEF f
    <2>3. SumFunction(f) \in Int
        BY <2>2, SumIsInt
    <2>4. QED
        BY <2>1, <2>3 DEF f
<1>14. SumFunction(index.total) \in Int /\ Billed(m.seen) \in Int
    <2> DEFINE f == index.total
               g == [k \in m.seen |-> Bill(k)]
    <2>1. f \in [Day -> Int] /\ IsFiniteSet(Day)
        <3>1. index \in Indexes(index.sessions)
            BY <1>10, IndexedIs DEF index, x
        <3>2. QED
            BY <3>1, CaptureAssumption DEF Indexes
    <2>2. g \in [m.seen -> Int] /\ IsFiniteSet(m.seen)
        <3>1. \A k \in m.seen : Bill(k) \in Nat
            BY <1>6, <1>10, BillIs DEF KeysOf
        <3>2. QED
            BY <1>9, <1>10, <3>1 DEF CountedState
    <2> HIDE DEF f, g
    <2>3. SumFunction(f) \in Int /\ SumFunction(g) \in Int
        BY <2>1, <2>2, SumIsInt
    <2>4. QED
        BY <2>3 DEF f, g, Billed
<1>15. SumFunction(index.total) = Billed(m.seen)
    BY <1>8, <1>10, <1>11, <1>13, <1>14 DEF BillsItsOwn
<1> HIDE DEF w
<1>16. QED
    BY <1>5, <1>12, <1>15 DEF Counts

\* A run has counted what it had, or nothing; and what it is about to store
\* is what it was, or it has just read the store.
Stands(r) ==
  /\ \/ run'[r].index = run[r].index /\ run'[r].seen = run[r].seen
     \/ run'[r].index = EmptyIndex /\ run'[r].seen = {}
  /\ run'[r].pc = "merge" => ReadStore(r) \/ run'[r] = run[r]

(* Only a file read moves what a run counted, and a run that ends or       *)
(* begins counts nothing; only reading the store gives it one to write.    *)
LEMMA CountsStand ==
    ASSUME TypeOK, [Next]_vars, NEW r \in Run,
           ~ ReadFile(r)
    PROVE  Stands(r)
<1>1. run = [q \in Run |-> run[q]] /\ \A q \in Run : Carries(run[q])
    BY DEF TypeOK, Carries
<1>2. ASSUME UNCHANGED run PROVE Stands(r)
    BY <1>2 DEF Stands
<1>3. ASSUME NEW q \in Run, q # r, NEW w, run' = [run EXCEPT ![q] = w] PROVE Stands(r)
    BY <1>1, <1>3 DEF Stands
<1>4. ASSUME NEW w, run' = [run EXCEPT ![r] = w], w.index = run[r].index, w.seen = run[r].seen,
              w.pc = "merge" => ReadStore(r)
       PROVE  Stands(r)
    BY <1>1, <1>4 DEF Stands
<1>5. ASSUME NEW w, run' = [run EXCEPT ![r] = w], w.index = EmptyIndex, w.seen = {}, w.pc # "merge"
       PROVE  Stands(r)
    BY <1>1, <1>5 DEF Stands
<1>6. Idle.index = EmptyIndex /\ Idle.seen = {} /\ Idle.pc = "off"
    BY DEF Idle
<1>7. ASSUME NEW q \in Run, Start(q) PROVE Stands(r)
    <2> DEFINE w == [Idle EXCEPT !.pc = "walk", !.todo = Listing]
    <2>1. run' = [run EXCEPT ![q] = w]
        BY <1>7 DEF Start
    <2>2. w.index = EmptyIndex /\ w.seen = {} /\ w.pc = "walk"
        BY DEF Idle
    <2> HIDE DEF w
    <2>3. QED
        BY <1>3, <1>5, <2>1, <2>2
<1>8. ASSUME NEW q \in Run, ReadFile(q) PROVE Stands(r)
    <2>1. q # r /\ \E w : run' = [run EXCEPT ![q] = w]
        BY <1>8 DEF ReadFile
    <2>2. QED
        BY <1>3, <2>1
<1>9. ASSUME NEW q \in Run, Keep(q) PROVE Stands(r)
    <2> DEFINE w == [run[q] EXCEPT !.pc = "walk", !.tail = <<>>]
    <2>1. run' = [run EXCEPT ![q] = w]
        BY <1>1, <1>9 DEF Keep
    <2>2. w.index = run[q].index /\ w.seen = run[q].seen /\ w.pc = "walk"
        BY <1>1 DEF Carries, InFlight
    <2> HIDE DEF w
    <2>3. QED
        BY <1>3, <1>4, <2>1, <2>2
<1>10. ASSUME NEW q \in Run, ReadStore(q) PROVE Stands(r)
    <2> DEFINE m == Merge(run[q])
               w == [run[q] EXCEPT !.pc = "merge", !.merge = m]
    <2>1. run' = [run EXCEPT ![q].pc = "merge", ![q].merge = m]
        BY <1>10 DEF ReadStore
    <2> HIDE DEF m
    <2>2. run' = [run EXCEPT ![q] = w]
        BY <1>1, <2>1
    <2>3. w.index = run[q].index /\ w.seen = run[q].seen
        BY <1>1 DEF Carries, InFlight
    <2> HIDE DEF w
    <2>4. QED
        BY <1>3, <1>4, <1>10, <2>2, <2>3
<1>11. ASSUME NEW q \in Run, End(q) PROVE Stands(r)
    <2> DEFINE w == Idle
    <2>1. run' = [run EXCEPT ![q] = w] /\ w.index = EmptyIndex /\ w.seen = {} /\ w.pc = "off"
        BY <1>6, <1>11 DEF End
    <2> HIDE DEF w
    <2>2. QED
        BY <1>3, <1>5, <2>1
<1>12. ASSUME UNCHANGED vars PROVE Stands(r)
    BY <1>2, <1>12 DEF vars
<1>13. ASSUME NEW f \in File, (\E rec \in Records(format) : ToolCreates(f, rec) \/ ToolAppends(f, rec)) \/ ToolPrunes(f)
       PROVE  Stands(r)
    BY <1>2, <1>13 DEF ToolCreates, ToolAppends, ToolPrunes, ToolStep
<1>14. ASSUME NEW d \in Day, NEW n \in Figures, OwnerReads(d, n) PROVE Stands(r)
    BY <1>2, <1>14 DEF OwnerReads
<1>15. ASSUME NEW q \in Run, NothingFound(q) \/ Finish(q) \/ StopBetween(q) \/ StopInAppend(q) PROVE Stands(r)
    <2>1. End(q)
        BY <1>15 DEF NothingFound, Finish, StopBetween, StopInAppend, Crashes
    <2>2. QED
        BY <1>11, <2>1
<1>16. ASSUME NEW q \in Run, RunStep(q) \/ StopBetween(q) \/ StopInAppend(q) PROVE Stands(r)
    BY <1>7, <1>8, <1>9, <1>10, <1>15, <1>16, Zenon DEF RunStep
<1>17. ASSUME Next PROVE Stands(r)
    BY <1>13, <1>14, <1>16, <1>17, Zenon DEF Next
<1>18. QED
    BY <1>12, <1>17

(* The tree's record shape and the tool's roll-up never change. *)
LEMMA FormatStands == [Next]_vars => format' = format /\ cache' = cache
BY DEF Next, vars, RunStep, ToolCreates, ToolAppends, ToolPrunes, ToolStep, OwnerReads, Start, ReadFile, Keep,
       NothingFound, ReadStore, Finish, StopBetween, StopInAppend, Crashes

(* A message bills once over the whole tree, however often and wherever    *)
(* the tool replays it.                                                    *)
THEOREM MessagesBillOnce == Spec => []BilledOnce
<1>1. Init => BilledOnce
    <2> SUFFICES ASSUME Init PROVE BilledOnce
        OBVIOUS
    <2>1. \A r \in Run : run[r] = Idle
        BY DEF Init
    <2>2. Idle.index.total = [d \in Day |-> 0] /\ Idle.seen = {}
        BY DEF Idle, EmptyIndex
    <2>3. Counts(Idle)
        BY <2>2, SumOfNothing DEF Counts
    <2>4. QED
        BY <2>1, <2>3, BilledOnceIs
<1>2. ASSUME CaptureInv, CaptureInv', BilledOnce, [Next]_vars PROVE BilledOnce'
    <2>1. TypeOK /\ TypeOK'
        BY <1>2 DEF CaptureInv
    <2>2. BilledOnce' <=> (format' = "messages" => \A r \in Run : Counts(run'[r]))
        BY BilledOnceIs
    <2>3. format' = format
        BY <1>2, FormatStands
    <2>4. ASSUME format = "messages", NEW r \in Run PROVE Counts(run'[r])
        <3>1. Counts(run[r])
            BY <1>2, <2>4, BilledOnceIs
        <3>2. CASE ReadFile(r)
            <4>1. PICK item \in run[r].todo : run' = [run EXCEPT ![r] =
                    IF ~Opens(item) THEN [run[r] EXCEPT !.todo = run[r].todo \ {item}]
                    ELSE IF TailOf(item) = <<>> THEN Walked(r, item)
                    ELSE [Walked(r, item) EXCEPT !.pc = "keep", !.tail = TailOf(item),
                                                 !.file = item.file, !.gen = item.gen]]
                BY <3>2 DEF ReadFile
            <4>2. TailOf(item) = <<>>
                BY <2>4 DEF TailOf, Retains
            <4>3. Counts(Walked(r, item))
                BY <2>1, <2>4, <3>1, WalkedCounts
            <4> DEFINE skipped == [run[r] EXCEPT !.todo = run[r].todo \ {item}]
            <4>4. skipped.index = run[r].index /\ skipped.seen = run[r].seen
                BY <2>1 DEF TypeOK, InFlight
            <4>5. Counts(skipped)
                <5> HIDE DEF skipped
                <5>1. QED
                    BY <3>1, <4>4 DEF Counts
            <4>6. run'[r] = skipped \/ run'[r] = Walked(r, item)
                BY <2>1, <4>1, <4>2 DEF TypeOK
            <4> HIDE DEF skipped
            <4>7. QED
                BY <4>3, <4>5, <4>6
        <3>3. CASE ~ ReadFile(r)
            <4>1. Stands(r)
                BY <1>2, <2>1, <3>3, CountsStand
            <4>2. EmptyIndex.total = [d \in Day |-> 0]
                BY DEF EmptyIndex
            <4>3. QED
                BY <3>1, <4>1, <4>2, SumOfNothing DEF Counts, Stands
        <3>4. QED
            BY <3>2, <3>3
    <2>5. QED
        BY <2>2, <2>3, <2>4
<1>3. QED
    BY <1>1, <1>2, CaptureInvariant, PTL DEF Spec

----------------------------------------------------------------------------
(* What a run computes is consistent, so that none of its own proofs       *)
(* refuses it.                                                             *)

\* A stored day: its splits are of its figure, or there are none.
EntryOK(e) ==
  /\ e.total \in Nat
  /\ e.cats = NoParts \/ (e.cats \in [Class -> Nat] /\ SumParts(e.cats) = e.total)
  /\ e.ids = NoSplit \/ (e.ids \in [Ident -> Nat] /\ SumFunction(e.ids) = e.total)

\* The session of a file, before and after it is closed: its split is within
\* its total, and it has a day if it billed anything.
Tops == {"unknown", "child", "top"}
SessionOK == {s \in [total : Nat, cats : [Class -> Nat], days : SUBSET Day, ids : SUBSET Ident, top : Tops] :
                SumParts(s.cats) <= s.total /\ (s.total > 0 => s.days # {})}

\* The joint of a day refines its classes always, and where every row of the
\* day has a split, its identities and its total.
DayOK(x, d) ==
  /\ JointClasses(x.joint, d) = x.cats[d]
  /\ d \notin x.loose =>
       SumParts(x.cats[d]) = x.total[d] /\ \A i \in Ident : SumParts(x.joint[d][i]) = x.ids[d][i]

SessionsOK(sessions) == sessions \in Seq(SessionOK) /\ \A k \in DOMAIN sessions : sessions[k].total > 0
IndexOK(x) ==
  x \in Indexes(x.sessions) /\ SessionsOK(x.sessions) /\ \A d \in Day : DayOK(x, d)

\* A series on days of the calendar: where its split is said to be whole, it is.
SeriesOK(s) ==
  /\ s \in [first : Day, last : Day, total : [Day -> Nat], cats : [Day -> [Class -> Nat]],
            ids : [Day -> [Ident -> Nat]], whole : SUBSET Day]
  /\ s.first <= s.last
  /\ s.whole \subseteq Window(s) /\ \A d \in s.whole : SumParts(s.cats[d]) = s.total[d]

\* What a run is about to store and to emit: on the days it owns, what it
\* emits is its own index.
MergeOK(x, m) ==
  /\ SeriesOK(m.series) /\ \A d \in Day : EntryOK(m.entries[d])
  /\ m.owned \subseteq m.series.whole \ x.loose
  /\ \A d \in m.owned : m.series.cats[d] = x.cats[d] /\ m.ids[d] = x.ids[d]

RunOK(c, q) ==
  /\ IndexOK(q.index)
  /\ q.pc = "merge" => AdmittedLifetimeUsage(c) /\ MergeOK(q.index, q.merge)

StoreOK == \A d \in Day : EntryOK(store[d])
RunsOK == \A r \in Run : RunOK(cache, run[r])
OutputInv == StoreOK /\ RunsOK /\ NoSelfRefusal

\* What a row adds to a cell of the index.
Added(row, here, amount) == IF here /\ row.parts # NoParts THEN amount ELSE 0

\* y is x with the row added, cell by cell.
RowAdded(x, row, y) ==
  /\ y.sessions = x.sessions
  /\ y.loose = IF row.parts = NoParts THEN x.loose \cup {row.day} ELSE x.loose
  /\ \A d \in Day :
       /\ y.total[d] = x.total[d] + (IF d = row.day THEN row.total ELSE 0)
       /\ \A c \in Class : y.cats[d][c] = x.cats[d][c] + Added(row, d = row.day, row.parts[c])
       /\ \A i \in Ident :
            /\ y.ids[d][i] = x.ids[d][i] + (IF d = row.day /\ i = row.id THEN row.total ELSE 0)
            /\ \A c \in Class : y.joint[d][i][c] = x.joint[d][i][c] + Added(row, d = row.day /\ i = row.id, row.parts[c])

(* A row is added to every cell that counts it. *)
LEMMA AddRowAdds ==
    ASSUME NEW sessions, NEW x \in Indexes(sessions), NEW row \in BilledRow
    PROVE  RowAdded(x, row, AddRow(x, row))
<1> DEFINE e == row.day
           k == row.id
           y == AddRow(x, row)
           total == [x.total EXCEPT ![e] = @ + row.total]
           ids == [x.ids EXCEPT ![e][k] = @ + row.total]
           more(f) == [c \in Class |-> f[c] + row.parts[c]]
           cats == [x.cats EXCEPT ![e] = more(@)]
           joint == [x.joint EXCEPT ![e][k] = more(@)]
<1>1. e \in Day /\ k \in Ident /\ row.total \in Nat /\ (row.parts # NoParts => row.parts \in [Class -> Nat])
    BY DEF BilledRow
<1>2. /\ x = [days |-> x.days, loose |-> x.loose, total |-> x.total, ids |-> x.ids, cats |-> x.cats,
              joint |-> x.joint, sessions |-> x.sessions]
      /\ x.total \in [Day -> Nat] /\ x.ids \in [Day -> [Ident -> Nat]] /\ x.cats \in [Day -> [Class -> Nat]]
      /\ x.joint \in [Day -> [Ident -> [Class -> Nat]]]
    BY DEF Indexes
<1>3. row.parts = NoParts => /\ y.loose = x.loose \cup {e} /\ y.total = total /\ y.ids = ids
                             /\ y.cats = x.cats /\ y.joint = x.joint /\ y.sessions = x.sessions
    BY <1>2 DEF AddRow
<1>4. row.parts # NoParts => /\ y.loose = x.loose /\ y.total = total /\ y.ids = ids
                             /\ y.cats = cats /\ y.joint = joint /\ y.sessions = x.sessions
    BY <1>2 DEF AddRow
<1>5. ASSUME NEW d \in Day
      PROVE  /\ total[d] = x.total[d] + (IF d = e THEN row.total ELSE 0)
             /\ \A i \in Ident : ids[d][i] = x.ids[d][i] + (IF d = e /\ i = k THEN row.total ELSE 0)
    BY <1>1, <1>2
<1>6. ASSUME NEW d \in Day
      PROVE  /\ \A c \in Class : cats[d][c] = x.cats[d][c] + (IF d = e THEN row.parts[c] ELSE 0)
             /\ \A i \in Ident : \A c \in Class :
                  joint[d][i][c] = x.joint[d][i][c] + (IF d = e /\ i = k THEN row.parts[c] ELSE 0)
    <2>1. ASSUME d # e
          PROVE  cats[d] = x.cats[d] /\ joint[d] = x.joint[d]
        BY <1>1, <1>2, <2>1
    <2>2. cats[e] = more(x.cats[e])
        BY <1>1, <1>2
    <2>3. joint[e][k] = more(x.joint[e][k]) /\ \A i \in Ident : i # k => joint[e][i] = x.joint[e][i]
        BY <1>1, <1>2
    <2>4. \A c \in Class : x.cats[d][c] \in Nat /\ \A i \in Ident : x.joint[d][i][c] \in Nat
        BY <1>2
    <2> HIDE DEF cats, joint
    <2>5. QED
        BY <2>1, <2>2, <2>3, <2>4
<1> HIDE DEF y, total, ids, cats, joint
<1>7. CASE row.parts = NoParts
    <2>1. \A d \in Day : \A c \in Class : x.cats[d][c] \in Nat /\ \A i \in Ident : x.joint[d][i][c] \in Nat
        BY <1>2
    <2>2. RowAdded(x, row, y)
        BY <1>3, <1>5, <1>7, <2>1 DEF RowAdded, Added
    <2>3. QED
        BY <2>2 DEF y
<1>8. CASE row.parts # NoParts
    <2>1. RowAdded(x, row, y)
        BY <1>4, <1>5, <1>6, <1>8 DEF RowAdded, Added
    <2>2. QED
        BY <2>1 DEF y
<1>9. QED
    BY <1>7, <1>8

(* A split adds up class by class. *)
LEMMA PartsAdd ==
    ASSUME NEW f, NEW g, NEW h, \A c \in Class : f[c] \in Nat /\ g[c] \in Nat /\ h[c] = f[c] + g[c]
    PROVE  SumParts(h) = SumParts(f) + SumParts(g) /\ SumParts(f) \in Nat /\ SumParts(g) \in Nat
BY DEF SumParts, Class

(* There are finitely many identities. *)
LEMMA IdentIsFinite == IsFiniteSet(Ident)
BY CaptureAssumption, FS_AddElement, FS_Union, FS_Singleton DEF Ident

(* A row keeps the splits of every day consistent. *)
LEMMA RowKeepsDays ==
    ASSUME NEW sessions, NEW x \in Indexes(sessions), NEW row \in BilledRow, \A d \in Day : DayOK(x, d)
    PROVE  \A d \in Day : DayOK(AddRow(x, row), d)
<1> DEFINE y == AddRow(x, row)
<1>1. RowAdded(x, row, y) /\ y \in Indexes(sessions)
    BY AddRowAdds, AddRowIs
<1> HIDE DEF y
<1>2. /\ row.day \in Day /\ row.id \in Ident /\ row.total \in Nat
      /\ row.parts # NoParts => row.parts \in [Class -> Nat] /\ SumParts(row.parts) = row.total
    BY DEF BilledRow
<1> SUFFICES ASSUME NEW d \in Day PROVE DayOK(y, d)
    BY DEF y
<1>3. /\ \A i \in Ident : \A c \in Class : x.joint[d][i][c] \in Nat /\ y.joint[d][i][c] \in Nat
      /\ x.cats[d] \in [Class -> Nat] /\ y.cats[d] \in [Class -> Nat]
      /\ x.total[d] \in Nat /\ \A i \in Ident : x.ids[d][i] \in Nat
    BY <1>1 DEF Indexes
<1>4. DayOK(x, d)
    OBVIOUS
<1>5. ASSUME NEW c \in Class PROVE SumFunction([i \in Ident |-> y.joint[d][i][c]]) = y.cats[d][c]
    <2> DEFINE f == [i \in Ident |-> x.joint[d][i][c]]
               g == [i \in Ident |-> y.joint[d][i][c]]
               k == row.id
               more == Added(row, d = row.day, row.parts[c])
    <2>1. f \in [Ident -> Int] /\ g \in [Ident -> Int] /\ k \in Ident
        BY <1>2, <1>3
    <2>2. more \in Nat
        BY <1>2 DEF Added
    <2>3. (\A i \in Ident \ {k} : g[i] = f[i]) /\ g[k] - f[k] = more
        <3>1. ASSUME NEW i \in Ident
              PROVE  g[i] = f[i] + Added(row, d = row.day /\ i = k, row.parts[c])
            BY <1>1 DEF RowAdded
        <3>2. /\ \A i \in Ident \ {k} : Added(row, d = row.day /\ i = k, row.parts[c]) = 0
              /\ Added(row, d = row.day /\ k = k, row.parts[c]) = more
            BY DEF Added
        <3> HIDE DEF f, g, more, k
        <3>3. QED
            BY <2>1, <2>2, <3>1, <3>2
    <2>4. SumFunction(f) = x.cats[d][c]
        <3>1. JointClasses(x.joint, d)[c] = SumFunction(f)
            BY DEF JointClasses
        <3>2. QED
            BY <1>4, <3>1 DEF DayOK
    <2>5. y.cats[d][c] = x.cats[d][c] + more
        BY <1>1 DEF RowAdded
    <2> HIDE DEF f, g, k, more
    <2>6. SumFunction(g) = SumFunction(f) + (g[k] - f[k])
        BY <2>1, <2>3, IdentIsFinite, SumMoves
    <2>7. SumFunction(g) = y.cats[d][c]
        BY <2>3, <2>4, <2>5, <2>6
    <2>8. QED
        BY <2>7 DEF g
<1>6. JointClasses(y.joint, d) = y.cats[d]
    BY <1>3, <1>5 DEF JointClasses
<1>7. ASSUME d \notin y.loose
      PROVE  SumParts(y.cats[d]) = y.total[d] /\ \A i \in Ident : SumParts(y.joint[d][i]) = y.ids[d][i]
    <2>1. d \notin x.loose /\ (d = row.day => row.parts # NoParts)
        BY <1>1, <1>7 DEF RowAdded
    <2>2. SumParts(x.cats[d]) = x.total[d] /\ \A i \in Ident : SumParts(x.joint[d][i]) = x.ids[d][i]
        BY <1>4, <2>1 DEF DayOK
    <2>3. CASE d # row.day
        <3>1. /\ y.total[d] = x.total[d] /\ \A c \in Class : y.cats[d][c] = x.cats[d][c]
              /\ \A i \in Ident : y.ids[d][i] = x.ids[d][i] /\ \A c \in Class : y.joint[d][i][c] = x.joint[d][i][c]
            BY <1>1, <1>3, <2>3 DEF RowAdded, Added
        <3>2. QED
            BY <2>2, <3>1 DEF SumParts, Class
    <2>4. CASE d = row.day
        <3>1. SumParts(row.parts) = row.total /\ \A c \in Class : row.parts[c] \in Nat
            BY <1>2, <2>1, <2>4
        <3>2. y.total[d] = x.total[d] + row.total /\ \A c \in Class : y.cats[d][c] = x.cats[d][c] + row.parts[c]
            BY <1>1, <2>1, <2>4 DEF RowAdded, Added
        <3>3. SumParts(y.cats[d]) = SumParts(x.cats[d]) + SumParts(row.parts)
            BY <1>3, <3>1, <3>2, PartsAdd
        <3>4. ASSUME NEW i \in Ident PROVE SumParts(y.joint[d][i]) = y.ids[d][i]
            <4>1. CASE i = row.id
                <5>1. y.ids[d][i] = x.ids[d][i] + row.total /\ \A c \in Class : y.joint[d][i][c] = x.joint[d][i][c] + row.parts[c]
                    BY <1>1, <2>1, <2>4, <4>1 DEF RowAdded, Added
                <5>2. SumParts(y.joint[d][i]) = SumParts(x.joint[d][i]) + SumParts(row.parts)
                    BY <1>3, <3>1, <5>1, PartsAdd
                <5>3. QED
                    BY <2>2, <3>1, <5>1, <5>2
            <4>2. CASE i # row.id
                <5>1. y.ids[d][i] = x.ids[d][i] /\ \A c \in Class : y.joint[d][i][c] = x.joint[d][i][c]
                    BY <1>1, <1>3, <4>2 DEF RowAdded, Added
                <5>2. QED
                    BY <2>2, <5>1 DEF SumParts, Class
            <4>3. QED
                BY <4>1, <4>2
        <3>5. QED
            BY <2>2, <3>1, <3>2, <3>3, <3>4
    <2>5. QED
        BY <2>3, <2>4
<1>8. QED
    BY <1>6, <1>7 DEF DayOK

(* The rows of a file keep the splits of every day consistent. *)
LEMMA RowsKeepDays ==
    ASSUME NEW sessions, NEW x \in Indexes(sessions), NEW rows \in Seq(BilledRow), \A d \in Day : DayOK(x, d)
    PROVE  FoldLeft(AddRow, x, rows) \in Indexes(sessions) /\ \A d \in Day : DayOK(FoldLeft(AddRow, x, rows), d)
<1> DEFINE index(s) == FoldLeft(AddRow, x, s)
           T == {s \in Seq(BilledRow) : index(s) \in Indexes(sessions) /\ \A d \in Day : DayOK(index(s), d)}
<1>1. T \subseteq Seq(BilledRow) /\ <<>> \in T
    <2>1. index(<<>>) = x
        <3>1. <<>> \in Seq(BilledRow) /\ Folding(Indexes(sessions), BilledRow, AddRowFcn(sessions), x, <<>>)
            BY EmptySeq, AddRowFcnType DEF Folding, AddRowFcn
        <3>2. QED
            BY <3>1, FoldOfNothing, IndexIsAFold
    <2> HIDE DEF index
    <2>2. QED
        BY <2>1, EmptySeq
<1>2. ASSUME NEW s \in T, NEW row \in BilledRow PROVE Append(s, row) \in T
    <2>1. s \in Seq(BilledRow) /\ index(s) \in Indexes(sessions) /\ \A d \in Day : DayOK(index(s), d)
        OBVIOUS
    <2>2. index(Append(s, row)) = AddRow(index(s), row)
        BY <2>1, IndexOfAppend
    <2> HIDE DEF index
    <2>3. Append(s, row) \in Seq(BilledRow)
        BY <2>1, AppendProperties
    <2>4. AddRow(index(s), row) \in Indexes(sessions) /\ \A d \in Day : DayOK(AddRow(index(s), row), d)
        BY <2>1, AddRowIs, RowKeepsDays
    <2>5. QED
        BY <2>2, <2>3, <2>4
<1>3. T = Seq(BilledRow)
    <2> HIDE DEF T
    <2>1. QED
        BY <1>1, <1>2, SeqsByAppend
<1>4. QED
    BY <1>3

NoteSessionFcn == [q \in SessionOK \X BilledRow |-> NoteSession(q[1], q[2])]

(* A row noted leaves a session one. *)
LEMMA NoteSessionType ==
    ASSUME NEW s \in SessionOK, NEW row \in BilledRow
    PROVE  NoteSession(s, row) \in SessionOK
<1> DEFINE cats == [c \in Class |-> s.cats[c] + row.parts[c]]
           n == NoteSession(s, row)
<1>1. /\ row.day \in Day /\ row.total \in Nat /\ row.id \in Ident
      /\ row.parts # NoParts => row.parts \in [Class -> Nat] /\ SumParts(row.parts) = row.total
    BY DEF BilledRow
<1>2. /\ s \in [total : Nat, cats : [Class -> Nat], days : SUBSET Day, ids : SUBSET Ident, top : Tops]
      /\ SumParts(s.cats) <= s.total
    BY DEF SessionOK
<1>3. n = [s EXCEPT !.total = s.total + row.total,
                    !.cats = IF row.parts = NoParts THEN s.cats ELSE cats,
                    !.days = s.days \cup {row.day}, !.ids = s.ids \cup {row.id}]
    BY DEF NoteSession
<1>4. SumParts(s.cats) \in Nat /\ s.cats \in [Class -> Nat]
    BY <1>2 DEF SumParts, Class
<1>5. row.parts # NoParts => cats \in [Class -> Nat] /\ SumParts(cats) = SumParts(s.cats) + row.total
    BY <1>1, <1>4, PartsAdd
<1> HIDE DEF cats, n
<1>6. n \in [total : Nat, cats : [Class -> Nat], days : SUBSET Day, ids : SUBSET Ident, top : Tops]
    <2> DEFINE total == s.total + row.total
               split == IF row.parts = NoParts THEN s.cats ELSE cats
               days == s.days \cup {row.day}
               ids == s.ids \cup {row.id}
    <2>1. total \in Nat /\ split \in [Class -> Nat] /\ days \in SUBSET Day /\ ids \in SUBSET Ident
        BY <1>1, <1>2, <1>4, <1>5
    <2>2. n = [s EXCEPT !.total = total, !.cats = split, !.days = days, !.ids = ids]
        BY <1>3
    <2> HIDE DEF total, split, days, ids
    <2>3. QED
        BY <1>2, <2>1, <2>2
<1>7. SumParts(n.cats) <= n.total /\ n.days # {}
    <2>1. n.total = s.total + row.total /\ n.cats = (IF row.parts = NoParts THEN s.cats ELSE cats)
          /\ n.days = s.days \cup {row.day}
        BY <1>2, <1>3
    <2>2. s.total \in Nat
        BY <1>2
    <2>3. QED
        BY <1>1, <1>2, <1>4, <1>5, <2>1, <2>2
<1>8. QED
    BY <1>6, <1>7 DEF SessionOK, n

(* What a file's rows add up to is a session. *)
LEMMA SessionIs ==
    ASSUME NEW rows \in Seq(BilledRow)
    PROVE  FoldLeft(NoteSession, NewSession, rows) \in SessionOK
<1> DEFINE Step(g, s) == LET last == Max(s) IN NoteSession(g[s \ {last}], rows[last])
           g == CHOOSE h : h = [s \in SUBSET (DOMAIN rows) |-> IF s = {} THEN NewSession ELSE Step(h, s)]
           G == NoteSessionFcn
<1>1. FoldLeft(NoteSession, NewSession, rows) = g[DOMAIN rows]
    BY DEF FoldLeft, MapThenFoldSet
<1>2. Folding(SessionOK, BilledRow, G, NewSession, rows)
    <2>1. NewSession \in SessionOK
        BY DEF NewSession, SessionOK, Tops, NoClasses, SumParts, Class
    <2>2. G \in [SessionOK \X BilledRow -> SessionOK]
        BY NoteSessionType DEF NoteSessionFcn
    <2> HIDE DEF G
    <2>3. QED
        BY <2>1, <2>2 DEF Folding
<1>3. DOMAIN rows = 1 .. Len(rows) /\ Len(rows) \in Nat
    BY LenProperties
<1>4. PICK f : FoldFcn(f, Len(rows), SessionOK, G, NewSession, rows)
    BY <1>2, FoldExists DEF Folding, Foldable, FoldFcn
<1>5. ASSUME NEW h, NEW s \in SUBSET (1 .. Len(rows)), s # {}, h[s \ {Max(s)}] \in SessionOK
      PROVE  Step(h, s) = G[<<h[s \ {Max(s)}], rows[Max(s)]>>]
    <2>1. rows[Max(s)] \in BilledRow
        BY <1>3, <1>5, MaxIn, ElementOfSeq
    <2>2. QED
        BY <1>5, <2>1 DEF NoteSessionFcn
<1> HIDE DEF G
<1>6. f = [s \in SUBSET (DOMAIN rows) |-> IF s = {} THEN NewSession ELSE Step(f, s)]
    <2>1. ASSUME NEW s \in SUBSET (1 .. Len(rows))
          PROVE  f[s] = IF s = {} THEN NewSession ELSE Step(f, s)
        <3>1. s \ {Max(s)} \in SUBSET (1 .. Len(rows))
            OBVIOUS
        <3>2. f[s \ {Max(s)}] \in SessionOK
            BY <1>4, <3>1 DEF FoldFcn
        <3>3. f[s] = IF s = {} THEN NewSession ELSE G[<<f[s \ {Max(s)}], rows[Max(s)]>>]
            BY <1>4 DEF FoldFcn, IsFoldOf
        <3> HIDE DEF Step
        <3>4. QED
            BY <1>5, <3>2, <3>3
    <2> HIDE DEF Step
    <2>2. QED
        BY <1>3, <1>4, <2>1 DEF FoldFcn
<1>7. g = [s \in SUBSET (DOMAIN rows) |-> IF s = {} THEN NewSession ELSE Step(g, s)]
    <2> HIDE DEF Step
    <2>1. QED
        BY <1>6
<1> HIDE DEF g
<1>8. Unfolds(g, Len(rows), SessionOK, G, NewSession, rows)
    <2>1. g[{}] = NewSession /\ \A s \in SUBSET (1 .. Len(rows)) : s # {} => g[s] = Step(g, s)
        <3> HIDE DEF Step
        <3>1. QED
            BY <1>3, <1>7
    <2> HIDE DEF Step
    <2>2. QED
        BY <1>5, <2>1 DEF Unfolds
<1>9. g[1 .. Len(rows)] \in SessionOK
    BY <1>2, <1>8, FoldOfIs
<1>10. QED
    BY <1>1, <1>3, <1>9

(* A session closed joins sessions of its kind. *)
LEMMA ClosedIs ==
    ASSUME NEW sessions, SessionsOK(sessions), NEW rows \in Seq(BilledRow), NEW top \in Tops
    PROVE  SessionsOK(CloseSession(sessions, rows, top))
<1> DEFINE s == FoldLeft(NoteSession, NewSession, rows)
           closed == [s EXCEPT !.top = top]
<1>1. s \in SessionOK
    BY SessionIs
<1>2. CloseSession(sessions, rows, top) = IF s.total <= 0 THEN sessions ELSE Append(sessions, closed)
    BY DEF CloseSession
<1> HIDE DEF s
<1>3. closed \in SessionOK /\ closed.total = s.total /\ s.total \in Nat
    BY <1>1 DEF SessionOK
<1> HIDE DEF closed
<1>4. ASSUME s.total > 0 PROVE SessionsOK(Append(sessions, closed))
    <2> DEFINE more == Append(sessions, closed)
    <2>1. sessions \in Seq(SessionOK) /\ Len(sessions) \in Nat /\ DOMAIN sessions = 1 .. Len(sessions)
        BY LenProperties DEF SessionsOK
    <2>2. /\ more \in Seq(SessionOK) /\ Len(more) = Len(sessions) + 1 /\ DOMAIN more = 1 .. Len(more)
          /\ more[Len(sessions) + 1] = closed /\ \A k \in 1 .. Len(sessions) : more[k] = sessions[k]
        BY <1>3, <2>1, AppendProperties, LenProperties
    <2> HIDE DEF more
    <2>3. \A k \in DOMAIN more : more[k].total > 0
        <3> SUFFICES ASSUME NEW k \in DOMAIN more PROVE more[k].total > 0
            OBVIOUS
        <3>1. k \in 1 .. Len(sessions) \/ k = Len(sessions) + 1
            BY <2>1, <2>2
        <3>2. QED
            BY <1>3, <1>4, <2>1, <2>2, <3>1 DEF SessionsOK
    <2>4. QED
        BY <2>2, <2>3 DEF SessionsOK, more
<1>5. QED
    BY <1>2, <1>3, <1>4

(* A file's rows keep an index consistent. *)
LEMMA IndexedKeeps ==
    ASSUME NEW x, IndexOK(x), NEW rows \in Seq(BilledRow), NEW top \in Tops
    PROVE  IndexOK(Indexed(x, rows, top))
<1> DEFINE all == FoldLeft(AddRow, x, rows)
           y == Indexed(x, rows, top)
           closed == CloseSession(all.sessions, rows, top)
<1>1. all \in Indexes(x.sessions) /\ \A d \in Day : DayOK(all, d)
    <2> DEFINE sessions == x.sessions
    <2>1. x \in Indexes(sessions) /\ \A d \in Day : DayOK(x, d)
        BY DEF IndexOK
    <2> HIDE DEF sessions
    <2>2. all \in Indexes(sessions) /\ \A d \in Day : DayOK(all, d)
        BY <2>1, RowsKeepDays
    <2>3. QED
        BY <2>2 DEF sessions
<1>2. y = [all EXCEPT !.sessions = closed]
    BY DEF Indexed
<1>3. all.sessions = x.sessions
    BY <1>1 DEF Indexes
<1>4. SessionsOK(closed)
    BY <1>3, ClosedIs DEF IndexOK
<1> HIDE DEF all, y, closed
<1>5. y \in Indexes(y.sessions) /\ y.sessions = closed
      /\ y.joint = all.joint /\ y.cats = all.cats /\ y.total = all.total /\ y.ids = all.ids /\ y.loose = all.loose
    BY <1>1, <1>2 DEF Indexes
<1>6. \A d \in Day : DayOK(y, d)
    BY <1>1, <1>5 DEF DayOK
<1>7. QED
    BY <1>4, <1>5, <1>6 DEF IndexOK, y

(* An index of nothing is consistent. *)
LEMMA EmptyIndexIs == IndexOK(EmptyIndex)
<1> DEFINE x == EmptyIndex
<1>1. /\ x.sessions = <<>> /\ x.joint = [d \in Day |-> [i \in Ident |-> NoClasses]] /\ x.cats = [d \in Day |-> NoClasses]
      /\ x.total = [d \in Day |-> 0] /\ x.ids = [d \in Day |-> NoIds]
    BY DEF EmptyIndex
<1>2. x \in Indexes(x.sessions)
    BY DEF EmptyIndex, Indexes, NoIds, NoClasses
<1>3. SessionsOK(<<>>)
    BY EmptySeq DEF SessionsOK
<1> HIDE DEF x
<1>4. ASSUME NEW d \in Day PROVE DayOK(x, d)
    <2>1. JointClasses(x.joint, d) = NoClasses
        <3>1. ASSUME NEW c \in Class PROVE SumFunction([i \in Ident |-> x.joint[d][i][c]]) = 0
            <4>1. [i \in Ident |-> x.joint[d][i][c]] = [i \in Ident |-> 0]
                BY <1>1 DEF NoClasses
            <4>2. SumFunction([i \in Ident |-> 0]) = 0
                BY IdentIsFinite, SumOfZeros
            <4>3. QED
                BY <4>1, <4>2
        <3>2. QED
            BY <3>1 DEF JointClasses, NoClasses
    <2>2. QED
        BY <1>1, <2>1 DEF DayOK, SumParts, NoClasses, NoIds, Class
<1>5. QED
    BY <1>1, <1>2, <1>3, <1>4 DEF IndexOK, x

(* A file read keeps a run's index consistent. *)
LEMMA WalkedKeepsIndex ==
    ASSUME TypeOK, NEW r \in Run, NEW item \in run[r].todo, IndexOK(run[r].index)
    PROVE  IndexOK(Walked(r, item).index)
<1> DEFINE q == run[r]
           file == IF item.live THEN live[item.file] ELSE kept[item.file]
           S == Lines \cup KeptLines
           a == WalkRunning(file)
           m == WalkMessages(q.seen, file)
           byRunning == Indexed(q.index, a.rows, a.top)
           byMessage == Indexed(q.index, m.rows, "unknown")
<1>1. q \in InFlight(q) /\ IsFiniteSet(q.seen) /\ format \in Formats
    BY DEF TypeOK
<1>2. q.seen \in SUBSET MessageKeys /\ item.file \in File
    BY <1>1 DEF InFlight
<1>3. file \in Seq(S)
    <2>1. live[item.file] \in Seq(Lines) /\ kept[item.file] \in Seq(KeptLines)
        BY <1>2 DEF TypeOK
    <2>2. live[item.file] \in Seq(S)
        BY <2>1, SeqMonotonic
    <2>3. kept[item.file] \in Seq(S)
        BY <2>1, SeqMonotonic
    <2>4. QED
        BY <2>2, <2>3
<1>4. a \in ReaderState /\ m \in CountedState(S)
    <2>1. AreRecords(S) /\ KeysOf(S) = MessageKeys
        BY <1>1, LinesAre
    <2> HIDE DEF S, file, q
    <2>2. QED
        BY <1>1, <1>2, <1>3, <2>1, WalksAre
<1>5. a.rows \in Seq(BilledRow) /\ a.top \in Tops /\ m.rows \in Seq(BilledRow) /\ "unknown" \in Tops
    <2> HIDE DEF a, m
    <2>1. QED
        BY <1>4 DEF ReaderState, CountedState, Tops
<1>6. IndexOK(byRunning) /\ IndexOK(byMessage)
    <2> HIDE DEF a, m
    <2>1. QED
        BY <1>5, IndexedKeeps
<1>7. Walked(r, item).index = IF Retains THEN byRunning ELSE byMessage
    <2> HIDE DEF byRunning, byMessage, a, m
    <2>1. Walked(r, item) = IF Retains
            THEN [q EXCEPT !.todo = q.todo \ {item}, !.index = byRunning,
                           !.carried = [d \in Day |-> q.carried[d] + a.carried[d]]]
            ELSE [q EXCEPT !.todo = q.todo \ {item}, !.index = byMessage, !.seen = m.seen]
        BY DEF Walked, byRunning, byMessage, a, m
    <2> HIDE DEF q
    <2>2. QED
        BY <1>1, <2>1 DEF InFlight
<1> HIDE DEF byRunning, byMessage
<1>8. QED
    BY <1>6, <1>7

(* The ends of a set of days are days of it, and between them are days.    *)
LEMMA EndsAre ==
    ASSUME NEW S, S \subseteq Day, S # {}
    PROVE  /\ Least(S) \in S /\ Greatest(S) \in S /\ Least(S) .. Greatest(S) \subseteq Day
           /\ Least(S) <= Greatest(S) /\ \A d \in S : d \in Nat /\ Least(S) <= d /\ d <= Greatest(S)
<1>1. IsFiniteSet(S) /\ S \subseteq Nat /\ \A d, e \in Day : d .. e \subseteq Day
    BY CaptureAssumption, FS_Subset
<1>2. (\E d \in S : \A e \in S : d <= e) /\ (\E d \in S : \A e \in S : d >= e)
    BY <1>1, EndsExist DEF HasEnds
<1>3. /\ Least(S) \in S /\ \A e \in S : Least(S) <= e
      /\ Greatest(S) \in S /\ \A e \in S : Greatest(S) >= e
    BY <1>2 DEF Least, Greatest
<1>4. QED
    BY <1>1, <1>3

(* What the walk measured is a series. *)
LEMMA WalkedSeriesIs ==
    ASSUME NEW x, IndexOK(x), x.days # {}
    PROVE  LET s == DailySeries(x) IN
           /\ SeriesOK(s) /\ s.whole \cap x.loose = {}
           /\ s.cats = x.cats /\ s.ids = x.ids
<1> DEFINE s == DailySeries(x)
<1>1. /\ x.days \subseteq Day /\ x.total \in [Day -> Nat] /\ x.cats \in [Day -> [Class -> Nat]]
      /\ x.ids \in [Day -> [Ident -> Nat]] /\ \A d \in Day : DayOK(x, d)
    BY DEF IndexOK, Indexes
<1>2. /\ s.first = Least(x.days) /\ s.last = Greatest(x.days) /\ s.total = x.total /\ s.cats = x.cats
      /\ s.ids = x.ids /\ s.whole = (s.first .. s.last) \ x.loose
    BY DEF DailySeries
<1> HIDE DEF s
<1>3. s.first \in Day /\ s.last \in Day /\ s.first <= s.last /\ s.first .. s.last \subseteq Day
    BY <1>1, <1>2, EndsAre
<1>4. s.whole \subseteq Window(s) /\ \A d \in s.whole : SumParts(s.cats[d]) = s.total[d]
    BY <1>1, <1>2, <1>3 DEF DayOK, Window
<1>5. SeriesOK(s) /\ s.whole \cap x.loose = {}
    <2>1. s = [first |-> s.first, last |-> s.last, total |-> s.total, cats |-> s.cats, ids |-> s.ids, whole |-> s.whole]
        BY DEF s, DailySeries
    <2>2. s.whole \cap x.loose = {} /\ s.whole \subseteq Day
        BY <1>2, <1>3
    <2>3. SeriesOK(s)
        BY <1>1, <1>2, <1>3, <1>4, <2>1, <2>2 DEF SeriesOK
    <2>4. QED
        BY <2>2, <2>3
<1>6. QED
    BY <1>2, <1>5 DEF s

(* The tool's own counts of a day are naturals. *)
LEMMA CountedIs ==
    ASSUME NEW c, IsCache(c), NEW d \in Day
    PROVE  ActivityDays(c)[d] \in [Ident -> Nat] /\ SumFunction(ActivityDays(c)[d]) \in Nat
<1> DEFINE counted == ActivityDays(c)[d]
<1>1. ASSUME NEW i \in Ident
      PROVE  SumFunction([k \in {n \in DOMAIN c.rows : c.rows[n].day = d /\ RawIdentity(c.rows[n].model) = i}
                           |-> c.rows[k].count]) \in Nat
    <2> DEFINE K == {n \in DOMAIN c.rows : c.rows[n].day = d /\ RawIdentity(c.rows[n].model) = i}
               f == [k \in K |-> c.rows[k].count]
    <2>1. IsFiniteSet(K)
        BY FS_Subset DEF IsCache
    <2>2. f \in [K -> Nat]
        BY DEF IsCache
    <2> HIDE DEF f, K
    <2>3. SumFunction(f) \in Nat
        BY <2>1, <2>2, SumIsNat
    <2>4. QED
        BY <2>3 DEF f, K
<1>2. counted \in [Ident -> Nat]
    BY <1>1 DEF ActivityDays
<1> HIDE DEF counted
<1>3. SumFunction(counted) \in Nat
    BY <1>2, IdentIsFinite, SumIsNat
<1>4. QED
    BY <1>2, <1>3 DEF counted

(* What the tool's own counts complete is a series, the same where the     *)
(* walk measured.                                                          *)
LEMMA ExtendedIs ==
    ASSUME NEW s, SeriesOK(s), NEW c, IsCache(c)
    PROVE  LET e == ExtendWithCache(s, c) IN
           /\ SeriesOK(e) /\ e.whole = s.whole /\ e.cats = s.cats
           /\ \A d \in Window(s) : e.ids[d] = s.ids[d]
<1> DEFINE known == KnownDays(c)
           lost == known \ Window(s)
           days == Window(s) \cup known
           counted == ActivityDays(c)
           total == [d \in Day |-> IF d \in lost THEN SumFunction(counted[d]) ELSE s.total[d]]
           ids == [d \in Day |-> IF d \in lost THEN counted[d] ELSE s.ids[d]]
           e == ExtendWithCache(s, c)
<1>1. c.rows = <<>> => e = s
    BY DEF ExtendWithCache
<1>2. c.rows # <<>> => e = [first |-> Least(days), last |-> Greatest(days), total |-> total, cats |-> s.cats,
                            ids |-> ids, whole |-> s.whole]
    BY DEF ExtendWithCache, SeriesOK
<1>3. /\ s.first \in Day /\ s.last \in Day /\ s.first <= s.last /\ s.total \in [Day -> Nat] /\ s.cats \in [Day -> [Class -> Nat]]
      /\ s.ids \in [Day -> [Ident -> Nat]] /\ s.whole \subseteq Window(s)
      /\ \A d \in s.whole : SumParts(s.cats[d]) = s.total[d]
    BY DEF SeriesOK
<1>4. Window(s) \subseteq Day /\ known \subseteq Day /\ days \subseteq Day
    <2>1. Window(s) \subseteq Day
        BY <1>3, CaptureAssumption DEF Window
    <2>2. known \subseteq Day
        BY DEF KnownDays, IsCache
    <2>3. QED
        BY <2>1, <2>2
<1>5. total \in [Day -> Nat] /\ ids \in [Day -> [Ident -> Nat]]
    <2>1. \A d \in Day : counted[d] \in [Ident -> Nat] /\ SumFunction(counted[d]) \in Nat
        BY CountedIs
    <2> HIDE DEF counted, lost
    <2>2. QED
        BY <1>3, <2>1
<1>6. \A d \in Window(s) : total[d] = s.total[d] /\ ids[d] = s.ids[d]
    BY <1>4
<1>7. ASSUME c.rows # <<>>
      PROVE  /\ Least(days) \in Day /\ Greatest(days) \in Day /\ Least(days) <= Greatest(days)
             /\ \A d \in Window(s) : Least(days) <= d /\ d <= Greatest(days)
    <2>1. days # {}
        <3>1. s.first \in Window(s)
            BY <1>3, CaptureAssumption DEF Window
        <3>2. QED
            BY <3>1
    <2> HIDE DEF days
    <2>2. Least(days) \in days /\ Greatest(days) \in days /\ Least(days) <= Greatest(days) /\ \A d \in days : Least(days) <= d /\ d <= Greatest(days)
        BY <1>4, <2>1, EndsAre
    <2>3. QED
        BY <1>4, <2>2 DEF days
<1> HIDE DEF total, ids, e, days, counted, lost, known
<1>8. CASE c.rows = <<>>
    <2>1. e = s
        BY <1>1, <1>8
    <2>2. QED
        BY <2>1 DEF e
<1>9. CASE c.rows # <<>>
    <2> DEFINE lo == Least(days)
               hi == Greatest(days)
    <2>1. /\ e.first = lo /\ e.last = hi /\ e.total = total /\ e.cats = s.cats /\ e.ids = ids /\ e.whole = s.whole
          /\ e = [first |-> e.first, last |-> e.last, total |-> e.total, cats |-> e.cats,
                  ids |-> e.ids, whole |-> e.whole]
        BY <1>2, <1>9
    <2>2. lo \in Day /\ hi \in Day /\ lo <= hi /\ \A d \in Window(s) : lo <= d /\ d <= hi
        BY <1>7, <1>9
    <2> HIDE DEF lo, hi
    <2>3. Window(s) \subseteq Window(e)
        BY <1>4, <2>1, <2>2, CaptureAssumption DEF Window
    <2>4. SeriesOK(e)
        BY <1>3, <1>5, <1>6, <2>1, <2>2, <2>3 DEF SeriesOK
    <2>5. QED
        BY <1>6, <2>1, <2>4 DEF e
<1>10. QED
    BY <1>8, <1>9

(* A natural is no mark of an absent split. *)
LEMMA SplitsAreApart ==
    /\ NoParts \notin [Class -> Nat] /\ NoSplit \notin [Ident -> Nat]
    /\ NoClasses \in [Class -> Nat] /\ SumParts(NoClasses) = 0 /\ NoIds \in [Ident -> Nat]
<1>1. NoParts \notin [Class -> Nat]
    <2>1. NoParts["input"] = -1
        BY DEF NoParts, Class
    <2>2. \A f \in [Class -> Nat] : f["input"] \in Nat
        BY DEF Class
    <2>3. QED
        BY <2>1, <2>2
<1>2. NoSplit \notin [Ident -> Nat]
    <2>1. Unidentified \in Ident
        BY DEF Ident
    <2>2. NoSplit[Unidentified] = -1
        BY <2>1 DEF NoSplit
    <2>3. \A f \in [Ident -> Nat] : f[Unidentified] \in Nat
        BY <2>1
    <2>4. QED
        BY <2>2, <2>3
<1>3. NoClasses \in [Class -> Nat] /\ SumParts(NoClasses) = 0 /\ NoIds \in [Ident -> Nat]
    BY DEF NoClasses, NoIds, SumParts, Class
<1>4. QED
    BY <1>1, <1>2, <1>3

(* A day with a figure and no split. *)
LEMMA BareEntryIs ==
    ASSUME NEW n \in Nat
    PROVE  EntryOK([Absent EXCEPT !.total = n]) /\ EntryOK(Absent) /\ Absent.total = 0
BY DEF EntryOK, Absent

(* What the walk and the roll-up say of a day. *)
LEMMA FreshEntryIs ==
    ASSUME NEW s, SeriesOK(s), NEW d \in Day
    PROVE  EntryOK(FreshEntry(s, d))
<1> DEFINE cats == IF d \in s.whole /\ SumParts(s.cats[d]) = s.total[d] THEN s.cats[d] ELSE NoParts
           ids == IF SumFunction(s.ids[d]) = s.total[d] THEN s.ids[d] ELSE NoSplit
<1>1. s.total[d] \in Nat /\ s.cats[d] \in [Class -> Nat] /\ s.ids[d] \in [Ident -> Nat]
    BY DEF SeriesOK
<1>2. CASE s.total[d] <= 0
    BY <1>2, BareEntryIs DEF FreshEntry
<1>3. CASE ~ (s.total[d] <= 0)
    <2>1. FreshEntry(s, d) = [total |-> s.total[d], cats |-> cats, ids |-> ids]
        BY <1>3 DEF FreshEntry
    <2>2. cats = NoParts \/ (cats \in [Class -> Nat] /\ SumParts(cats) = s.total[d])
        BY <1>1
    <2>3. ids = NoSplit \/ (ids \in [Ident -> Nat] /\ SumFunction(ids) = s.total[d])
        BY <1>1
    <2> HIDE DEF cats, ids
    <2>4. QED
        BY <1>1, <2>1, <2>2, <2>3 DEF EntryOK
<1>4. QED
    BY <1>2, <1>3

(* The store with the owner's readings. *)
LEMMA SeededIs ==
    ASSUME NEW stored, \A d \in Day : EntryOK(stored[d]), NEW figures \in [Day -> Nat], NEW d \in Day
    PROVE  EntryOK(Seeded(stored, figures)[d])
<1>1. Seeded(stored, figures)[d] =
        IF stored[d].total = 0 /\ figures[d] > 0 THEN [Absent EXCEPT !.total = figures[d]] ELSE stored[d]
    BY DEF Seeded
<1>2. EntryOK([Absent EXCEPT !.total = figures[d]])
    BY BareEntryIs
<1>3. QED
    BY <1>1, <1>2

(* The union, day by day. *)
LEMMA MergedIs ==
    ASSUME NEW s, SeriesOK(s), NEW stored, \A d \in Day : EntryOK(stored[d]), NEW carried, NEW d \in Day
    PROVE  EntryOK(MergedDays(s, stored, carried)[d])
<1>1. MergedDays(s, stored, carried)[d] =
        IF d \in Overridden(s, stored, carried) THEN stored[d] ELSE FreshEntry(s, d)
    BY DEF MergedDays
<1>2. QED
    BY <1>1, FreshEntryIs

(* A series' days are days of the calendar, its ends among them. *)
LEMMA WindowIs ==
    ASSUME NEW s, SeriesOK(s)
    PROVE  Window(s) \subseteq Day /\ s.first \in Window(s) /\ s.last \in Window(s)
<1>1. s.first \in Day /\ s.last \in Day /\ s.first <= s.last
    BY DEF SeriesOK
<1> DEFINE lo == s.first
           hi == s.last
<1>2. lo .. hi \subseteq Day /\ lo \in Nat /\ hi \in Nat
    <2>1. lo \in Day /\ hi \in Day
        BY <1>1
    <2> HIDE DEF lo, hi
    <2>2. lo .. hi \subseteq Day
        BY <2>1, CaptureAssumption
    <2>3. QED
        BY <2>1, <2>2, CaptureAssumption
<1>3. QED
    BY <1>1, <1>2 DEF Window

(* The union is a series. *)
LEMMA UnionIs ==
    ASSUME NEW s, SeriesOK(s), NEW merged, \A d \in Day : EntryOK(merged[d])
    PROVE  SeriesOK(MergeHistory(s, merged))
<1> DEFINE u == MergeHistory(s, merged)
           days == {d \in Day : merged[d].total > 0} \cup Window(s)
           total == [d \in Day |-> merged[d].total]
           cats == [d \in Day |-> Shown(merged[d].cats, NoParts, NoClasses)]
           ids == [d \in Day |-> Shown(merged[d].ids, NoSplit, NoIds)]
           whole == {d \in days : \/ merged[d].cats # NoParts
                                  \/ d \in s.whole /\ merged[d].total = 0}
           lo == Least(days)
           hi == Greatest(days)
<1>1. CASE \A d \in Day : merged[d].total = 0
    BY <1>1 DEF MergeHistory
<1>2. CASE ~ \A d \in Day : merged[d].total = 0
    <2>1. u = [first |-> lo, last |-> hi, total |-> total, cats |-> cats, ids |-> ids, whole |-> whole]
        BY <1>2 DEF MergeHistory
    <2>2. Window(s) \subseteq Day /\ s.first \in Window(s)
        BY WindowIs
    <2>3. days \subseteq Day /\ days # {}
        BY <2>2
    <2>4. ASSUME NEW d \in Day
          PROVE  /\ merged[d].total \in Nat
                 /\ Shown(merged[d].cats, NoParts, NoClasses) \in [Class -> Nat]
                 /\ Shown(merged[d].ids, NoSplit, NoIds) \in [Ident -> Nat]
                 /\ merged[d].cats # NoParts \/ merged[d].total = 0 =>
                      SumParts(Shown(merged[d].cats, NoParts, NoClasses)) = merged[d].total
        <3>1. EntryOK(merged[d])
            OBVIOUS
        <3>2. QED
            BY <3>1, SplitsAreApart DEF EntryOK, Shown
    <2>5. /\ total \in [Day -> Nat] /\ cats \in [Day -> [Class -> Nat]] /\ ids \in [Day -> [Ident -> Nat]]
          /\ \A d \in whole : SumParts(cats[d]) = total[d]
        BY <2>3, <2>4
    <2>6. whole \subseteq days
        OBVIOUS
    <2> HIDE DEF days, whole, total, cats, ids
    <2>7. lo \in Day /\ hi \in Day /\ lo <= hi /\ \A d \in days : d \in Nat /\ lo <= d /\ d <= hi
        BY <2>3, EndsAre
    <2> HIDE DEF lo, hi, u
    <2>8. days \subseteq Window(u)
        BY <2>1, <2>3, <2>7, CaptureAssumption DEF Window
    <2>9. SeriesOK(u)
        BY <2>1, <2>3, <2>5, <2>6, <2>7, <2>8 DEF SeriesOK
    <2>10. QED
        BY <2>9 DEF u
<1>3. QED
    BY <1>1, <1>2

(* Where the walk's own figure is taken whole, its split is the union's. *)
LEMMA UnionKeeps ==
    ASSUME NEW s, SeriesOK(s), NEW merged, NEW d \in s.whole, merged[d] = FreshEntry(s, d)
    PROVE  MergeHistory(s, merged).cats[d] = s.cats[d]
<1>1. d \in Day /\ s.total[d] \in Nat /\ s.cats[d] \in [Class -> Nat] /\ SumParts(s.cats[d]) = s.total[d]
    BY DEF SeriesOK
<1>2. CASE \A e \in Day : merged[e].total = 0
    BY <1>2 DEF MergeHistory
<1>3. CASE ~ \A e \in Day : merged[e].total = 0
    <2>1. MergeHistory(s, merged).cats[d] = Shown(merged[d].cats, NoParts, NoClasses)
        BY <1>1, <1>3 DEF MergeHistory
    <2>2. CASE s.total[d] <= 0
        <3>1. merged[d].cats = NoParts
            BY <2>2 DEF FreshEntry, Absent
        <3>2. s.cats[d] = NoClasses
            <4>1. s.cats[d]["input"] \in Nat /\ s.cats[d]["cached"] \in Nat /\ s.cats[d]["output"] \in Nat
                BY <1>1 DEF Class
            <4>2. \A c \in Class : s.cats[d][c] = 0
                BY <1>1, <2>2, <4>1 DEF SumParts, Class
            <4>3. QED
                BY <1>1, <4>2 DEF NoClasses
        <3>3. QED
            BY <2>1, <3>1, <3>2 DEF Shown
    <2>3. CASE ~ (s.total[d] <= 0)
        <3>1. merged[d].cats = s.cats[d]
            BY <1>1, <2>3 DEF FreshEntry
        <3>2. QED
            BY <1>1, <2>1, <3>1, SplitsAreApart DEF Shown
    <2>4. QED
        BY <2>2, <2>3
<1>4. QED
    BY <1>2, <1>3

(* The series the readings correct. *)
LEMMA VerifiedSeriesIs ==
    ASSUME NEW s, SeriesOK(s), NEW figures \in [Day -> Nat]
    PROVE  LET v == VerifiedSeries(s, figures) IN
           /\ SeriesOK(v)
           /\ \A d \in Day \ Verified(figures) : v.cats[d] = s.cats[d]
<1> DEFINE named == Verified(figures)
           keepsCats(d) == d \in s.whole /\ SumParts(s.cats[d]) = figures[d]
           keepsIds(d)  == SumFunction(s.ids[d]) = figures[d]
           total == [d \in Day |-> IF d \in named THEN figures[d] ELSE s.total[d]]
           cats == [d \in Day |-> IF d \in named /\ ~keepsCats(d) THEN NoClasses ELSE s.cats[d]]
           ids == [d \in Day |-> IF d \in named /\ ~keepsIds(d) THEN NoIds ELSE s.ids[d]]
           whole == {d \in s.whole : d \in named => keepsCats(d)}
           v == VerifiedSeries(s, figures)
<1>1. v = [first |-> s.first, last |-> s.last, total |-> total, cats |-> cats, ids |-> ids, whole |-> whole]
    <2>1. s = [first |-> s.first, last |-> s.last, total |-> s.total, cats |-> s.cats, ids |-> s.ids, whole |-> s.whole]
        BY DEF SeriesOK
    <2>2. v = [s EXCEPT !.total = total, !.cats = cats, !.ids = ids, !.whole = whole]
        BY DEF VerifiedSeries
    <2> HIDE DEF total, cats, ids, whole, v
    <2>3. QED
        BY <2>1, <2>2
<1>2. /\ s.total \in [Day -> Nat] /\ s.cats \in [Day -> [Class -> Nat]] /\ s.ids \in [Day -> [Ident -> Nat]]
      /\ s.whole \subseteq Day /\ s.first \in Day /\ s.last \in Day /\ s.first <= s.last
      /\ s.whole \subseteq s.first .. s.last /\ \A d \in s.whole : SumParts(s.cats[d]) = s.total[d]
    BY DEF SeriesOK, Window
<1>3. total \in [Day -> Nat]
    BY <1>2
<1>4. cats \in [Day -> [Class -> Nat]] /\ \A d \in Day \ named : cats[d] = s.cats[d]
    <2> HIDE DEF named
    <2>1. QED
        BY <1>2, SplitsAreApart
<1>5. ids \in [Day -> [Ident -> Nat]]
    <2> HIDE DEF named
    <2>1. QED
        BY <1>2, SplitsAreApart
<1>6. whole \subseteq s.whole /\ \A d \in whole : SumParts(cats[d]) = total[d]
    BY <1>2
<1> HIDE DEF total, cats, ids, whole, named, v
<1>7. SeriesOK(v)
    BY <1>1, <1>2, <1>3, <1>4, <1>5, <1>6 DEF SeriesOK, Window
<1>8. QED
    BY <1>1, <1>4, <1>7 DEF v, named

(* The days the readings correct, as they are remembered. *)
LEMMA VerifiedEntryIs ==
    ASSUME NEW merged, NEW s, SeriesOK(s), NEW figures \in [Day -> Nat], NEW d \in Day, EntryOK(merged[d])
    PROVE  EntryOK(VerifiedEntries(merged, s, figures)[d])
<1> DEFINE cats == IF d \in s.whole /\ SumParts(s.cats[d]) = figures[d] THEN s.cats[d] ELSE NoParts
           ids == IF SumFunction(s.ids[d]) = figures[d] THEN s.ids[d] ELSE NoSplit
<1>1. VerifiedEntries(merged, s, figures)[d] =
        IF d \notin Verified(figures) THEN merged[d] ELSE [total |-> figures[d], cats |-> cats, ids |-> ids]
    BY DEF VerifiedEntries
<1>2. s.cats[d] \in [Class -> Nat] /\ s.ids[d] \in [Ident -> Nat] /\ figures[d] \in Nat
    BY DEF SeriesOK
<1>3. /\ cats = NoParts \/ (cats \in [Class -> Nat] /\ SumParts(cats) = figures[d])
      /\ ids = NoSplit \/ (ids \in [Ident -> Nat] /\ SumFunction(ids) = figures[d])
    BY <1>2
<1> HIDE DEF cats, ids
<1>4. EntryOK([total |-> figures[d], cats |-> cats, ids |-> ids])
    BY <1>2, <1>3 DEF EntryOK
<1>5. QED
    BY <1>1, <1>4

(* What a run is about to store and to emit is consistent. *)
LEMMA MergeIsConsistent ==
    ASSUME NEW q, IndexOK(q.index), q.index.days # {}, IsCache(cache), \A d \in Day : EntryOK(store[d]),
           readings \in [Day -> Nat]
    PROVE  MergeOK(q.index, Merge(q))
<1> DEFINE x == q.index
           walked == DailySeries(x)
           fresh == ExtendWithCache(walked, cache)
           remembered == Seeded(store, readings)
           merged == MergedDays(fresh, remembered, q.carried)
           union == MergeHistory(fresh, merged)
           corrected == VerifiedSeries(union, readings)
           entries == VerifiedEntries(merged, union, readings)
           over == Overridden(fresh, remembered, q.carried)
           owned == ((walked.whole \ over) \ Verified(readings)) \cap corrected.whole
           m == Merge(q)
<1>1. SeriesOK(walked) /\ walked.whole \cap x.loose = {} /\ walked.cats = x.cats /\ walked.ids = x.ids
    <2>1. IndexOK(x) /\ x.days # {}
        OBVIOUS
    <2> HIDE DEF x
    <2>2. QED
        BY <2>1, WalkedSeriesIs
<1>2. m.series = corrected /\ m.ids = fresh.ids /\ m.entries = entries /\ m.owned = owned
    BY DEF Merge
<1> HIDE DEF m
<1>3. \A d \in Day : merged[d] = IF d \in over THEN remembered[d] ELSE FreshEntry(fresh, d)
    BY DEF MergedDays
<1> HIDE DEF walked
<1>4. SeriesOK(fresh) /\ fresh.whole = walked.whole /\ fresh.cats = walked.cats
      /\ \A d \in Window(walked) : fresh.ids[d] = walked.ids[d]
    BY <1>1, ExtendedIs
<1> HIDE DEF fresh
<1>5. \A d \in Day : EntryOK(remembered[d])
    BY SeededIs
<1> HIDE DEF remembered
<1>6. \A d \in Day : EntryOK(merged[d])
    BY <1>4, <1>5, MergedIs
<1> HIDE DEF merged, over
<1>7. SeriesOK(union)
    BY <1>4, <1>6, UnionIs
<1>8. ASSUME NEW d \in fresh.whole, merged[d] = FreshEntry(fresh, d) PROVE union.cats[d] = fresh.cats[d]
    BY <1>4, <1>8, UnionKeeps
<1> HIDE DEF union
<1>9. SeriesOK(corrected) /\ \A d \in Day \ Verified(readings) : corrected.cats[d] = union.cats[d]
    BY <1>7, VerifiedSeriesIs
<1>10. \A d \in Day : EntryOK(entries[d])
    BY <1>6, <1>7, VerifiedEntryIs
<1> HIDE DEF corrected, entries
<1>11. ASSUME NEW d \in owned
       PROVE  /\ d \in corrected.whole \ x.loose
              /\ corrected.cats[d] = x.cats[d] /\ fresh.ids[d] = x.ids[d]
    <2>1. d \in walked.whole /\ d \notin over /\ d \notin Verified(readings) /\ d \in corrected.whole
        OBVIOUS
    <2>2. d \in Window(walked) /\ d \in Day
        BY <1>1, <2>1 DEF SeriesOK
    <2>3. corrected.cats[d] = x.cats[d]
        BY <1>1, <1>3, <1>4, <1>8, <1>9, <2>1, <2>2
    <2>4. QED
        BY <1>1, <1>4, <2>1, <2>2, <2>3
<1> HIDE DEF owned
<1>12. MergeOK(x, m)
    BY <1>2, <1>9, <1>10, <1>11 DEF MergeOK
<1>13. QED
    BY <1>12 DEF m, x

(* What is written is what the reader admits. *)
LEMMA EntryIsAdmitted ==
    ASSUME NEW e, EntryOK(e)
    PROVE  AdmittedEntry(e)
<1>1. e.total \in Nat
    BY DEF EntryOK
<1>2. e.cats # NoParts => (\A c \in Class : e.cats[c] >= 0) /\ SumParts(e.cats) = e.total
    BY DEF EntryOK
<1>3. e.ids # NoSplit => (\A i \in Ident : e.ids[i] >= 0) /\ SumFunction(e.ids) = e.total
    BY DEF EntryOK
<1>4. QED
    BY <1>1, <1>2, <1>3 DEF AdmittedEntry

(* The joint refines both splits the document serves. *)
LEMMA JointStands ==
    ASSUME NEW x, IndexOK(x), NEW m, MergeOK(x, m)
    PROVE  JointRefines(x, m.series.cats, m.ids, LedgerDays(m.owned))
<1> SUFFICES ASSUME NEW d \in LedgerDays(m.owned)
             PROVE  /\ JointClasses(x.joint, d) = m.series.cats[d]
                    /\ \A i \in Ident : SumParts(x.joint[d][i]) = m.ids[d][i]
    BY DEF JointRefines
<1>1. d \in m.owned /\ d \notin x.loose /\ d \in m.series.whole
    BY DEF LedgerDays, MergeOK
<1>2. d \in Day
    BY <1>1 DEF MergeOK, SeriesOK
<1>3. DayOK(x, d) /\ m.series.cats[d] = x.cats[d] /\ m.ids[d] = x.ids[d]
    BY <1>1, <1>2 DEF IndexOK, MergeOK
<1>4. QED
    BY <1>1, <1>3 DEF DayOK

(* The days of the ledger's joint are the days between its ends. *)
LEMMA LedgerDaysAre ==
    ASSUME NEW owned, owned \subseteq Day, owned # {}
    PROVE  /\ LedgerDays(owned) \subseteq owned
           /\ LedgerDays(owned) = Least(LedgerDays(owned)) .. Greatest(LedgerDays(owned))
<1> DEFINE days == LedgerDays(owned)
           top == Greatest(owned)
           lo == Least(days)
           hi == Greatest(days)
<1>1. top \in owned /\ \A d \in owned : d \in Nat /\ d <= top
    BY EndsAre
<1>2. days = {d \in owned : \A e \in d .. top : e \in owned}
    BY DEF LedgerDays
<1> HIDE DEF days, top
<1>3. top \in days /\ days \subseteq owned
    BY <1>1, <1>2
<1>4. lo \in days /\ hi \in days /\ \A d \in days : d \in Nat /\ lo <= d /\ d <= hi
    BY <1>3, EndsAre
<1> HIDE DEF lo, hi
<1>5. ASSUME NEW d \in lo .. hi PROVE d \in days
    <2>1. lo \in Nat /\ hi \in Nat /\ top \in Nat /\ hi <= top /\ d \in Nat /\ lo <= d /\ d <= top
        BY <1>1, <1>3, <1>4
    <2>2. \A e \in lo .. top : e \in owned
        BY <1>2, <1>4
    <2>3. d \in owned /\ \A e \in d .. top : e \in owned
        BY <2>1, <2>2
    <2>4. QED
        BY <1>2, <2>3
<1>6. days = lo .. hi
    <2>1. ASSUME NEW d \in days PROVE d \in lo .. hi
        BY <1>4
    <2>2. QED
        BY <1>5, <2>1
<1>7. QED
    BY <1>3, <1>6 DEF days, lo, hi

(* The ledger block passes its own guard. *)
LEMMA LedgerBlockStands ==
    ASSUME NEW x, IndexOK(x), NEW owned, owned \subseteq Day, NEW members \in [Ident -> [Class -> Nat]]
    PROVE  AssertLedgerBlock(LedgerBlock(x, owned, members))
<1> DEFINE days == IF owned = {} THEN {} ELSE LedgerDays(owned)
           block == LedgerBlock(x, owned, members)
           joint == [d \in days |-> x.joint[d]]
           stats == IdentityStats(members)
<1>1. block.joint = joint /\ block.stats = stats /\ block.sessions = x.sessions
    BY DEF LedgerBlock
<1> HIDE DEF block
<1>2. AssertLedgerJoint(joint)
    <2>1. days \subseteq Day /\ (days = {} \/ days = Least(days) .. Greatest(days))
        <3>1. CASE owned = {}
            BY <3>1
        <3>2. CASE owned # {}
            <4>1. days = LedgerDays(owned)
                BY <3>2
            <4> HIDE DEF days
            <4>2. QED
                BY <3>2, <4>1, LedgerDaysAre
        <3>3. QED
            BY <3>1, <3>2
    <2> HIDE DEF days
    <2>2. DOMAIN joint = days
        OBVIOUS
    <2>3. ASSUME NEW d \in DOMAIN joint, NEW i \in Ident PROVE LedgerCounts(joint[d][i])
        <3>1. joint[d][i] = x.joint[d][i] /\ d \in Day
            BY <2>1, <2>2
        <3>2. x.joint[d][i] \in [Class -> Nat]
            BY <3>1 DEF IndexOK, Indexes
        <3>3. QED
            BY <3>1, <3>2 DEF LedgerCounts
    <2> HIDE DEF joint
    <2>4. QED
        BY <2>1, <2>2, <2>3 DEF AssertLedgerJoint
<1>3. AssertLedgerIdentityStats(stats)
    <2> DEFINE counted(i) == {c \in Class : members[i][c] > 0}
    <2>1. stats = [i \in {j \in Ident : counted(j) # {}} |-> [c \in counted(i) |-> members[i][c]]]
        BY DEF IdentityStats
    <2>2. ASSUME NEW i \in DOMAIN stats
          PROVE  i \in Ident /\ DOMAIN stats[i] # {} /\ LedgerCounts(stats[i])
        <3>1. i \in Ident /\ counted(i) # {} /\ stats[i] = [c \in counted(i) |-> members[i][c]]
            BY <2>1
        <3>2. DOMAIN stats[i] = counted(i) /\ \A c \in counted(i) : stats[i][c] = members[i][c]
            BY <3>1
        <3>3. \A c \in counted(i) : members[i][c] \in Nat
            BY <3>1
        <3>4. QED
            BY <3>1, <3>2, <3>3 DEF LedgerCounts
    <2> HIDE DEF stats
    <2>3. QED
        BY <2>2 DEF AssertLedgerIdentityStats
<1>4. ASSUME NEW k \in DOMAIN x.sessions PROVE AssertLedgerSession(x.sessions[k])
    <2> DEFINE s == x.sessions[k]
    <2>1. s \in SessionOK /\ s.total > 0
        BY ElementOfSeq, LenProperties DEF IndexOK, SessionsOK
    <2> HIDE DEF s
    <2>2. /\ s.total \in Nat /\ s.cats \in [Class -> Nat] /\ s.ids \subseteq Ident
          /\ s.days # {} /\ SumParts(s.cats) <= s.total
        BY <2>1 DEF SessionOK
    <2>3. AssertLedgerSession(s)
        BY <2>2 DEF AssertLedgerSession, LedgerCounts
    <2>4. QED
        BY <2>3 DEF s
<1> HIDE DEF joint, stats
<1>5. AssertLedgerBlock(block)
    BY <1>1, <1>2, <1>3, <1>4 DEF AssertLedgerBlock
<1>6. QED
    BY <1>5 DEF block

(* The split the document serves is a partition of its window. *)
LEMMA SplitIsPartition ==
    ASSUME NEW s, SeriesOK(s)
    PROVE  \A d \in TrailingRun(s, s.whole) : SumParts(s.cats[d]) = s.total[d]
<1>1. ASSUME NEW d \in TrailingRun(s, s.whole) PROVE SumParts(s.cats[d]) = s.total[d]
    <2>1. d \in s.first .. s.last /\ \A e \in d .. s.last : e \in s.whole
        BY DEF TrailingRun, Window
    <2>2. d \in d .. s.last
        BY <2>1
    <2>3. QED
        BY <2>1, <2>2 DEF SeriesOK
<1>2. QED
    BY <1>1

(* The longest session is a length, or there is none to tell. *)
LEMMA LongestIs ==
    ASSUME NEW c, IsCache(c), NEW sessions, SessionsOK(sessions)
    PROVE  LongestSession(c, sessions) \in Nat \cup {NoLongest}
<1> DEFINE spans == {Span(sessions[k]) : k \in DOMAIN sessions}
<1>1. IsFiniteSet(spans) /\ spans \subseteq Nat
    <2>1. DOMAIN sessions = 1 .. Len(sessions) /\ Len(sessions) \in Nat /\ sessions \in Seq(SessionOK)
        BY LenProperties DEF SessionsOK
    <2>2. IsFiniteSet(DOMAIN sessions)
        BY <2>1, FS_Interval
    <2>3. IsFiniteSet(spans)
        <3> DEFINE f == [k \in DOMAIN sessions |-> Span(sessions[k])]
        <3>1. f \in Surjection(DOMAIN sessions, spans)
            BY DEF Surjection
        <3> HIDE DEF f, spans
        <3>2. QED
            BY <2>2, <3>1, FS_Surjection
    <2>4. ASSUME NEW k \in DOMAIN sessions PROVE Span(sessions[k]) \in Nat
        <3> DEFINE s == sessions[k]
        <3>1. s \in SessionOK /\ s.total > 0
            BY <2>1, ElementOfSeq DEF SessionsOK
        <3> HIDE DEF s
        <3>2. s.days \subseteq Day /\ s.days # {}
            BY <3>1 DEF SessionOK
        <3> DEFINE days == s.days
                   lo == Least(days)
                   hi == Greatest(days)
        <3>3. lo \in days /\ hi \in days /\ lo <= hi /\ \A d \in days : d \in Nat
            <4>1. days \subseteq Day /\ days # {}
                BY <3>2
            <4> HIDE DEF days
            <4>2. QED
                BY <4>1, EndsAre
        <3> HIDE DEF lo, hi
        <3>4. hi - lo \in Nat
            BY <3>3
        <3>5. Span(s) = hi - lo
            BY DEF Span, lo, hi
        <3>6. QED
            BY <3>4, <3>5 DEF s
    <2>5. QED
        BY <2>3, <2>4
<1>2. spans # {} => Greatest(spans) \in Nat
    <2> HIDE DEF spans
    <2>1. spans # {} => \E n \in spans : \A k \in spans : n >= k
        BY <1>1, EndsExist DEF HasEnds
    <2>2. QED
        BY <1>1, <2>1 DEF Greatest
<1>3. CachedLongestSession(c) # NoLongest => c.longest \in Nat
    BY DEF CachedLongestSession, IsCache
<1>4. \/ CachedLongestSession(c) # NoLongest /\ LongestSession(c, sessions) = c.longest
      \/ spans # {} /\ LongestSession(c, sessions) = Greatest(spans)
      \/ LongestSession(c, sessions) = NoLongest
    BY DEF LongestSession
<1> HIDE DEF spans
<1>5. QED
    BY <1>2, <1>3, <1>4

(* What the members are accrued on some of the owned days never adds up    *)
(* past what the tiles are on those days and others.                       *)
LEMMA AccruedWithin ==
    ASSUME NEW x, IndexOK(x), NEW m, MergeOK(x, m),
           NEW days, days \subseteq Window(m.series), NEW own, own \subseteq m.owned, own \subseteq days
    PROVE  /\ AccrueJoint(x, own) \in [Ident -> [Class -> Nat]]
           /\ PartitionedClassTotals(m.series, days) \in [Class -> Nat]
           /\ \A c \in Class : SumFunction([i \in Ident |-> AccrueJoint(x, own)[i][c]])
                                 <= PartitionedClassTotals(m.series, days)[c]
<1> DEFINE s == m.series
           whole == days \cap s.whole
           acc == AccrueJoint(x, own)
           tiles == PartitionedClassTotals(s, days)
<1>1. SeriesOK(s) /\ own \subseteq s.whole /\ \A d \in own : s.cats[d] = x.cats[d]
    BY DEF MergeOK
<1>2. Window(s) \subseteq Day /\ IsFiniteSet(Day) /\ IsFiniteSet(Ident)
    <2> HIDE DEF s
    <2>1. QED
        BY <1>1, WindowIs, CaptureAssumption, IdentIsFinite
<1>3. own \subseteq whole /\ whole \subseteq Day /\ IsFiniteSet(whole) /\ IsFiniteSet(own) /\ own \subseteq Day
    BY <1>1, <1>2, FS_Subset
<1>4. \A d \in Day : s.cats[d] \in [Class -> Nat]
    BY <1>1 DEF SeriesOK
<1>5. ASSUME NEW c \in Class
      PROVE  /\ \A i \in Ident : SumFunction([d \in own |-> x.joint[d][i][c]]) \in Nat
             /\ SumFunction([d \in whole |-> s.cats[d][c]]) \in Nat
             /\ SumFunction([i \in Ident |-> SumFunction([d \in own |-> x.joint[d][i][c]])])
                  <= SumFunction([d \in whole |-> s.cats[d][c]])
    <2> DEFINE f == [d \in own |-> [i \in Ident |-> x.joint[d][i][c]]]
               cols == [i \in Ident |-> SumFunction([d \in own |-> f[d][i]])]
               rows == [d \in own |-> SumFunction(f[d])]
               g == [d \in whole |-> s.cats[d][c]]
    <2>1. \A d \in Day : \A i \in Ident : x.joint[d][i][c] \in Nat
        BY DEF IndexOK, Indexes
    <2>2. f \in [own -> [Ident -> Int]]
        BY <1>3, <2>1
    <2>3. SumFunction(rows) = SumFunction(cols)
        <3> HIDE DEF f
        <3>1. QED
            BY <1>2, <1>3, <2>2, SumsExchange
    <2>4. g \in [whole -> Nat]
        BY <1>3, <1>4
    <2>5. ASSUME NEW d \in own PROVE rows[d] = g[d]
        <3>1. DayOK(x, d) /\ d \in Day /\ d \in whole
            BY <1>3 DEF IndexOK
        <3>2. JointClasses(x.joint, d)[c] = SumFunction(f[d])
            BY DEF JointClasses
        <3>3. rows[d] = SumFunction(f[d])
            OBVIOUS
        <3>4. JointClasses(x.joint, d)[c] = s.cats[d][c]
            BY <1>1, <3>1 DEF DayOK
        <3>5. g[d] = s.cats[d][c]
            BY <3>1
        <3>6. QED
            BY <3>2, <3>3, <3>4, <3>5
    <2>6. rows = [d \in own |-> g[d]]
        <3>1. DOMAIN rows = own /\ rows = [d \in own |-> rows[d]]
            OBVIOUS
        <3> HIDE DEF rows, g
        <3>2. QED
            BY <2>5, <3>1
    <2>7. SumFunction(g) \in Nat /\ SumFunction(rows) <= SumFunction(g)
        <3> HIDE DEF g, rows, whole
        <3>1. SumFunction([d \in own |-> g[d]]) <= SumFunction(g)
            BY <1>3, <2>4, SumOfFewer
        <3>2. SumFunction(g) \in Nat
            BY <1>3, <2>4, SumIsNat
        <3>3. QED
            BY <2>6, <3>1, <3>2
    <2>8. ASSUME NEW i \in Ident PROVE SumFunction([d \in own |-> x.joint[d][i][c]]) \in Nat
        <3> DEFINE h == [d \in own |-> x.joint[d][i][c]]
        <3>1. h \in [own -> Nat]
            BY <1>3, <2>1
        <3> HIDE DEF h
        <3>2. SumFunction(h) \in Nat
            BY <1>3, <3>1, SumIsNat
        <3>3. QED
            BY <3>2 DEF h
    <2>9. \A i \in Ident : [d \in own |-> f[d][i]] = [d \in own |-> x.joint[d][i][c]]
        OBVIOUS
    <2>10. cols = [i \in Ident |-> SumFunction([d \in own |-> x.joint[d][i][c]])]
        <3> HIDE DEF f
        <3>1. QED
            BY <2>9
    <2> HIDE DEF rows, cols
    <2>11. QED
        BY <2>3, <2>7, <2>8, <2>10
<1>6. acc = [i \in Ident |-> [c \in Class |-> SumFunction([d \in own |-> x.joint[d][i][c]])]]
    BY DEF AccrueJoint, OverDays
<1>7. tiles = [c \in Class |-> SumFunction([d \in whole |-> s.cats[d][c]])]
    BY DEF PartitionedClassTotals, OverDays
<1> HIDE DEF whole, s
<1>8. acc \in [Ident -> [Class -> Nat]] /\ tiles \in [Class -> Nat]
    <2>1. \A i \in Ident : \A c \in Class : SumFunction([d \in own |-> x.joint[d][i][c]]) \in Nat
        BY <1>5
    <2>2. acc \in [Ident -> [Class -> Nat]]
        <3> HIDE DEF acc
        <3>1. QED
            BY <1>6, <2>1
    <2>3. \A c \in Class : SumFunction([d \in whole |-> s.cats[d][c]]) \in Nat
        BY <1>5
    <2>4. tiles \in [Class -> Nat]
        <3> HIDE DEF tiles
        <3>1. QED
            BY <1>7, <2>3
    <2>5. QED
        BY <2>2, <2>4
<1>9. ASSUME NEW c \in Class PROVE SumFunction([i \in Ident |-> acc[i][c]]) <= tiles[c]
    <2>1. [i \in Ident |-> acc[i][c]] = [i \in Ident |-> SumFunction([d \in own |-> x.joint[d][i][c]])]
        BY <1>6
    <2>2. tiles[c] = SumFunction([d \in whole |-> s.cats[d][c]])
        BY <1>7
    <2> HIDE DEF acc, tiles
    <2>3. QED
        BY <1>5, <2>1, <2>2
<1> HIDE DEF acc, tiles
<1>10. QED
    BY <1>8, <1>9 DEF acc, tiles, s

(* The members' lifetime figures never add up past the class tiles beside  *)
(* them, over a record of its own or after the tool's roll-up.             *)
LEMMA LifetimeWithin ==
    ASSUME NEW x, IndexOK(x), NEW m, MergeOK(x, m), IsCache(cache), AdmittedLifetimeUsage(cache)
    PROVE  /\ Section(x, m).members \in [Ident -> [Class -> Nat]]
           /\ Section(x, m).tiles \in [Class -> Nat]
           /\ \A c \in Class : SumFunction([i \in Ident |-> Section(x, m).members[i][c]]) <= Section(x, m).tiles[c]
<1> DEFINE s == m.series
           members == Section(x, m).members
           tiles == Section(x, m).tiles
<1>1. members = (IF cache.rows = <<>> THEN AccrueJoint(x, m.owned) ELSE AccrueModelStats(x, cache, m.owned))
      /\ tiles = (IF cache.rows = <<>> THEN WalkedStats(s) ELSE AccrueAfterCache(cache, s))
    BY DEF Section, LifetimeMembers
<1> HIDE DEF members, tiles
<1>2. m.owned \subseteq Window(s) /\ m.owned \subseteq s.whole
    BY DEF MergeOK, SeriesOK
<1>3. CASE cache.rows = <<>>
    <2> DEFINE days == Window(s)
               own == m.owned
    <2>1. days \subseteq Window(s) /\ own \subseteq m.owned /\ own \subseteq days
        BY <1>2
    <2>2. members = AccrueJoint(x, own) /\ tiles = PartitionedClassTotals(s, days)
        BY <1>1, <1>3 DEF WalkedStats
    <2> HIDE DEF days, own
    <2>3. /\ AccrueJoint(x, own) \in [Ident -> [Class -> Nat]]
          /\ PartitionedClassTotals(s, days) \in [Class -> Nat]
          /\ \A c \in Class : SumFunction([i \in Ident |-> AccrueJoint(x, own)[i][c]]) <= PartitionedClassTotals(s, days)[c]
        BY <2>1, AccruedWithin
    <2>4. QED
        BY <2>2, <2>3 DEF members, tiles
<1>4. CASE cache.rows # <<>>
    <2> DEFINE days == AfterCache(cache, Window(s))
               own == AfterCache(cache, m.owned)
               acc == AccrueJoint(x, own)
               after == PartitionedClassTotals(s, days)
               usage == cache.usage
               life == LifetimeStats(cache)
    <2>1. days \subseteq Window(s) /\ own \subseteq m.owned /\ own \subseteq days
        BY <1>2 DEF AfterCache
    <2>2. /\ members = [i \in Ident |-> [c \in Class |-> usage[i][c] + acc[i][c]]]
          /\ tiles = [c \in Class |-> life[c] + after[c]]
        BY <1>1, <1>4 DEF AccrueModelStats, AccrueAfterCache
    <2>3. usage \in [Ident -> [Class -> Nat]]
        BY <1>4 DEF IsCache, AdmittedLifetimeUsage
    <2>4. life = [c \in Class |-> SumFunction([i \in Ident |-> usage[i][c]])]
        BY DEF LifetimeStats
    <2> HIDE DEF days, own
    <2>5. /\ acc \in [Ident -> [Class -> Nat]] /\ after \in [Class -> Nat]
          /\ \A c \in Class : SumFunction([i \in Ident |-> acc[i][c]]) <= after[c]
        BY <2>1, AccruedWithin
    <2> HIDE DEF acc, after, usage, life
    <2>6. ASSUME NEW c \in Class
          PROVE  /\ life[c] \in Nat
                 /\ SumFunction([i \in Ident |-> usage[i][c] + acc[i][c]]) <= life[c] + after[c]
        <3> DEFINE f == [i \in Ident |-> usage[i][c]]
                   g == [i \in Ident |-> acc[i][c]]
        <3>1. f \in [Ident -> Nat] /\ g \in [Ident -> Nat]
            BY <2>3, <2>5
        <3>2. life[c] = SumFunction(f) /\ SumFunction(g) <= after[c] /\ after[c] \in Nat
            BY <2>4, <2>5
        <3>3. [i \in Ident |-> usage[i][c] + acc[i][c]] = [i \in Ident |-> f[i] + g[i]]
            OBVIOUS
        <3> HIDE DEF f, g
        <3>4. SumFunction([i \in Ident |-> f[i] + g[i]]) = SumFunction(f) + SumFunction(g)
            <4>1. f \in [Ident -> Int] /\ g \in [Ident -> Int]
                BY <3>1
            <4>2. QED
                BY <4>1, IdentIsFinite, SumAdds
        <3>5. SumFunction(f) \in Nat /\ SumFunction(g) \in Nat
            BY <3>1, IdentIsFinite, SumIsNat
        <3>6. QED
            BY <3>2, <3>3, <3>4, <3>5
    <2>7. members \in [Ident -> [Class -> Nat]] /\ tiles \in [Class -> Nat]
        <3>1. \A i \in Ident : \A c \in Class : usage[i][c] + acc[i][c] \in Nat
            BY <2>3, <2>5
        <3>2. \A c \in Class : life[c] + after[c] \in Nat
            <4>1. \A c \in Class : life[c] \in Nat
                BY <2>6
            <4>2. \A c \in Class : after[c] \in Nat
                BY <2>5
            <4>3. QED
                BY <4>1, <4>2
        <3>3. QED
            BY <2>2, <3>1, <3>2
    <2>8. ASSUME NEW c \in Class PROVE SumFunction([i \in Ident |-> members[i][c]]) <= tiles[c]
        <3>1. [i \in Ident |-> members[i][c]] = [i \in Ident |-> usage[i][c] + acc[i][c]]
            BY <2>2
        <3>2. tiles[c] = life[c] + after[c]
            BY <2>2
        <3>3. QED
            BY <2>6, <3>1, <3>2
    <2>9. QED
        BY <2>7, <2>8 DEF members, tiles
<1>5. QED
    BY <1>3, <1>4

(* No proof a run makes of its own output refuses what it computed: it may *)
(* only have no span or no split to serve.                                 *)
LEMMA OutcomeIs ==
    ASSUME NEW x, IndexOK(x), NEW m, MergeOK(x, m), IsCache(cache), AdmittedLifetimeUsage(cache)
    PROVE  Outcome(x, m, Section(x, m)) \in {"no-span", "no-split", "none"}
<1> DEFINE s == m.series
           sec == Section(x, m)
           split == TrailingRun(s, s.whole)
<1>1. SeriesOK(s) /\ m.owned \subseteq Day
    BY DEF MergeOK, SeriesOK
<1>2. JointRefines(x, s.cats, m.ids, LedgerDays(m.owned))
    BY JointStands
<1>3. sec.members \in [Ident -> [Class -> Nat]] /\ sec.tiles \in [Class -> Nat]
    BY LifetimeWithin
<1>4. /\ sec.total = s.total /\ sec.cats = s.cats /\ sec.ids = s.ids /\ sec.days = Window(s)
      /\ sec.catDays = split /\ sec.modelDays = ModelDays(s)
      /\ sec.longest = LongestSession(cache, x.sessions)
    BY DEF Section
<1>5. sec.longest \in Nat \cup {NoLongest}
    BY <1>4, LongestIs DEF IndexOK
<1> HIDE DEF sec
<1>6. AssertLedgerBlock(LedgerBlock(x, m.owned, sec.members))
    BY <1>1, <1>3, LedgerBlockStands
<1>7. \A d \in split : SumParts(s.cats[d]) = s.total[d]
    BY <1>1, SplitIsPartition
<1>8. ASSUME sec.longest # NoLongest PROVE AssertEmission(sec)
    <2>1. sec.catDays \cup sec.modelDays \subseteq sec.days
        BY <1>4 DEF TrailingRun, ModelDays
    <2>2. \A d \in sec.days : sec.total[d] >= 0 /\ LedgerCounts(sec.cats[d]) /\ LedgerCounts(sec.ids[d])
        <3> SUFFICES ASSUME NEW d \in sec.days
                     PROVE  sec.total[d] >= 0 /\ LedgerCounts(sec.cats[d]) /\ LedgerCounts(sec.ids[d])
            OBVIOUS
        <3>1. d \in Day
            <4> HIDE DEF s
            <4>1. QED
                BY <1>1, <1>4, WindowIs
        <3>2. s.total[d] \in Nat /\ s.cats[d] \in [Class -> Nat] /\ s.ids[d] \in [Ident -> Nat]
            BY <1>1, <3>1 DEF SeriesOK
        <3>3. QED
            BY <1>4, <3>2 DEF LedgerCounts
    <2>3. LedgerCounts(sec.tiles) /\ \A i \in Ident : LedgerCounts(sec.members[i])
        BY <1>3 DEF LedgerCounts
    <2>4. sec.longest >= 0
        BY <1>5, <1>8
    <2>5. QED
        BY <2>1, <2>2, <2>3, <2>4 DEF AssertEmission
<1> DEFINE outcome == Outcome(x, m, sec)
<1>9. outcome \in {"no-span", "no-split", "none"}
    BY <1>2, <1>6, <1>7, <1>8 DEF Outcome, Partitions
<1> HIDE DEF outcome
<1>10. QED
    BY <1>9 DEF outcome, sec

(* Every run in flight stays consistent with what it walked. *)
LEMMA RunsStayConsistent ==
    ASSUME TypeOK, [Next]_vars, StoreOK, RunsOK
    PROVE  RunsOK'
<1>1. run = [q \in Run |-> run[q]] /\ \A q \in Run : Carries(run[q])
    BY DEF TypeOK, Carries
<1>2. cache' = cache
    BY FormatStands
<1>3. ASSUME NEW r \in Run PROVE RunOK(cache, run'[r])
    <2>1. IndexOK(run[r].index) /\ RunOK(cache, run[r])
        BY DEF RunsOK, RunOK
    <2>2. CASE ReadFile(r)
        <3>1. PICK item \in run[r].todo : run' = [run EXCEPT ![r] =
                IF ~Opens(item) THEN [run[r] EXCEPT !.todo = run[r].todo \ {item}]
                ELSE IF TailOf(item) = <<>> THEN Walked(r, item)
                ELSE [Walked(r, item) EXCEPT !.pc = "keep", !.tail = TailOf(item),
                                             !.file = item.file, !.gen = item.gen]]
            BY <2>2 DEF ReadFile
        <3> DEFINE skipped == [run[r] EXCEPT !.todo = run[r].todo \ {item}]
                   walked == Walked(r, item)
                   keeping == [walked EXCEPT !.pc = "keep", !.tail = TailOf(item), !.file = item.file, !.gen = item.gen]
        <3>2. run[r].pc = "walk"
            BY <2>2 DEF ReadFile
        <3>3. Carries(walked) /\ walked.pc = "walk" /\ IndexOK(walked.index)
            BY <2>1, <3>2, WalkedIs, WalkedKeepsIndex
        <3>4. skipped.index = run[r].index /\ skipped.pc = "walk"
            BY <1>1, <3>2 DEF Carries, InFlight
        <3> HIDE DEF walked
        <3>5. keeping.index = walked.index /\ keeping.pc = "keep"
            BY <3>3 DEF Carries, InFlight
        <3>6. run'[r] \in {skipped, walked, keeping}
            BY <1>1, <3>1 DEF walked
        <3> HIDE DEF skipped, keeping
        <3>7. run'[r].pc # "merge" /\ IndexOK(run'[r].index)
            BY <2>1, <3>3, <3>4, <3>5, <3>6
        <3>8. QED
            BY <3>7 DEF RunOK
    <2>3. CASE ReadStore(r)
        <3> DEFINE m == Merge(run[r])
                   w == [run[r] EXCEPT !.pc = "merge", !.merge = m]
        <3>1. run' = [run EXCEPT ![r].pc = "merge", ![r].merge = m]
            BY <2>3 DEF ReadStore
        <3>2. AdmittedLifetimeUsage(cache) /\ run[r].index.days # {}
            BY <2>3 DEF ReadStore, Measured
        <3>3. MergeOK(run[r].index, m)
            <4>1. IsCache(cache) /\ readings \in [Day -> Nat]
                BY CaptureAssumption DEF TypeOK
            <4>2. QED
                BY <2>1, <3>2, <4>1, MergeIsConsistent DEF StoreOK
        <3> HIDE DEF m
        <3>4. run'[r] = w
            BY <1>1, <3>1
        <3>5. w.index = run[r].index /\ w.merge = m
            BY <1>1 DEF Carries, InFlight
        <3> HIDE DEF w
        <3>6. QED
            BY <2>1, <3>2, <3>3, <3>4, <3>5 DEF RunOK
    <2>4. CASE ~ ReadFile(r) /\ ~ ReadStore(r)
        <3>1. Stands(r)
            BY <2>4, CountsStand
        <3>2. IndexOK(run'[r].index)
            BY <2>1, <3>1, EmptyIndexIs DEF Stands
        <3>3. run'[r].pc = "merge" => run'[r] = run[r]
            BY <2>4, <3>1 DEF Stands
        <3>4. QED
            BY <2>1, <3>2, <3>3 DEF RunOK
    <2>5. QED
        BY <2>2, <2>3, <2>4
<1>4. QED
    BY <1>2, <1>3 DEF RunsOK

(* Only a run's last step writes the store or a document. *)
LEMMA OnlyFinishWrites ==
    ASSUME [Next]_vars, \A r \in Run : ~ Finish(r)
    PROVE  UNCHANGED <<store, served, failed>>
BY DEF Next, vars, RunStep, ToolCreates, ToolAppends, ToolPrunes, ToolStep, OwnerReads, Start, ReadFile, Keep,
       NothingFound, ReadStore, StopBetween, StopInAppend, Crashes

(* A run's last step stores what the reader admits, and refuses nothing it *)
(* computed.                                                               *)
LEMMA FinishStands ==
    ASSUME TypeOK, OutputInv, NEW r \in Run, Finish(r)
    PROVE  StoreOK' /\ NoSelfRefusal'
<1> DEFINE x == run[r].index
           m == run[r].merge
           sec == Section(x, m)
           outcome == Outcome(x, m, sec)
<1>1. IndexOK(x) /\ AdmittedLifetimeUsage(cache) /\ MergeOK(x, m)
    BY DEF OutputInv, RunsOK, RunOK, Finish
<1>2. IsCache(cache)
    BY CaptureAssumption DEF TypeOK
<1>3. \/ failed' = "reading" /\ UNCHANGED <<store, served>>
      \/ failed' = "store" /\ ~ Admitted(m.entries)
      \/ store' = m.entries /\ failed' = outcome /\ served' \in {sec, served}
    BY DEF Finish
<1> HIDE DEF x, m
<1>4. \A d \in Day : EntryOK(m.entries[d])
    BY <1>1 DEF MergeOK
<1>5. Admitted(m.entries)
    BY <1>4, EntryIsAdmitted DEF Admitted
<1>6. outcome \in {"no-span", "no-split", "none"}
    BY <1>1, <1>2, OutcomeIs
<1>7. \A c \in Class : SumFunction([i \in Ident |-> sec.members[i][c]]) <= sec.tiles[c]
    BY <1>1, <1>2, LifetimeWithin
<1> HIDE DEF sec, outcome
<1>8. \A c \in Class : SumFunction([i \in Ident |-> served.members[i][c]]) <= served.tiles[c]
    BY DEF OutputInv, NoSelfRefusal
<1>9. failed' \in {"reading", "no-span", "no-split", "none"} /\ served' \in {sec, served}
      /\ (store' = store \/ store' = m.entries)
    BY <1>3, <1>5, <1>6
<1>10. StoreOK'
    BY <1>4, <1>9 DEF OutputInv, StoreOK
<1>11. \A c \in Class : SumFunction([i \in Ident |-> served'.members[i][c]]) <= served'.tiles[c]
    BY <1>7, <1>8, <1>9
<1>12. QED
    BY <1>9, <1>10, <1>11 DEF NoSelfRefusal

(* Whatever a tool writes, replays and prunes, whatever the store and the  *)
(* owner's readings say of a day, and however runs interleave and stop, no *)
(* run refuses its own output after the store was written: the joint       *)
(* refines the splits served, every breakdown is a partition of its        *)
(* window, the ledger block and the store pass their own guards; and the   *)
(* members' lifetime figures never add up past the class tiles beside      *)
(* them (assert_joint_marginals, assert_partition, assert_ledger_block,    *)
(* assert_only_dates_and_integers, write_history_store, capture).          *)
THEOREM NoRunRefusesItself == Spec => []NoSelfRefusal
<1>1. Init => OutputInv
    <2> SUFFICES ASSUME Init PROVE OutputInv
        OBVIOUS
    <2>1. StoreOK
        BY BareEntryIs DEF Init, StoreOK
    <2>2. RunsOK
        <3>1. Idle.index = EmptyIndex /\ Idle.pc = "off"
            BY DEF Idle
        <3>2. RunOK(cache, Idle)
            BY <3>1, EmptyIndexIs DEF RunOK
        <3>3. \A r \in Run : run[r] = Idle
            BY DEF Init
        <3>4. QED
            BY <3>2, <3>3 DEF RunsOK
    <2>3. NoSelfRefusal
        <3>1. served = NoSection /\ failed = "none"
            BY DEF Init
        <3>2. NoSection.members = [i \in Ident |-> NoClasses] /\ NoSection.tiles = NoClasses
            BY DEF NoSection
        <3>3. ASSUME NEW c \in Class
              PROVE  SumFunction([i \in Ident |-> NoSection.members[i][c]]) <= NoSection.tiles[c]
            <4>1. [i \in Ident |-> NoSection.members[i][c]] = [i \in Ident |-> 0] /\ NoSection.tiles[c] = 0
                BY <3>2 DEF NoClasses
            <4>2. SumFunction([i \in Ident |-> 0]) = 0
                BY IdentIsFinite, SumOfZeros
            <4>3. QED
                BY <4>1, <4>2
        <3>4. QED
            BY <3>1, <3>3 DEF NoSelfRefusal
    <2>4. QED
        BY <2>1, <2>2, <2>3 DEF OutputInv
<1>2. ASSUME CaptureInv, OutputInv, [Next]_vars PROVE OutputInv'
    <2>1. TypeOK
        BY <1>2 DEF CaptureInv
    <2>2. RunsOK'
        BY <1>2, <2>1, RunsStayConsistent DEF OutputInv
    <2>3. ASSUME NEW r \in Run, Finish(r) PROVE StoreOK' /\ NoSelfRefusal'
        BY <1>2, <2>1, <2>3, FinishStands
    <2>4. ASSUME \A r \in Run : ~ Finish(r) PROVE StoreOK' /\ NoSelfRefusal'
        <3>1. UNCHANGED <<store, served, failed>>
            BY <1>2, <2>4, OnlyFinishWrites
        <3>2. QED
            BY <1>2, <3>1 DEF OutputInv, StoreOK, NoSelfRefusal
    <2>5. QED
        BY <2>2, <2>3, <2>4 DEF OutputInv
<1>3. OutputInv => NoSelfRefusal
    BY DEF OutputInv
<1>4. QED
    BY <1>1, <1>2, <1>3, CaptureInvariant, PTL DEF Spec
=============================================================================
