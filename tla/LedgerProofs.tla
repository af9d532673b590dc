---------------------------- MODULE LedgerProofs ----------------------------
(***************************************************************************)
(* Proofs about Ledger, for every set of instances, figures and bounds on  *)
(* the time and the faults: what was appended and synced stays in its      *)
(* stream and on the disk, and a line that is no row is only ever a last   *)
(* one (LedgerInv); the readings of a session stand in order (OrderInv),   *)
(* so what the record says of a figure never drops and what it says of a   *)
(* session is the last reading taken.                                      *)
(***************************************************************************)
EXTENDS Ledger, FoldLemmas, SequenceTheorems, TLAPS

----------------------------------------------------------------------------
(* Lines. *)

(* A row is a line of a stream, a cut or a glued line is no row. *)
LEMMA Lines ==
    /\ \A l \in RowSet : IsRow(l) /\ l # Cut /\ l \in Line
    /\ \A l \in Line : IsRow(l) <=> l \in RowSet
    /\ ~IsRow(Cut) /\ ~IsRow(Glued) /\ Cut # Glued /\ Cut \in Line
BY DEF RowSet, IsRow, Cut, Glued, Line

(* The rows of a stream are its lines that are rows. *)
LEMMA RowsAreOfLines ==
    ASSUME NEW f \in Seq(Line)
    PROVE  /\ Rows(f) \subseteq RowSet
           /\ \A x : x \in Rows(f) <=> \E i \in 1 .. Len(f) : x = f[i] /\ IsRow(f[i])
<1>1. DOMAIN f = 1 .. Len(f) /\ \A i \in 1 .. Len(f) : f[i] \in Line
    BY LenProperties, ElementOfSeq
<1>2. QED
    BY <1>1, Lines DEF Rows

(* Rows alone are damaged nowhere. *)
LEMMA RowsAlone ==
    ASSUME NEW f \in Seq(RowSet)
    PROVE  f \in Seq(Line) /\ OnlyATailIsDamaged(f) /\ ~Partial(f) /\ Rows(f) \subseteq RowSet
<1>1. f \in Seq(Line)
    BY Lines, SeqMonotonic
<1>2. DOMAIN f = 1 .. Len(f) /\ (\A i \in 1 .. Len(f) : f[i] \in RowSet) /\ Len(f) \in Nat
    BY LenProperties, ElementOfSeq
<1>3. f # <<>> => Len(f) \in 1 .. Len(f)
    BY <1>2, EmptySeq
<1>4. QED
    BY <1>1, <1>2, <1>3, Lines, RowsAreOfLines DEF OnlyATailIsDamaged, Partial

(* The whole lines of a stream are its rows. *)
LEMMA WholeLinesAreRows ==
    ASSUME NEW f \in Seq(Line), OnlyATailIsDamaged(f)
    PROVE  /\ Len(f) \in Nat /\ DOMAIN f = 1 .. Len(f)
           /\ Len(WholeLines(f)) = IF Partial(f) THEN Len(f) - 1 ELSE Len(f)
           /\ Partial(f) => Len(f) > 0
           /\ \A i \in 1 .. Len(f) : f[i] \in Line /\ (IsRow(f[i]) <=> i <= Len(WholeLines(f)))
           /\ \A i \in 1 .. Len(f) : ~IsRow(f[i]) => f[i] = Cut /\ i = Len(f)
<1>1. Len(f) \in Nat /\ DOMAIN f = 1 .. Len(f) /\ \A i \in 1 .. Len(f) : f[i] \in Line
    BY LenProperties, ElementOfSeq
<1>2. f # <<>> => Len(f) > 0
    BY EmptySeq
<1>3. Partial(f) => Len(f) > 0 /\ f[Len(f)] = Cut
    BY <1>2 DEF Partial
<1>4. Len(WholeLines(f)) = IF Partial(f) THEN Len(f) - 1 ELSE Len(f)
    <2>1. CASE Partial(f)
        <3>1. \A i \in 1 .. Len(f) - 1 : f[i] \in Line
            BY <1>1
        <3>2. Len(SubSeq(f, 1, Len(f) - 1)) = Len(f) - 1
            BY <1>1, <1>3, <2>1, <3>1, SubSeqProperties
        <3>3. QED
            BY <2>1, <3>2 DEF WholeLines, Front
    <2>2. QED
        BY <2>1 DEF WholeLines
<1>5. \A i \in 1 .. Len(f) : ~IsRow(f[i]) => f[i] = Cut /\ i = Len(f)
    BY <1>1 DEF OnlyATailIsDamaged
<1>6. ~Partial(f) => \A i \in 1 .. Len(f) : IsRow(f[i])
    <2>1. ASSUME NEW i \in 1 .. Len(f), ~IsRow(f[i]) PROVE Partial(f)
        <3>1. f # <<>>
            BY <1>1, <2>1, EmptySeq
        <3>2. QED
            BY <1>5, <2>1, <3>1 DEF Partial
    <2>2. QED
        BY <2>1
<1>7. \A i \in 1 .. Len(f) : IsRow(f[i]) <=> i <= Len(WholeLines(f))
    <2>1. CASE Partial(f)
        <3>1. ~IsRow(f[Len(f)]) /\ Len(f) > 0 /\ Len(WholeLines(f)) = Len(f) - 1
            BY <1>3, <1>4, <2>1, Lines
        <3>2. \A i \in 1 .. Len(f) : ~IsRow(f[i]) => i = Len(f)
            BY <1>5
        <3>3. ASSUME NEW i \in 1 .. Len(f) PROVE IsRow(f[i]) <=> i <= Len(f) - 1
            <4>1. Len(f) \in Nat /\ i \in Nat /\ i <= Len(f)
                BY <1>1
            <4>2. CASE i = Len(f)
                BY <3>1, <4>1, <4>2
            <4>3. CASE i # Len(f)
                <5>1. i <= Len(f) - 1
                    BY <4>1, <4>3
                <5>2. QED
                    BY <3>2, <4>3, <5>1
            <4>4. QED
                BY <4>2, <4>3
        <3>4. QED
            BY <3>1, <3>3
    <2>2. CASE ~Partial(f)
        BY <1>1, <1>4, <1>6, <2>2
    <2>3. QED
        BY <2>1, <2>2
<1>8. QED
    BY <1>1, <1>3, <1>4, <1>5, <1>7

(* An append to whole lines keeps what was safe, and is as damaged as what *)
(* was appended.                                                           *)
LEMMA AppendKeeps ==
    ASSUME NEW f \in Seq(Line), NEW more \in Seq(Line), more # <<>>,
           OnlyATailIsDamaged(f), ~Partial(f), OnlyATailIsDamaged(more)
    PROVE  /\ Extend(f, more) \in Seq(Line)
           /\ Partial(Extend(f, more)) <=> Partial(more)
           /\ Rows(f) \subseteq Rows(Extend(f, more)) /\ Rows(more) \subseteq Rows(Extend(f, more))
           /\ \A a, d : Safe(a, d, f) => Safe(a, d, Extend(f, more))
<1> DEFINE g == f \o more
<1>1. Extend(f, more) = g
    BY DEF Extend
<1>2. /\ g \in Seq(Line) /\ Len(g) = Len(f) + Len(more) /\ Len(f) \in Nat /\ Len(more) \in Nat
      /\ DOMAIN g = 1 .. Len(g) /\ DOMAIN f = 1 .. Len(f) /\ DOMAIN more = 1 .. Len(more)
      /\ Len(more) > 0
    BY ConcatProperties, LenProperties, EmptySeq
<1>3. /\ \A i \in 1 .. Len(f) : i \in 1 .. Len(g) /\ g[i] = f[i]
      /\ \A i \in 1 .. Len(more) : Len(f) + i \in 1 .. Len(g) /\ g[Len(f) + i] = more[i]
      /\ \A i \in 1 .. Len(g) : i \in 1 .. Len(f) \/ (i - Len(f) \in 1 .. Len(more) /\ g[i] = more[i - Len(f)])
    BY <1>2, ConcatProperties
<1> HIDE DEF g
<1>4. \A i \in 1 .. Len(f) : IsRow(f[i])
    BY WholeLinesAreRows
<1>5. Partial(g) <=> Partial(more)
    <2>1. g # <<>> /\ g[Len(g)] = more[Len(more)]
        BY <1>2, <1>3, EmptySeq
    <2>2. QED
        BY <2>1 DEF Partial
<1>6. Rows(f) \subseteq Rows(g)
    BY <1>2, <1>3, RowsAreOfLines
<1>7. Rows(more) \subseteq Rows(g)
    <2>1. ASSUME NEW x, x \in Rows(more) PROVE x \in Rows(g)
        <3>1. PICK i \in 1 .. Len(more) : x = more[i] /\ IsRow(more[i])
            BY <2>1, RowsAreOfLines
        <3>2. Len(f) + i \in 1 .. Len(g) /\ g[Len(f) + i] = x
            BY <1>3, <3>1
        <3>3. QED
            BY <1>2, <3>1, <3>2, RowsAreOfLines
    <2>2. QED
        BY <2>1
<1>8. OnlyATailIsDamaged(g)
    <2>1. ASSUME NEW i \in 1 .. Len(g), ~IsRow(g[i]) PROVE i = Len(g) /\ g[i] = Cut
        <3>1. i \notin 1 .. Len(f)
            BY <1>3, <1>4, <2>1
        <3>2. i - Len(f) \in 1 .. Len(more) /\ g[i] = more[i - Len(f)]
            BY <1>3, <2>1, <3>1
        <3>3. i - Len(f) = Len(more) /\ g[i] = Cut
            BY <1>2, <2>1, <3>2 DEF OnlyATailIsDamaged
        <3>4. QED
            BY <1>2, <2>1, <3>3
    <2>2. QED
        BY <1>2, <2>1 DEF OnlyATailIsDamaged
<1>9. \A a, d : Safe(a, d, f) => Safe(a, d, g)
    BY <1>2, <1>3, <1>8 DEF Safe
<1>10. QED
    BY <1>1, <1>2, <1>5, <1>6, <1>7, <1>9

(* What is left without the last line of a cut stream is whole, and holds  *)
(* all that is on the disk.                                                *)
LEMMA TruncateKeeps ==
    ASSUME NEW f \in Seq(Line), OnlyATailIsDamaged(f), Partial(f)
    PROVE  /\ SubSeq(f, 1, Len(f) - 1) \in Seq(Line) /\ ~Partial(SubSeq(f, 1, Len(f) - 1))
           /\ Rows(SubSeq(f, 1, Len(f) - 1)) = Rows(f)
           /\ \A a, d : d \in Seq(Line) /\ Safe(a, d, f) => Safe(a, d, SubSeq(f, 1, Len(f) - 1))
<1> DEFINE g == SubSeq(f, 1, Len(f) - 1)
<1>1. /\ Len(f) \in Nat /\ Len(f) > 0 /\ DOMAIN f = 1 .. Len(f)
      /\ Len(WholeLines(f)) = Len(f) - 1
      /\ \A i \in 1 .. Len(f) : f[i] \in Line /\ (IsRow(f[i]) <=> i <= Len(f) - 1)
    BY WholeLinesAreRows
<1>2. /\ g \in Seq(Line) /\ Len(g) = Len(f) - 1 /\ \A i \in 1 .. Len(f) - 1 : g[i] = f[i]
    BY <1>1, SubSeqProperties
<1>3. DOMAIN g = 1 .. Len(g)
    BY <1>2, LenProperties
<1> HIDE DEF g
<1>4. ~Partial(g)
    <2>1. g # <<>> => Len(g) \in 1 .. Len(f) - 1
        BY <1>1, <1>2, EmptySeq
    <2>2. QED
        BY <1>1, <1>2, <2>1, Lines DEF Partial
<1>5. Rows(g) = Rows(f)
    <2>1. \A i \in 1 .. Len(f) : IsRow(f[i]) => i \in 1 .. Len(g) /\ g[i] = f[i]
        BY <1>1, <1>2
    <2>2. \A i \in 1 .. Len(g) : i \in 1 .. Len(f) /\ f[i] = g[i]
        BY <1>1, <1>2
    <2>3. Rows(f) \subseteq Rows(g)
        BY <1>2, <2>1, RowsAreOfLines
    <2>4. Rows(g) \subseteq Rows(f)
        BY <1>2, <2>2, RowsAreOfLines
    <2>5. QED
        BY <2>3, <2>4
<1>6. OnlyATailIsDamaged(g)
    BY <1>1, <1>2, <1>3 DEF OnlyATailIsDamaged
<1>7. ASSUME NEW a, NEW d \in Seq(Line), Safe(a, d, f) PROVE Safe(a, d, g)
    <2>1. ASSUME NEW i \in 1 .. Len(WholeLines(d)) PROVE i \in DOMAIN g /\ g[i] = d[i]
        <3>1. i \in 1 .. Len(d) /\ IsRow(d[i])
            BY <1>7, WholeLinesAreRows DEF Safe
        <3>2. i \in 1 .. Len(f) /\ f[i] = d[i]
            BY <1>1, <1>7 DEF Safe
        <3>3. i \in 1 .. Len(f) - 1
            BY <1>1, <3>1, <3>2
        <3>4. QED
            BY <1>2, <1>3, <3>2, <3>3
    <2>2. QED
        BY <1>6, <1>7, <2>1 DEF Safe
<1>8. QED
    BY <1>2, <1>4, <1>5, <1>7 DEF g

(* What the disk has whole, the stream has. *)
LEMMA StreamHoldsDisk ==
    ASSUME NEW a, NEW d \in Seq(Line), NEW f \in Seq(Line), Safe(a, d, f)
    PROVE  Rows(d) \subseteq Rows(f) /\ Len(WholeLines(d)) <= Len(f) /\ Len(WholeLines(d)) \in Nat
<1>1. OnlyATailIsDamaged(d) /\ OnlyATailIsDamaged(f)
    BY DEF Safe
<1>2. Len(WholeLines(d)) \in Nat /\ DOMAIN f = 1 .. Len(f) /\ Len(f) \in Nat /\ Len(WholeLines(d)) <= Len(d)
    BY <1>1, WholeLinesAreRows
<1>3. \A i \in 1 .. Len(d) : IsRow(d[i]) => i \in 1 .. Len(f) /\ f[i] = d[i]
    BY <1>1, <1>2, WholeLinesAreRows DEF Safe
<1>4. Rows(d) \subseteq Rows(f)
    BY <1>3, RowsAreOfLines
<1>5. Len(WholeLines(d)) <= Len(f)
    <2>1. Len(WholeLines(d)) > 0 => Len(WholeLines(d)) \in 1 .. Len(f)
        BY <1>2 DEF Safe
    <2>2. QED
        BY <1>2, <2>1
<1>6. QED
    BY <1>2, <1>4, <1>5

(* A stream that begins with itself is safe, and a synced one is. *)
LEMMA SyncKeeps ==
    ASSUME NEW a, NEW d \in Seq(Line), NEW f \in Seq(Line), Safe(a, d, f),
           NEW b, b \subseteq Rows(f)
    PROVE  Safe(a \cup b, f, f)
<1>1. Rows(d) \subseteq Rows(f) /\ a \subseteq Rows(d) /\ OnlyATailIsDamaged(f)
    BY StreamHoldsDisk DEF Safe
<1>2. \A i \in 1 .. Len(WholeLines(f)) : i \in DOMAIN f
    BY <1>1, WholeLinesAreRows
<1>3. QED
    BY <1>1, <1>2 DEF Safe

(* Whatever a power loss leaves is safe. *)
LEMMA SurvivorsKeep ==
    ASSUME NEW a, NEW d \in Seq(Line), NEW f \in Seq(Line), Safe(a, d, f),
           NEW left \in Survivors(d, f)
    PROVE  left \in Seq(Line) /\ Safe(a, left, left)
<1>1. /\ OnlyATailIsDamaged(d) /\ OnlyATailIsDamaged(f) /\ a \subseteq Rows(d)
      /\ Len(WholeLines(d)) \in Nat /\ Len(WholeLines(d)) <= Len(f)
    BY StreamHoldsDisk DEF Safe
<1>2. /\ Len(f) \in Nat /\ DOMAIN f = 1 .. Len(f)
      /\ \A i \in 1 .. Len(f) : f[i] \in Line /\ (~IsRow(f[i]) => f[i] = Cut /\ i = Len(f))
    BY <1>1, WholeLinesAreRows
<1>3. ASSUME left \in Seq(Line), OnlyATailIsDamaged(left), Rows(d) \subseteq Rows(left)
      PROVE  Safe(a, left, left)
    <2>1. \A i \in 1 .. Len(WholeLines(left)) : i \in DOMAIN left
        BY <1>3, WholeLinesAreRows
    <2>2. QED
        BY <1>1, <1>3, <2>1 DEF Safe
<1>4. CASE left = d
    BY <1>1, <1>3, <1>4
<1>5. ASSUME NEW n \in Len(WholeLines(d)) .. Len(f),
             left = SubSeq(f, 1, n) \/ (n < Len(f) /\ left = SubSeq(f, 1, n) \o <<Cut>>)
      PROVE  left \in Seq(Line) /\ Safe(a, left, left)
    <2> DEFINE g == SubSeq(f, 1, n)
    <2>1. n \in Nat /\ n <= Len(f)
        <3>1. Len(f) \in Nat /\ Len(WholeLines(d)) \in Nat
            BY <1>1, <1>2
        <3>2. QED
            BY <3>1
    <2>a. 1 .. n \subseteq 1 .. Len(f) /\ (n < Len(f) => Len(f) \notin 1 .. n)
        <3>1. Len(f) \in Nat
            BY LenProperties
        <3>2. QED
            BY <2>1, <3>1
    <2>2. g \in Seq(Line) /\ Len(g) = n /\ \A i \in 1 .. n : g[i] = f[i]
        <3>1. \A i \in 1 .. n : f[i] \in Line
            BY <1>2, <2>a
        <3>2. /\ g \in Seq(Line)
              /\ Len(g) = (IF 1 <= n THEN n - 1 + 1 ELSE 0)
              /\ \A i \in 1 .. n - 1 + 1 : g[i] = f[1 + i - 1]
            BY <2>1, <3>1, SubSeqProperties
        <3>3. QED
            BY <2>1, <3>2
    <2>3. DOMAIN g = 1 .. n
        BY <2>2, LenProperties
    <2> HIDE DEF g
    <2>4. OnlyATailIsDamaged(g)
        <3>1. \A i \in 1 .. n : i \in 1 .. Len(f) /\ g[i] = f[i]
            BY <2>a, <2>2
        <3>2. \A i \in 1 .. n : ~IsRow(g[i]) => g[i] = Cut /\ i = Len(f)
            BY <1>2, <3>1
        <3>3. \A i \in 1 .. n : i = Len(f) => i = Len(g)
            BY <2>a, <2>1, <2>2
        <3>4. QED
            BY <2>3, <3>2, <3>3 DEF OnlyATailIsDamaged
    <2>5. Rows(d) \subseteq Rows(g)
        <3>1. \A i \in 1 .. Len(d) : IsRow(d[i]) => i \in 1 .. Len(WholeLines(d)) /\ f[i] = d[i]
            BY <1>1, WholeLinesAreRows DEF Safe
        <3>2. \A i \in 1 .. Len(d) : IsRow(d[i]) => i \in 1 .. Len(g) /\ g[i] = d[i]
            BY <1>1, <2>1, <2>2, <3>1
        <3>3. QED
            BY <2>2, <3>2, RowsAreOfLines
    <2>6. CASE left = g
        BY <1>3, <2>2, <2>4, <2>5, <2>6
    <2>7. CASE n < Len(f) /\ left = g \o <<Cut>>
        <3>1. left = Append(g, Cut)
            BY <2>2, <2>7, Lines, AppendIsConcat
        <3>2. left \in Seq(Line) /\ Len(left) = n + 1 /\ (\A i \in 1 .. n : left[i] = g[i]) /\ left[n + 1] = Cut
            BY <2>2, <3>1, Lines, AppendProperties
        <3>3. DOMAIN left = 1 .. n + 1
            BY <3>2, LenProperties
        <3>4. OnlyATailIsDamaged(left)
            <4>1. \A i \in 1 .. n : i \in 1 .. Len(f) /\ i # Len(f) /\ left[i] = f[i]
                BY <2>a, <2>2, <2>7, <3>2
            <4>2. \A i \in 1 .. n : IsRow(left[i])
                BY <1>2, <4>1
            <4>3. \A i \in 1 .. n + 1 : i \in 1 .. n \/ i = n + 1
                BY <2>1
            <4>4. QED
                BY <3>2, <3>3, <4>2, <4>3 DEF OnlyATailIsDamaged
        <3>5. Rows(g) \subseteq Rows(left)
            BY <2>1, <2>2, <3>2, RowsAreOfLines
        <3>6. QED
            BY <1>3, <2>5, <3>2, <3>4, <3>5
    <2>8. QED
        BY <1>5, <2>6, <2>7 DEF g
<1>6. left = d \/ \E n \in Len(WholeLines(d)) .. Len(f) :
        left = SubSeq(f, 1, n) \/ (n < Len(f) /\ left = SubSeq(f, 1, n) \o <<Cut>>)
    BY DEF Survivors
<1>7. QED
    BY <1>4, <1>5, <1>6, <1>1, <1>3

(* A power loss leaves lines, whether the stream was safe or not. *)
LEMMA SurvivorsAreLines ==
    ASSUME NEW d \in Seq(Line), NEW f \in Seq(Line), NEW left \in Survivors(d, f)
    PROVE  left \in Seq(Line)
<1>1. Len(WholeLines(d)) \in Nat
    <2>1. CASE Partial(d)
        <3>1. Len(d) \in Nat \ {0} /\ \A i \in 1 .. Len(d) - 1 : d[i] \in Line
            BY <2>1, EmptySeq, LenProperties, ElementOfSeq DEF Partial
        <3>2. Front(d) \in Seq(Line)
            BY <3>1, SubSeqProperties DEF Front
        <3>3. QED
            BY <2>1, <3>2, LenProperties DEF WholeLines
    <2>2. QED
        BY <2>1, LenProperties DEF WholeLines
<1>2. ASSUME NEW n \in Len(WholeLines(d)) .. Len(f) PROVE SubSeq(f, 1, n) \in Seq(Line)
    <2>1. Len(f) \in Nat
        BY LenProperties
    <2>2. n \in Nat /\ 1 .. n \subseteq 1 .. Len(f)
        BY <1>1, <2>1
    <2>3. \A i \in 1 .. n : f[i] \in Line
        BY <2>2, ElementOfSeq
    <2>4. QED
        BY <2>2, <2>3, SubSeqProperties
<1>3. <<Cut>> \in Seq(Line)
    BY Lines
<1>4. ASSUME NEW n \in Len(WholeLines(d)) .. Len(f),
             left = SubSeq(f, 1, n) \/ left = SubSeq(f, 1, n) \o <<Cut>>
      PROVE  left \in Seq(Line)
    BY <1>2, <1>3, <1>4, ConcatProperties
<1>5. left = d \/ \E n \in Len(WholeLines(d)) .. Len(f) :
        left = SubSeq(f, 1, n) \/ left = SubSeq(f, 1, n) \o <<Cut>>
    BY DEF Survivors
<1>6. QED
    BY <1>4, <1>5

----------------------------------------------------------------------------
(* Runs. *)

(* While nothing raced, no stream was left cut with two writers under way. *)
LEMMA RacesMeans ==
    ASSUME raced \in BOOLEAN, Races
    PROVE  /\ raced' \in BOOLEAN
           /\ ~raced' => ~raced /\ ((Overlap(run) \/ Overlap(run')) => \A s \in Stream : ~Partial(file'[s]))
BY Zenon DEF Races

(* A run that is under way keeps every other one from being. *)
LEMMA AloneMeans ==
    ASSUME NEW v \in Writer, NEW w \in Writer, v # w, ~Overlap(run), run[w].pc # "off"
    PROVE  run[v].pc = "off"
BY DEF Overlap

(* A writer that is off. *)
LEMMA IdleIsARun == Idle \in Run /\ RunOK(Idle)
BY EmptySeq DEF Idle, Run, RunOK

(* Every writer has a stream to append to. *)
LEMMA PlanIsOfStreams ==
    ASSUME NEW w \in Writer PROVE Plan(w) \in Seq(Stream) /\ Plan(w) # <<>>
<1>1. "sessions" \in Stream /\ "usage" \in Stream /\ "github" \in Stream
    BY DEF Stream
<1>2. <<"sessions", "usage">> \in Seq(Stream) /\ <<"github">> \in Seq(Stream)
    BY <1>1
<1>3. <<"sessions", "usage">> # <<>> /\ <<"github">> # <<>>
    OBVIOUS
<1>4. Plan(w) = <<"sessions", "usage">> \/ Plan(w) = <<"github">>
    BY DEF Plan
<1>5. QED
    BY <1>2, <1>3, <1>4, Zenon

(* A run appends rows. *)
LEMMA NewRowsAreRows ==
    ASSUME NEW w \in Writer, NEW s \in Stream, NEW lines, NEW doc \in Doc
    PROVE  NewRows(w, s, lines, doc) \in Seq(RowSet)
<1>1. \A row \in RowSet : IfNew(lines, row) \in Seq(RowSet)
    BY DEF IfNew
<1>2. /\ SessionRow(doc) \in RowSet /\ StatRow(doc) \in RowSet /\ StoreRow(doc) \in RowSet
      /\ PanelRow(doc) \in RowSet /\ BackfillRow(doc) \in RowSet
    BY DEF SessionRow, StatRow, StoreRow, PanelRow, BackfillRow, Row, RowSet, Doc, World
<1>3. CASE s = "sessions"
    BY <1>1, <1>2, <1>3 DEF NewRows
<1>4. CASE s = "usage"
    <2>1. IfNew(lines, StatRow(doc)) \o IfNew(lines, StoreRow(doc)) \in Seq(RowSet)
        BY <1>1, <1>2, ConcatProperties
    <2>2. QED
        BY <1>4, <2>1 DEF NewRows
<1>5. CASE s = "github"
    BY <1>1, <1>2, <1>5 DEF NewRows
<1>6. QED
    BY <1>3, <1>4, <1>5 DEF Stream

(* A step of one run that writes nothing. *)
LEMMA QuietKeeps ==
    ASSUME LedgerInv, Races, NEW w \in Writer, NEW r \in Run, RunOK(r),
           run' = [run EXCEPT ![w] = r], UNCHANGED <<file, disk, named, acked>>,
           clock' \in Nat, world' \in World,
           ~raced => (r.pc \notin {"off", "done"} => Relies(r, file[Head(r.todo)]))
    PROVE  LedgerInv'
<1>1. TypeOK'
    BY RacesMeans DEF LedgerInv, TypeOK
<1>2. ASSUME ~raced' PROVE /\ \A s \in Stream : Safe(acked[s], disk[s], file[s])'
                           /\ \A v \in Writer : run'[v].pc \notin {"off", "done"} =>
                                Relies(run[v], file[Head(run[v].todo)])'
                           /\ \A s \in Stream : Partial(file'[s]) => ~Overlap(run')
    <2>1. ~raced /\ (Overlap(run') => \A s \in Stream : ~Partial(file'[s]))
        BY <1>2, RacesMeans DEF LedgerInv, TypeOK
    <2>2. \A v \in Writer : run'[v] = IF v = w THEN r ELSE run[v]
        BY DEF LedgerInv, TypeOK
    <2>3. QED
        BY <2>1, <2>2 DEF LedgerInv
<1>3. QED
    BY <1>1, <1>2 DEF LedgerInv

(* A step of one run that writes its stream. *)
LEMMA WriteKeeps ==
    ASSUME LedgerInv, Races, NEW w \in Writer, NEW r \in Run, RunOK(r),
           run' = [run EXCEPT ![w] = r], UNCHANGED <<clock, world, disk, named, acked>>,
           NEW s \in Stream, NEW g \in Seq(Line), file' = [file EXCEPT ![s] = g],
           ~raced' => Safe(acked[s], disk[s], g),
           ~raced' => (r.pc \notin {"off", "done"} => Head(r.todo) = s /\ Relies(r, g)),
           ~raced' => \A v \in Writer \ {w} :
             run[v].pc \notin {"off", "done"} /\ Head(run[v].todo) = s => Relies(run[v], g)
    PROVE  LedgerInv'
<1>1. TypeOK'
    BY RacesMeans DEF LedgerInv, TypeOK
<1>2. ASSUME ~raced' PROVE /\ \A t \in Stream : Safe(acked[t], disk[t], file[t])'
                           /\ \A v \in Writer : run'[v].pc \notin {"off", "done"} =>
                                Relies(run[v], file[Head(run[v].todo)])'
                           /\ \A t \in Stream : Partial(file'[t]) => ~Overlap(run')
    <2>1. ~raced /\ (Overlap(run') => \A t \in Stream : ~Partial(file'[t]))
        BY <1>2, RacesMeans DEF LedgerInv, TypeOK
    <2>2. \A v \in Writer : run'[v] = IF v = w THEN r ELSE run[v]
        BY DEF LedgerInv, TypeOK
    <2>3. \A t \in Stream : file'[t] = IF t = s THEN g ELSE file[t]
        BY DEF LedgerInv, TypeOK
    <2>4. \A t \in Stream : Safe(acked[t], disk[t], file[t])'
        BY <1>2, <2>1, <2>3 DEF LedgerInv
    <2>5. ASSUME NEW v \in Writer, run'[v].pc \notin {"off", "done"}
          PROVE  Relies(run'[v], file'[Head(run'[v].todo)])
        <3>1. CASE v = w
            BY <1>2, <2>2, <2>3, <2>5, <3>1
        <3>2. CASE v # w
            <4>1. run[v].todo \in Seq(Stream) /\ run[v].todo # <<>>
                BY <2>2, <2>5, <3>2 DEF LedgerInv, TypeOK, Run, RunOK
            <4>2. Head(run[v].todo) \in Stream
                BY <4>1, HeadTailProperties
            <4>3. QED
                BY <1>2, <2>1, <2>2, <2>3, <2>5, <3>2, <4>2 DEF LedgerInv
        <3>3. QED
            BY <3>1, <3>2
    <2>6. QED
        BY <2>1, <2>4, <2>5
<1>3. QED
    BY <1>1, <1>2 DEF LedgerInv

(* What a run that is under way over a stream has to work with. *)
LEMMA UnderWay ==
    ASSUME LedgerInv, NEW w \in Writer, run[w].pc \notin {"off", "done"}
    PROVE  /\ run[w] \in Run /\ RunOK(run[w]) /\ run[w].doc \in Doc
           /\ Current(w) \in Stream /\ Tail(run[w].todo) \in Seq(Stream)
           /\ Len(run[w].todo) # 1 => Tail(run[w].todo) # <<>>
           /\ file[Current(w)] \in Seq(Line) /\ disk[Current(w)] \in Seq(Line)
           /\ acked[Current(w)] \subseteq RowSet
           /\ ~raced => /\ Relies(run[w], file[Current(w)])
                        /\ Safe(acked[Current(w)], disk[Current(w)], file[Current(w)])
                        /\ OnlyATailIsDamaged(file[Current(w)])
<1>1. run[w] \in Run /\ RunOK(run[w]) /\ run[w].todo \in Seq(Stream) /\ run[w].todo # <<>> /\ run[w].doc \in Doc
    BY DEF LedgerInv, TypeOK, Run, RunOK
<1>2. /\ Head(run[w].todo) \in Stream /\ Tail(run[w].todo) \in Seq(Stream)
      /\ Len(run[w].todo) # 1 => Tail(run[w].todo) # <<>>
    <2>1. Len(run[w].todo) \in Nat /\ Len(Tail(run[w].todo)) = Len(run[w].todo) - 1
        BY <1>1, HeadTailProperties, LenProperties
    <2>2. Tail(run[w].todo) = <<>> => Len(run[w].todo) = 1
        <3>1. Len(<<>>) = 0
            OBVIOUS
        <3>2. Tail(run[w].todo) = <<>> => Len(Tail(run[w].todo)) = 0
            BY <3>1
        <3>3. QED
            BY <2>1, <3>2
    <2>3. QED
        BY <1>1, <2>2, HeadTailProperties
<1>3. QED
    BY <1>1, <1>2 DEF LedgerInv, TypeOK, Current, Safe

(* After one stream the next, or the end. *)
LEMMA AdvanceIs ==
    ASSUME LedgerInv, NEW w \in Writer, run[w].pc \notin {"off", "done"}, Advance(w)
    PROVE  \E r \in Run : RunOK(r) /\ run' = [run EXCEPT ![w] = r] /\ r.pc \in {"repair", "done"}
<1> DEFINE r == [run[w] EXCEPT !.todo = Tail(run[w].todo), !.lines = <<>>, !.seen = 0,
                               !.pc = IF Len(run[w].todo) = 1 THEN "done" ELSE "repair"]
<1>1. run' = [run EXCEPT ![w] = r]
    BY DEF Advance
<1>2. r \in Run /\ RunOK(r) /\ r.pc \in {"repair", "done"}
    BY UnderWay, EmptySeq DEF Run, RunOK
<1>3. QED
    BY <1>1, <1>2

----------------------------------------------------------------------------
(* Steps. *)

(* A step that leaves runs and streams alone. *)
LEMMA WorldKeeps ==
    ASSUME LedgerInv, Races, UNCHANGED <<run, file, disk, named, acked>>, clock' \in Nat, world' \in World
    PROVE  LedgerInv'
<1>1. TypeOK'
    BY RacesMeans DEF LedgerInv, TypeOK
<1>2. ~raced' => ~raced
    BY RacesMeans DEF LedgerInv, TypeOK
<1>3. QED
    BY <1>1, <1>2 DEF LedgerInv, Overlap

(* Time passes, or there is something else to measure. *)
LEMMA WorldStepKeeps ==
    ASSUME LedgerInv, Races, Passes \/ WorldMoves
    PROVE  LedgerInv'
<1> USE LedgerAssumption
<1>1. CASE Passes
    BY <1>1, WorldKeeps DEF Passes, LedgerInv, TypeOK
<1>2. CASE WorldMoves
    <2>1. clock \in Nat /\ world \in World /\ \A n \in Figures : n \in Nat
        BY DEF LedgerInv, TypeOK
    <2>2. PICK changed : Moves(changed) /\ changed \in World
        <3>1. [world EXCEPT !.end = clock, !.total = world.total + 1] \in World
            <4>1. \A a, b \in Nat : [world EXCEPT !.end = a, !.total = b] \in World
                BY <2>1 DEF World
            <4>2. world.total + 1 \in Nat
                BY <2>1 DEF World
            <4>3. QED
                BY <2>1, <4>1, <4>2
        <3>2. \A n \in Figures : /\ [world EXCEPT !.usage = n] \in World
                                 /\ [world EXCEPT !.verified = n] \in World
                                 /\ [world EXCEPT !.github = n] \in World
            BY <2>1 DEF World
        <3>3. CASE Moves([world EXCEPT !.end = clock, !.total = world.total + 1])
            BY <3>1, <3>3
        <3>4. ASSUME NEW n \in Figures,
                     \/ Moves([world EXCEPT !.usage = n]) \/ Moves([world EXCEPT !.verified = n])
                     \/ Moves([world EXCEPT !.github = n])
              PROVE  \E changed : Moves(changed) /\ changed \in World
            BY <3>2, <3>4
        <3>5. \/ Moves([world EXCEPT !.end = clock, !.total = world.total + 1])
              \/ \E n \in Figures : \/ Moves([world EXCEPT !.usage = n])
                                    \/ Moves([world EXCEPT !.verified = n])
                                    \/ Moves([world EXCEPT !.github = n])
            BY <1>2 DEF WorldMoves
        <3>6. QED
            BY <3>3, <3>4, <3>5
    <2>3. QED
        BY <2>1, <2>2, WorldKeeps DEF Moves
<1>3. QED
    BY <1>1, <1>2

(* The steps of a run that write nothing. *)
LEMMA QuietStepKeeps ==
    ASSUME LedgerInv, Races, NEW w \in Writer,
           \/ Start(w) \/ KeepLast(w) \/ Fetch(w) \/ FetchRefused(w) \/ Ask(w) \/ AskRefused(w)
           \/ Repair(w) \/ ReadIndex(w) \/ Finish(w) \/ Stops(w)
    PROVE  LedgerInv'
<1>0. /\ clock \in Nat /\ world \in World /\ run[w] \in Run
      /\ UNCHANGED <<clock, world>> => clock' \in Nat /\ world' \in World
    BY DEF LedgerInv, TypeOK
<1>1. CASE Start(w)
    <2> DEFINE doc == [at |-> clock, world |-> world]
               first == CASE w = "export" -> "keep" [] w = "snapshot" -> "fetch" [] OTHER -> "ask"
               r == [Idle EXCEPT !.doc = doc, !.todo = Plan(w), !.pc = first]
    <2>1. run' = [run EXCEPT ![w] = r] /\ UNCHANGED <<file, disk, named, acked, clock, world>>
        BY <1>1 DEF Start, Keeps
    <2>2. first \in {"keep", "fetch", "ask"}
        BY DEF Writer
    <2>3. doc \in Doc
        BY <1>0 DEF Doc
    <2> HIDE DEF doc, first
    <2>4. r \in Run /\ RunOK(r) /\ r.pc \in {"keep", "fetch", "ask"}
        BY <2>2, <2>3, IdleIsARun, PlanIsOfStreams DEF Run, RunOK
    <2> HIDE DEF r
    <2>5. QED
        BY <1>0, <2>1, <2>4, QuietKeeps DEF Relies
<1>2. CASE \/ FetchRefused(w) \/ KeepLast(w)
    <2>1. PICK to \in {"repair", "done"} : run' = [run EXCEPT ![w] = [run[w] EXCEPT !.pc = to]]
        BY <1>2 DEF FetchRefused, KeepLast, Goes
    <2>2. run[w].pc \notin {"off", "done"} /\ UNCHANGED <<file, disk, named, acked, clock, world>>
        BY <1>2 DEF FetchRefused, KeepLast, At, Keeps
    <2> DEFINE r == [run[w] EXCEPT !.pc = to]
    <2>3. r \in Run /\ RunOK(r) /\ r.pc \in {"repair", "done"}
        BY <2>2, UnderWay DEF Run, RunOK
    <2> HIDE DEF r
    <2>4. QED
        BY <1>0, <2>1, <2>2, <2>3, QuietKeeps DEF r, Relies
<1>3. CASE Fetch(w) \/ Ask(w)
    <2> DEFINE r == [run[w] EXCEPT !.pc = "repair", !.doc.world = world]
    <2>1. run' = [run EXCEPT ![w] = r]
        BY <1>3 DEF Fetch, Ask
    <2>2. run[w].pc \notin {"off", "done"} /\ UNCHANGED <<file, disk, named, acked, clock, world>>
        BY <1>3 DEF Fetch, Ask, At, Keeps
    <2>3. [run[w].doc EXCEPT !.world = world] \in Doc
        BY <1>0, <2>2, UnderWay DEF Doc
    <2>4. r \in Run /\ RunOK(r) /\ r.pc = "repair"
        BY <2>2, <2>3, UnderWay DEF Run, RunOK
    <2> HIDE DEF r
    <2>5. QED
        BY <1>0, <2>1, <2>2, <2>4, QuietKeeps DEF Relies
<1>4. CASE AskRefused(w) \/ Finish(w) \/ Stops(w)
    <2>1. run' = [run EXCEPT ![w] = Idle] /\ UNCHANGED <<file, disk, named, acked, clock, world>>
        BY <1>4 DEF AskRefused, Finish, Stops, End, Keeps, Fault
    <2>2. Idle.pc = "off"
        BY DEF Idle
    <2>3. QED
        BY <1>0, <2>1, <2>2, IdleIsARun, QuietKeeps
<1>5. CASE Repair(w)
    <2> DEFINE lines == file[Current(w)]
               r == [run[w] EXCEPT !.pc = IF Partial(lines) THEN "truncate" ELSE "read",
                                   !.seen = IF Partial(lines) THEN Len(lines) - 1 ELSE 0]
    <2>1. run' = [run EXCEPT ![w] = r] /\ run[w].pc \notin {"off", "done"}
            /\ UNCHANGED <<file, disk, named, acked, clock, world>>
        BY <1>5 DEF Repair, At, Keeps
    <2>2. Partial(lines) => Len(lines) - 1 \in Nat
        BY <2>1, UnderWay, EmptySeq DEF Partial
    <2>3. r \in Run /\ RunOK(r) /\ r.todo = run[w].todo
        BY <2>1, <2>2, UnderWay DEF Run, RunOK
    <2>4. Relies(r, lines)
        BY <1>0 DEF Relies, Run
    <2> HIDE DEF r
    <2>5. QED
        BY <1>0, <2>1, <2>3, <2>4, QuietKeeps DEF Current
<1>6. CASE ReadIndex(w)
    <2>1. run[w].pc = "read" /\ UNCHANGED <<file, disk, named, acked, clock, world>>
        BY <1>6 DEF ReadIndex, At, Keeps
    <2>2. CASE End(w)
        <3>1. Idle.pc = "off"
            BY DEF Idle
        <3>2. QED
            BY <1>0, <2>1, <2>2, <3>1, IdleIsARun, QuietKeeps DEF End
    <2>3. CASE Advance(w)
        <3>1. PICK r \in Run : RunOK(r) /\ run' = [run EXCEPT ![w] = r] /\ r.pc \in {"repair", "done"}
            BY <2>1, <2>3, AdvanceIs
        <3>2. QED
            BY <1>0, <2>1, <3>1, QuietKeeps DEF Relies
    <2> DEFINE new == NewRows(w, Current(w), file[Current(w)], run[w].doc)
               r == [run[w] EXCEPT !.pc = "write", !.lines = new]
    <2>4. CASE new # <<>> /\ run' = [run EXCEPT ![w] = r]
        <3>1. new \in Seq(RowSet)
            BY <2>1, UnderWay, NewRowsAreRows
        <3> HIDE DEF new
        <3>2. r \in Run /\ RunOK(r) /\ r.pc = "write" /\ r.todo = run[w].todo
            BY <2>1, <2>4, <3>1, UnderWay DEF Run, RunOK
        <3>3. ~raced => Relies(r, file[Current(w)])
            BY <2>1, <3>2, UnderWay DEF Relies
        <3> HIDE DEF r
        <3>4. QED
            BY <1>0, <2>1, <2>4, <3>2, <3>3, QuietKeeps DEF Current
    <2>5. QED
        BY <1>6, <2>2, <2>3, <2>4 DEF ReadIndex
<1>7. QED
    BY <1>1, <1>2, <1>3, <1>4, <1>5, <1>6

(* The cut line is cut off: while nothing raced it is still the last.      *)
LEMMA TruncateStepKeeps ==
    ASSUME LedgerInv, Races, NEW w \in Writer, Truncate(w)
    PROVE  LedgerInv'
<1> DEFINE s == Current(w)
           f == file[s]
           r == [run[w] EXCEPT !.pc = "read"]
           g == IF run[w].seen <= Len(f) THEN SubSeq(f, 1, run[w].seen) ELSE Append(f, Cut)
<1>1. /\ run[w].pc = "truncate" /\ run' = [run EXCEPT ![w] = r] /\ file' = [file EXCEPT ![s] = g]
      /\ UNCHANGED <<clock, world, disk, named, acked>>
    BY DEF Truncate, At, Goes, Keeps
<1>2. r \in Run /\ RunOK(r) /\ r.pc = "read" /\ r.todo = run[w].todo
    BY <1>1, UnderWay DEF Run, RunOK
<1>3. s \in Stream /\ f \in Seq(Line) /\ run[w].seen \in Nat
    BY <1>1, UnderWay DEF Run
<1> HIDE DEF r, f, s
<1>4. g \in Seq(Line)
    <2>1. CASE run[w].seen <= Len(f)
        <3>1. \A i \in 1 .. run[w].seen : f[i] \in Line
            BY <1>3, <2>1, LenProperties, ElementOfSeq
        <3>2. SubSeq(f, 1, run[w].seen) \in Seq(Line)
            BY <1>3, <3>1, SubSeqProperties
        <3>3. QED
            BY <2>1, <3>2
    <2>2. CASE ~(run[w].seen <= Len(f))
        BY <1>3, <2>2, Lines, AppendProperties
    <2>3. QED
        BY <2>1, <2>2
<1>5. ~raced =>
        /\ Partial(f) /\ OnlyATailIsDamaged(f) /\ Safe(acked[s], disk[s], f)
        /\ g = SubSeq(f, 1, Len(f) - 1)
    <2>1. ~raced => /\ Partial(f) /\ run[w].seen = Len(f) - 1
                    /\ OnlyATailIsDamaged(f) /\ Safe(acked[s], disk[s], f)
        BY <1>1, UnderWay DEF Relies, s, f
    <2>2. Len(f) \in Nat
        BY <1>3, LenProperties
    <2>3. run[w].seen = Len(f) - 1 => g = SubSeq(f, 1, Len(f) - 1)
        BY <2>2
    <2>4. QED
        BY <2>1, <2>3
<1> HIDE DEF g
<1>6. ~raced => Safe(acked[s], disk[s], g) /\ ~Partial(g)
    <2>1. disk[s] \in Seq(Line)
        BY <1>1, UnderWay DEF s
    <2>2. QED
        BY <1>3, <1>5, <2>1, TruncateKeeps
<1>7. ~raced' => ~raced
    BY RacesMeans DEF LedgerInv, TypeOK
<1>8. ~raced => \A v \in Writer \ {w} : run[v].pc = "off"
    <2>1. ~raced => ~Overlap(run)
        BY <1>3, <1>5 DEF LedgerInv, f
    <2>2. QED
        BY <1>1, <2>1, AloneMeans
<1>9. ~raced => (r.pc \notin {"off", "done"} => Head(r.todo) = s /\ Relies(r, g))
    BY <1>2, <1>6 DEF Relies, s, Current
<1>10. QED
    BY <1>1, <1>2, <1>3, <1>4, <1>6, <1>7, <1>8, <1>9, WriteKeeps

(* Whole rows land behind whole lines. *)
LEMMA WriteLinesKeeps ==
    ASSUME LedgerInv, Races, NEW w \in Writer, WriteLines(w)
    PROVE  LedgerInv'
<1> DEFINE s == Current(w)
           f == file[s]
           more == run[w].lines
           r == [run[w] EXCEPT !.pc = "sync"]
           g == Extend(f, more)
<1>1. /\ run[w].pc = "write" /\ run' = [run EXCEPT ![w] = r] /\ file' = [file EXCEPT ![s] = g]
      /\ UNCHANGED <<clock, world, disk, named, acked>>
    BY DEF WriteLines, At, Goes, Keeps
<1>2. /\ r \in Run /\ RunOK(r) /\ r.pc = "sync" /\ r.todo = run[w].todo /\ r.lines = more
      /\ more \in Seq(RowSet) /\ more # <<>>
    BY <1>1, UnderWay DEF Run, RunOK
<1>3. s \in Stream /\ f \in Seq(Line)
    BY <1>1, UnderWay
<1>4. ~raced => OnlyATailIsDamaged(f) /\ ~Partial(f) /\ Safe(acked[s], disk[s], f)
    BY <1>1, UnderWay DEF Relies
<1> HIDE DEF r, f, s, more
<1>5. g \in Seq(Line)
    <2>1. more \in Seq(Line) /\ Len(more) > 0
        BY <1>2, RowsAlone, EmptySeq
    <2>2. CASE Partial(f)
        <3>1. Front(f) \in Seq(Line)
            <4>1. \A i \in 1 .. Len(f) - 1 : f[i] \in Line
                BY <1>3, LenProperties, ElementOfSeq
            <4>2. Len(f) \in Nat
                BY <1>3, LenProperties
            <4>3. QED
                BY <4>1, <4>2, SubSeqProperties DEF Front
        <3>2. Tail(more) \in Seq(Line)
            BY <1>2, <2>1, HeadTailProperties
        <3>3. <<IF Head(more) = Cut THEN Cut ELSE Glued>> \in Seq(Line)
            BY DEF Line
        <3>4. QED
            BY <2>2, <3>1, <3>2, <3>3, ConcatProperties DEF Extend
    <2>3. QED
        BY <1>3, <2>1, <2>2, ConcatProperties DEF Extend
<1> HIDE DEF g
<1>6. ~raced => /\ Safe(acked[s], disk[s], g) /\ ~Partial(g)
                /\ Rows(f) \subseteq Rows(g) /\ Rows(more) \subseteq Rows(g)
    BY <1>2, <1>3, <1>4, RowsAlone, AppendKeeps DEF g
<1>7. ~raced' => ~raced
    BY RacesMeans DEF LedgerInv, TypeOK
<1>8. ASSUME ~raced, NEW v \in Writer \ {w},
             run[v].pc \notin {"off", "done"}, Head(run[v].todo) = s
      PROVE  Relies(run[v], g)
    <2>1. Relies(run[v], f)
        BY <1>8, UnderWay DEF Current, f
    <2>2. QED
        BY <1>4, <1>6, <1>8, <2>1 DEF Relies
<1>9. ~raced => (r.pc \notin {"off", "done"} => Head(r.todo) = s /\ Relies(r, g))
    BY <1>2, <1>6 DEF Relies, s, Current
<1>10. QED
    BY <1>1, <1>2, <1>3, <1>5, <1>6, <1>7, <1>8, <1>9, WriteKeeps

(* A write that is cut short leaves its own cut line the last, or raced.   *)
LEMMA WritesShortKeeps ==
    ASSUME LedgerInv, Races, NEW w \in Writer, WritesShort(w)
    PROVE  LedgerInv'
<1> DEFINE s == Current(w)
           f == file[s]
<1>1. /\ run[w].pc = "write" /\ run' = [run EXCEPT ![w] = Idle]
      /\ UNCHANGED <<clock, world, disk, named, acked>>
    BY DEF WritesShort, At, End, Fault
<1>2. PICK n \in 0 .. Len(run[w].lines) - 1 :
        file' = [file EXCEPT ![s] = Extend(f, SubSeq(run[w].lines, 1, n) \o <<Cut>>)]
    BY DEF WritesShort
<1> DEFINE more == SubSeq(run[w].lines, 1, n) \o <<Cut>>
           g == Extend(f, more)
<1>3. /\ s \in Stream /\ f \in Seq(Line) /\ run[w].lines \in Seq(RowSet)
      /\ ~raced => OnlyATailIsDamaged(f) /\ ~Partial(f) /\ Safe(acked[s], disk[s], f)
    BY <1>1, UnderWay DEF Relies, Run
<1>4. /\ more \in Seq(Line) /\ more # <<>> /\ OnlyATailIsDamaged(more) /\ Partial(more)
      /\ Tail(more) \in Seq(Line)
    <2> DEFINE head == SubSeq(run[w].lines, 1, n)
    <2>1. Len(run[w].lines) \in Nat /\ n \in Nat /\ 1 .. n \subseteq 1 .. Len(run[w].lines)
        BY <1>3, LenProperties
    <2>2. \A i \in 1 .. n : run[w].lines[i] \in RowSet
        BY <1>3, <2>1, ElementOfSeq
    <2>3. head \in Seq(RowSet) /\ Len(head) = n
        BY <2>1, <2>2, SubSeqProperties
    <2> HIDE DEF head
    <2>4. head \in Seq(Line) /\ \A i \in 1 .. n : IsRow(head[i])
        BY <2>3, RowsAlone, ElementOfSeq, Lines
    <2>5. more = Append(head, Cut)
        <3>1. head \o <<Cut>> = Append(head, Cut)
            BY <2>4, Lines, AppendIsConcat
        <3>2. QED
            BY <3>1 DEF head
    <2> HIDE DEF more
    <2>6. /\ more \in Seq(Line) /\ more # <<>> /\ Len(more) = n + 1
          /\ \A i \in 1 .. n : more[i] = head[i]
          /\ more[n + 1] = Cut
        <3>1. /\ Append(head, Cut) \in Seq(Line) /\ Append(head, Cut) # <<>>
              /\ Len(Append(head, Cut)) = n + 1
              /\ \A i \in 1 .. n : Append(head, Cut)[i] = head[i]
              /\ Append(head, Cut)[n + 1] = Cut
            BY <2>3, <2>4, Lines, AppendProperties
        <3>2. QED
            BY <2>5, <3>1
    <2>7. DOMAIN more = 1 .. n + 1 /\ \A i \in 1 .. n + 1 : i \in 1 .. n \/ i = n + 1
        BY <2>1, <2>6, LenProperties
    <2>8. OnlyATailIsDamaged(more) /\ Partial(more)
        BY <2>4, <2>6, <2>7 DEF OnlyATailIsDamaged, Partial
    <2>9. QED
        BY <2>6, <2>8, HeadTailProperties
<1> HIDE DEF more, f, s
<1>5. g \in Seq(Line)
    <2>1. CASE Partial(f)
        <3>1. Front(f) \in Seq(Line)
            <4>1. \A i \in 1 .. Len(f) - 1 : f[i] \in Line
                BY <1>3, LenProperties, ElementOfSeq
            <4>2. Len(f) \in Nat
                BY <1>3, LenProperties
            <4>3. QED
                BY <4>1, <4>2, SubSeqProperties DEF Front
        <3>2. <<IF Head(more) = Cut THEN Cut ELSE Glued>> \in Seq(Line)
            BY DEF Line
        <3>3. QED
            BY <1>4, <2>1, <3>1, <3>2, ConcatProperties DEF Extend
    <2>2. QED
        BY <1>3, <1>4, <2>1, ConcatProperties DEF Extend
<1> HIDE DEF g
<1>6. ~raced => Safe(acked[s], disk[s], g) /\ Partial(g)
    BY <1>3, <1>4, AppendKeeps DEF g
<1>7. ~raced' => ~raced
    BY RacesMeans DEF LedgerInv, TypeOK
<1>8. ~raced' => \A v \in Writer \ {w} : run[v].pc = "off"
    <2>1. file' = [file EXCEPT ![s] = g]
        BY <1>2 DEF g, more, f, s
    <2>2. file'[s] = g
        BY <1>3, <2>1 DEF LedgerInv, TypeOK
    <2>3. ~raced' => ~Overlap(run)
        BY <1>3, <1>6, <1>7, <2>2, RacesMeans DEF LedgerInv, TypeOK
    <2>4. QED
        BY <1>1, <2>3, AloneMeans
<1>9. Idle.pc = "off"
    BY DEF Idle
<1>10. QED
    <2>1. file' = [file EXCEPT ![s] = g]
        BY <1>2 DEF g, more, f, s
    <2>2. QED
        BY <1>1, <1>3, <1>5, <1>6, <1>7, <1>8, <1>9, <2>1, IdleIsARun, WriteKeeps

(* What is synced is on the disk, and the rows of the run with it.         *)
LEMMA SyncStepKeeps ==
    ASSUME LedgerInv, Races, NEW w \in Writer, Sync(w)
    PROVE  LedgerInv'
<1> DEFINE s == Current(w)
           rows == Rows(run[w].lines)
<1>1. /\ run[w].pc = "sync" /\ Advance(w) /\ UNCHANGED <<clock, world, file, named>>
      /\ disk' = [disk EXCEPT ![s] = file[s]]
      /\ acked' = [acked EXCEPT ![s] = acked[s] \cup rows]
    BY DEF Sync, At, Keeps
<1>2. PICK r \in Run : RunOK(r) /\ run' = [run EXCEPT ![w] = r] /\ r.pc \in {"repair", "done"}
    BY <1>1, AdvanceIs
<1>3. /\ s \in Stream /\ file[s] \in Seq(Line) /\ disk[s] \in Seq(Line) /\ acked[s] \subseteq RowSet
      /\ rows \subseteq RowSet
      /\ ~raced => rows \subseteq Rows(file[s]) /\ Safe(acked[s], disk[s], file[s])
    BY <1>1, UnderWay, RowsAlone DEF Relies, Run
<1> HIDE DEF s, rows
<1>4. TypeOK'
    BY <1>1, <1>2, <1>3, RacesMeans DEF LedgerInv, TypeOK
<1>5. ASSUME ~raced' PROVE /\ \A t \in Stream : Safe(acked[t], disk[t], file[t])'
                           /\ \A v \in Writer : run'[v].pc \notin {"off", "done"} =>
                                Relies(run[v], file[Head(run[v].todo)])'
                           /\ \A t \in Stream : Partial(file'[t]) => ~Overlap(run')
    <2>1. ~raced /\ (Overlap(run') => \A t \in Stream : ~Partial(file'[t]))
        BY <1>5, RacesMeans DEF LedgerInv, TypeOK
    <2>2. \A v \in Writer : run'[v] = IF v = w THEN r ELSE run[v]
        BY <1>2 DEF LedgerInv, TypeOK
    <2>3. \A t \in Stream : /\ disk'[t] = IF t = s THEN file[s] ELSE disk[t]
                            /\ acked'[t] = IF t = s THEN acked[s] \cup rows ELSE acked[t]
        BY <1>1 DEF LedgerInv, TypeOK
    <2>4. Safe(acked[s] \cup rows, file[s], file[s])
        BY <1>3, <2>1, SyncKeeps
    <2>5. \A t \in Stream : Safe(acked'[t], disk'[t], file'[t])
        BY <1>1, <2>1, <2>3, <2>4 DEF LedgerInv
    <2>6. Relies(r, file[Head(r.todo)])
        BY <1>2 DEF Relies
    <2>7. QED
        BY <1>1, <2>1, <2>2, <2>5, <2>6 DEF LedgerInv
<1>6. QED
    BY <1>4, <1>5 DEF LedgerInv

(* A stream of nothing is safe, if nothing was promised of it.             *)
LEMMA NothingIsSafe == Safe({}, <<>>, <<>>)
<1>1. DOMAIN <<>> = {} /\ Rows(<<>>) = {} /\ WholeLines(<<>>) = <<>> /\ Len(<<>>) = 0
    BY EmptySeq DEF Rows, WholeLines, Partial
<1>2. QED
    BY <1>1 DEF Safe, OnlyATailIsDamaged

(* What the power leaves of a stream: what the disk kept, or nothing.      *)
LEMMA PowerLossLeaves ==
    ASSUME PowerLoss, NEW s \in Stream
    PROVE  /\ file'[s] \in Survivors(disk[s], file[s]) \/ (Gone(s) /\ file'[s] = <<>> /\ Rows(file'[s]) = {})
           /\ disk' = file' /\ run' = [w \in Writer |-> Idle] /\ UNCHANGED <<clock, world>>
<1>1. file'[s] \in Remnants(s) /\ disk' = file' /\ run' = [w \in Writer |-> Idle] /\ UNCHANGED <<clock, world>>
    BY DEF PowerLoss, Fault
<1>2. Rows(<<>>) = {}
    BY EmptySeq DEF Rows
<1>3. QED
    BY <1>1, <1>2 DEF Remnants, Gone

(* Whatever the power takes, what was synced is left, unless the whole     *)
(* file goes and every promise of it.                                      *)
LEMMA PowerLossKeeps ==
    ASSUME LedgerInv, Races, PowerLoss
    PROVE  LedgerInv'
<1>1. /\ run' = [w \in Writer |-> Idle] /\ UNCHANGED <<clock, world>> /\ disk' = file'
      /\ file' \in [Stream -> UNION {Remnants(s) : s \in Stream}]
      /\ named' = named \cup {s \in Stream : file'[s] # <<>>}
      /\ acked' = [s \in Stream |-> IF Gone(s) THEN {} ELSE acked[s]]
    BY DEF PowerLoss, Fault
<1>2. Idle.pc = "off"
    BY DEF Idle
<1>3. \A s \in Stream : file'[s] \in Survivors(disk[s], file[s]) \/ (Gone(s) /\ file'[s] = <<>>)
    BY PowerLossLeaves
<1>4. ~raced => \A s \in Stream : file'[s] \in Seq(Line) /\ Safe(acked'[s], file'[s], file'[s])
    <2>1. ~raced => \A s \in Stream : file'[s] \in Survivors(disk[s], file[s]) =>
                        file'[s] \in Seq(Line) /\ Safe(acked[s], file'[s], file'[s])
        BY SurvivorsKeep DEF LedgerInv, TypeOK
    <2>2. \A s \in Stream : file'[s] = <<>> => file'[s] \in Seq(Line) /\ Safe({}, file'[s], file'[s])
        BY NothingIsSafe, EmptySeq
    <2>3. \A s \in Stream : acked'[s] = IF Gone(s) THEN {} ELSE acked[s]
        BY <1>1
    <2>4. \A s \in Stream : Gone(s) => file'[s] = <<>>
        BY DEF Gone
    <2>5. QED
        BY <1>3, <2>1, <2>2, <2>3, <2>4
<1>5. \A s \in Stream : file'[s] \in Seq(Line)
    <2>1. \A s \in Stream : file'[s] \in Survivors(disk[s], file[s]) => file'[s] \in Seq(Line)
        BY SurvivorsAreLines DEF LedgerInv, TypeOK
    <2>2. QED
        BY <1>3, <2>1, EmptySeq
<1>6. TypeOK'
    <2>1. file' \in [Stream -> Seq(Line)]
        BY <1>1, <1>5
    <2>2. run' \in [Writer -> Run] /\ \A w \in Writer : RunOK(run'[w])
        BY <1>1, IdleIsARun
    <2>3. named' \subseteq Stream /\ acked' \in [Stream -> SUBSET RowSet]
        BY <1>1 DEF LedgerInv, TypeOK
    <2>4. QED
        BY <1>1, <2>1, <2>2, <2>3, RacesMeans DEF LedgerInv, TypeOK
<1>7. ~raced' => ~raced
    BY RacesMeans DEF LedgerInv, TypeOK
<1>8. ~Overlap(run') /\ \A w \in Writer : run'[w].pc = "off"
    BY <1>1, <1>2 DEF Overlap
<1>9. QED
    BY <1>1, <1>4, <1>6, <1>7, <1>8 DEF LedgerInv

(* Of a new file's entry the record knows nothing.                         *)
LEMMA EntryWrittenKeeps ==
    ASSUME LedgerInv, Races, NEW s \in Stream, EntryWritten(s)
    PROVE  LedgerInv'
<1>1. UNCHANGED <<clock, world, file, disk, run, acked>> /\ named' \subseteq Stream
    BY DEF EntryWritten, LedgerInv, TypeOK
<1>2. TypeOK'
    BY <1>1, RacesMeans DEF LedgerInv, TypeOK
<1>3. ~raced' => ~raced
    BY RacesMeans DEF LedgerInv, TypeOK
<1>4. QED
    BY <1>1, <1>2, <1>3 DEF LedgerInv, Overlap

(* An empty record is safe. *)
LEMMA InitLedgerInv == Init => LedgerInv
<1> SUFFICES ASSUME Init PROVE LedgerInv
    OBVIOUS
<1>1. <<>> \in Seq(Line) /\ DOMAIN <<>> = {} /\ Rows(<<>>) = {} /\ WholeLines(<<>>) = <<>> /\ Len(<<>>) = 0
    BY EmptySeq DEF Rows, WholeLines, Partial
<1>2. Idle.pc = "off"
    BY DEF Idle
<1>3. TypeOK
    BY <1>1, IdleIsARun DEF Init, TypeOK, World
<1>4. Safe({}, <<>>, <<>>)
    BY <1>1 DEF Safe, OnlyATailIsDamaged
<1>5. ~Overlap(run)
    BY <1>2 DEF Init, Overlap
<1>6. QED
    BY <1>2, <1>3, <1>4, <1>5 DEF Init, LedgerInv

(* Every step keeps the record. *)
LEMMA NextKeepsLedgerInv == LedgerInv /\ [Next]_vars => LedgerInv'
<1> SUFFICES ASSUME LedgerInv, [Next]_vars PROVE LedgerInv'
    OBVIOUS
<1>1. CASE UNCHANGED vars
    BY <1>1 DEF vars, LedgerInv, TypeOK, Overlap
<1>2. CASE Next
    <2>1. Races
        BY <1>2 DEF Next
    <2>2. CASE Passes \/ WorldMoves
        BY <2>1, <2>2, WorldStepKeeps
    <2>3. CASE PowerLoss
        BY <2>1, <2>3, PowerLossKeeps
    <2>4. ASSUME NEW w \in Writer, RunStep(w) \/ WritesShort(w) \/ Stops(w) PROVE LedgerInv'
        BY <2>1, <2>4, QuietStepKeeps, TruncateStepKeeps, WriteLinesKeeps, SyncStepKeeps, WritesShortKeeps
           DEF RunStep
    <2>5. ASSUME NEW s \in Stream, EntryWritten(s) PROVE LedgerInv'
        BY <2>1, <2>5, EntryWrittenKeeps
    <2>6. QED
        BY <1>2, <2>2, <2>3, <2>4, <2>5 DEF Next
<1>3. QED
    BY <1>1, <1>2

----------------------------------------------------------------------------
(* What a stream says of its figure. *)

Standing == RowSet \cup {NoReading}
WeighFcn == [p \in Standing \X Line |-> Weigh(p[1], p[2])]

(* What stands is a reading or none; of two, one of them is preferred. *)
LEMMA WeighType ==
    /\ \A l \in Line : IsReading(l) <=> l \in RowSet /\ l.kind # "stat"
    /\ NoReading \notin RowSet /\ NoReading \notin Line
    /\ \A a, b \in RowSet : Preferred(a, b) \in {a, b}
    /\ \A a \in Standing, l \in Line : Weigh(a, l) \in Standing
<1>1. \A l \in Line : IsReading(l) <=> l \in RowSet /\ l.kind # "stat"
    BY DEF IsReading, Line, RowSet, Cut, Glued
<1>2. NoReading \notin RowSet /\ NoReading \notin Line
    BY DEF NoReading, Line, RowSet, Cut, Glued
<1>3. \A a, b \in RowSet : Preferred(a, b) \in {a, b}
    BY DEF Preferred
<1>4. \A a \in Standing, l \in Line : Weigh(a, l) \in Standing
    BY <1>1, <1>3 DEF Weigh, Standing
<1>5. QED
    BY <1>1, <1>2, <1>3, <1>4

(* The view of a stream is a fold of its lines. *)
LEMMA ViewIsAFold ==
    ASSUME NEW lines \in Seq(Line)
    PROVE  View(lines) = FoldOf(Standing, WeighFcn, NoReading, lines)
<1> DEFINE Step(g, s) == LET x == Max(s) IN Weigh(g[s \ {x}], lines[x])
           g == CHOOSE g : g = [s \in SUBSET (DOMAIN lines) |-> IF s = {} THEN NoReading ELSE Step(g, s)]
<1>1. View(lines) = g[DOMAIN lines]
    BY DEF View, FoldLeft, MapThenFoldSet
<1>2. Folding(Standing, Line, WeighFcn, NoReading, lines)
    BY WeighType DEF Folding, WeighFcn, Standing
<1>3. DOMAIN lines = 1 .. Len(lines) /\ Len(lines) \in Nat
    BY LenProperties
<1>4. PICK f : FoldFcn(f, Len(lines), Standing, WeighFcn, NoReading, lines)
    BY <1>2, FoldExists DEF Folding, Foldable, FoldFcn
<1>5. ASSUME NEW h, NEW s \in SUBSET (1 .. Len(lines)), s # {}, h[s \ {Max(s)}] \in Standing
      PROVE  Step(h, s) = WeighFcn[<<h[s \ {Max(s)}], lines[Max(s)]>>]
    <2>1. lines[Max(s)] \in Line
        BY <1>3, <1>5, MaxIn, ElementOfSeq
    <2>2. QED
        BY <1>5, <2>1 DEF WeighFcn
<1>6. f = [s \in SUBSET (DOMAIN lines) |-> IF s = {} THEN NoReading ELSE Step(f, s)]
    <2>1. ASSUME NEW s \in SUBSET (1 .. Len(lines))
          PROVE  f[s] = IF s = {} THEN NoReading ELSE Step(f, s)
        <3>1. s \ {Max(s)} \in SUBSET (1 .. Len(lines))
            OBVIOUS
        <3>2. f[s \ {Max(s)}] \in Standing
            BY <1>4, <3>1 DEF FoldFcn
        <3>3. f[s] = IF s = {} THEN NoReading ELSE WeighFcn[<<f[s \ {Max(s)}], lines[Max(s)]>>]
            BY <1>4 DEF FoldFcn, IsFoldOf
        <3> HIDE DEF Step
        <3>4. QED
            BY <1>5, <3>2, <3>3
    <2> HIDE DEF Step
    <2>2. QED
        BY <1>3, <1>4, <2>1 DEF FoldFcn
<1>7. g = [s \in SUBSET (DOMAIN lines) |-> IF s = {} THEN NoReading ELSE Step(g, s)]
    <2> HIDE DEF Step
    <2>1. QED
        BY <1>6
<1> HIDE DEF g
<1>8. Unfolds(g, Len(lines), Standing, WeighFcn, NoReading, lines)
    <2>1. g[{}] = NoReading /\ \A s \in SUBSET (1 .. Len(lines)) : s # {} => g[s] = Step(g, s)
        <3> HIDE DEF Step
        <3>1. QED
            BY <1>3, <1>7
    <2> HIDE DEF Step
    <2>2. QED
        BY <1>5, <2>1 DEF Unfolds
<1>9. g[1 .. Len(lines)] = FoldOf(Standing, WeighFcn, NoReading, lines)
    BY <1>2, <1>8, FoldOfIs
<1>10. QED
    BY <1>1, <1>3, <1>9

(* A line more is weighed against what stood. *)
LEMMA ViewOfAppend ==
    ASSUME NEW lines \in Seq(Line), NEW l \in Line
    PROVE  /\ View(<<>>) = NoReading /\ View(lines) \in Standing
           /\ View(Append(lines, l)) = Weigh(View(lines), l)
<1>1. Folding(Standing, Line, WeighFcn, NoReading, lines)
    BY WeighType DEF Folding, WeighFcn, Standing
<1>2. /\ FoldOf(Standing, WeighFcn, NoReading, <<>>) = NoReading
      /\ FoldOf(Standing, WeighFcn, NoReading, lines) \in Standing
      /\ FoldOf(Standing, WeighFcn, NoReading, Append(lines, l))
           = WeighFcn[<<FoldOf(Standing, WeighFcn, NoReading, lines), l>>]
    BY <1>1, FoldOfAppend
<1>3. Append(lines, l) \in Seq(Line) /\ <<>> \in Seq(Line)
    BY AppendProperties, EmptySeq
<1>4. QED
    BY <1>2, <1>3, ViewIsAFold DEF WeighFcn

(* A figure stands at or above v, or is the owner's. *)
Holds(v, lines) == Figure(lines) >= v \/ (View(lines) \in RowSet /\ View(lines).method = "verified")

(* One line more that is no session keeps what a figure stood at. *)
LEMMA OneLineHolds ==
    ASSUME NEW lines \in Seq(Line), NEW l \in Line, l \in RowSet => l.kind # "session",
           NEW v \in Nat, Holds(v, lines)
    PROVE  Holds(v, Append(lines, l))
<1> DEFINE was == View(lines)
           now == View(Append(lines, l))
<1>1. was \in Standing /\ now = Weigh(was, l)
    BY ViewOfAppend
<1>2. Figure(lines) = (IF was = NoReading THEN 0 ELSE was.value)
      /\ Figure(Append(lines, l)) = (IF now = NoReading THEN 0 ELSE now.value)
    BY DEF Figure
<1> HIDE DEF was, now
<1>3. Holds(v, lines) <=> (IF was = NoReading THEN 0 ELSE was.value) >= v \/ (was \in RowSet /\ was.method = "verified")
    BY <1>2 DEF Holds, was
<1>4. Holds(v, Append(lines, l)) <=>
        (IF now = NoReading THEN 0 ELSE now.value) >= v \/ (now \in RowSet /\ now.method = "verified")
    BY <1>2 DEF Holds, now
<1>5. CASE ~IsReading(l)
    BY <1>1, <1>3, <1>4, <1>5 DEF Weigh
<1>6. CASE IsReading(l) /\ was = NoReading
    <2>1. now = l /\ l \in RowSet /\ l # NoReading
        BY <1>1, <1>6, WeighType DEF Weigh
    <2>2. 0 >= v /\ l.value \in Nat
        BY <1>3, <1>6, <2>1, WeighType DEF RowSet
    <2>3. QED
        BY <1>4, <2>1, <2>2
<1>7. CASE IsReading(l) /\ was # NoReading
    <2>1. now = Preferred(was, l) /\ l \in RowSet /\ was \in RowSet /\ now # NoReading /\ now \in RowSet
        BY <1>1, <1>7, WeighType DEF Weigh, Standing
    <2>2. l.kind # "session" /\ l.value \in Nat /\ was.value \in Nat
        BY <2>1 DEF RowSet
    <2>3. was.value >= v \/ was.method = "verified"
        BY <1>3, <1>7
    <2>4. now.value >= v \/ now.method = "verified"
        <3>1. Preferred(was, l) \in {was, l}
            BY <2>1, WeighType
        <3>2. CASE was.method = "verified" /\ l.method = "verified"
            BY <2>1, <3>1, <3>2
        <3>3. CASE was.method = "verified" /\ l.method # "verified"
            <4>1. now = was
                BY <2>1, <2>2, <3>3 DEF Preferred
            <4>2. QED
                BY <3>3, <4>1
        <3>4. CASE was.method # "verified" /\ l.method = "verified"
            <4>1. now = l
                BY <2>1, <2>2, <3>4 DEF Preferred
            <4>2. QED
                BY <3>4, <4>1
        <3>5. CASE was.method # "verified" /\ l.method # "verified"
            <4>1. now.value >= was.value
                <5>1. CASE l.value > was.value
                    <6>1. now = l
                        BY <2>1, <2>2, <3>5, <5>1 DEF Preferred
                    <6>2. QED
                        BY <2>2, <5>1, <6>1
                <5>2. CASE l.value < was.value
                    <6>1. now = was
                        BY <2>1, <2>2, <3>5, <5>2 DEF Preferred
                    <6>2. QED
                        BY <2>2, <6>1
                <5>3. CASE l.value = was.value
                    BY <2>1, <2>2, <3>1, <5>3
                <5>4. QED
                    BY <2>2, <5>1, <5>2, <5>3
            <4>2. now.value \in Nat
                BY <2>1 DEF RowSet
            <4>3. QED
                BY <2>2, <2>3, <3>5, <4>1, <4>2
        <3>6. QED
            BY <3>2, <3>3, <3>4, <3>5
    <2>5. QED
        BY <1>4, <2>1, <2>4
<1>8. QED
    BY <1>5, <1>6, <1>7

(* The rows of a stream with one line more. *)
LEMMA RowsOfAppend ==
    ASSUME NEW f \in Seq(Line), NEW l \in Line
    PROVE  \A x : x \in Rows(Append(f, l)) <=> x \in Rows(f) \/ (x = l /\ l \in RowSet)
<1>1. /\ Append(f, l) \in Seq(Line) /\ Len(f) \in Nat
      /\ Len(Append(f, l)) = Len(f) + 1 /\ Append(f, l)[Len(f) + 1] = l
      /\ \A i \in 1 .. Len(f) : Append(f, l)[i] = f[i]
    BY AppendProperties, LenProperties
<1>2. \A i : i \in 1 .. (Len(f) + 1) <=> i \in 1 .. Len(f) \/ i = Len(f) + 1
    BY <1>1
<1>3. \A x : x \in Rows(f) <=> \E i \in 1 .. Len(f) : x = f[i] /\ IsRow(f[i])
    BY RowsAreOfLines
<1>4. \A x : x \in Rows(Append(f, l)) <=>
        \E i \in 1 .. (Len(f) + 1) : x = Append(f, l)[i] /\ IsRow(Append(f, l)[i])
    BY <1>1, RowsAreOfLines
<1>5. IsRow(l) <=> l \in RowSet
    BY Lines
<1>6. QED
    BY <1>1, <1>2, <1>3, <1>4, <1>5

(* Whatever follows, a figure stands where it stood, or is the owner's. *)
LEMMA FigureHolds ==
    ASSUME NEW lines \in Seq(Line), NEW more \in Seq(Line), NoSessions(lines \o more)
    PROVE  Figure(lines) \in Nat /\ Holds(Figure(lines), lines \o more)
<1> DEFINE v == Figure(lines)
<1>1. v \in Nat
    <2>1. View(lines) \in Standing
        BY Lines, ViewOfAppend
    <2>2. QED
        BY <2>1 DEF Figure, Standing, RowSet
<1> DEFINE T == {m \in Seq(Line) : NoSessions(lines \o m) => Holds(v, lines \o m)}
<1>2. T \subseteq Seq(Line) /\ <<>> \in T
    <2>1. <<>> \in Seq(Line) /\ lines \o <<>> = lines
        BY EmptySeq, ConcatEmptySeq
    <2>2. Holds(v, lines)
        BY <1>1 DEF Holds
    <2>3. QED
        BY <2>1, <2>2
<1>3. ASSUME NEW m \in T, NEW l \in Line PROVE Append(m, l) \in T
    <2>1. /\ Append(m, l) \in Seq(Line) /\ lines \o m \in Seq(Line)
          /\ lines \o Append(m, l) = Append(lines \o m, l)
        <3>1. /\ Append(m, l) = m \o <<l>> /\ <<l>> \in Seq(Line) /\ m \in Seq(Line)
              /\ lines \o m \in Seq(Line) /\ Append(m, l) \in Seq(Line)
            BY AppendIsConcat, AppendProperties, ConcatProperties
        <3>2. (lines \o m) \o <<l>> = lines \o (m \o <<l>>)
            BY <3>1, ConcatAssociative
        <3>3. Append(lines \o m, l) = (lines \o m) \o <<l>>
            BY <3>1, AppendIsConcat
        <3>4. QED
            BY <3>1, <3>2, <3>3
    <2> DEFINE f == lines \o m
    <2>2. \A x : x \in Rows(Append(f, l)) <=> x \in Rows(f) \/ (x = l /\ l \in RowSet)
        BY <2>1, RowsOfAppend
    <2>3. ASSUME NoSessions(Append(f, l)) PROVE Holds(v, Append(f, l))
        <3>1. NoSessions(f) /\ (l \in RowSet => l.kind # "session")
            BY <2>2, <2>3 DEF NoSessions
        <3>2. Holds(v, f)
            BY <3>1
        <3> HIDE DEF f, v
        <3>3. QED
            BY <1>1, <2>1, <3>1, <3>2, OneLineHolds DEF f
    <2>4. QED
        BY <2>1, <2>3
<1>4. T = Seq(Line)
    <2> HIDE DEF T
    <2>1. QED
        BY <1>2, <1>3, SeqsByAppend
<1>5. QED
    BY <1>1, <1>4

----------------------------------------------------------------------------
(* What a step leaves of the lines. *)

(* The rows of the first stand where they stand in the second. *)
Within(g, f) == \A i \in 1 .. Len(g) : IsRow(g[i]) => i \in 1 .. Len(f) /\ f[i] = g[i]

(* What is within an ordered stream is ordered, and has no other rows. *)
LEMMA WithinMeans ==
    ASSUME NEW g \in Seq(Line), NEW f \in Seq(Line), Within(g, f)
    PROVE  /\ Rows(g) \subseteq Rows(f)
           /\ InOrder(f) => InOrder(g)
           /\ NoSessions(f) => NoSessions(g)
<1>1. DOMAIN g = 1 .. Len(g) /\ DOMAIN f = 1 .. Len(f)
    BY LenProperties
<1>2. Rows(g) \subseteq Rows(f)
    BY RowsAreOfLines DEF Within
<1>3. InOrder(f) => InOrder(g)
    BY <1>1 DEF Within, InOrder
<1>4. QED
    BY <1>2, <1>3 DEF NoSessions

(* A cut line adds no row. *)
LEMMA CutIsNoRow ==
    ASSUME NEW f \in Seq(Line), NEW g \in Seq(Line), Within(g, f)
    PROVE  Append(g, Cut) \in Seq(Line) /\ Within(Append(g, Cut), f)
<1>1. /\ Append(g, Cut) \in Seq(Line) /\ Len(Append(g, Cut)) = Len(g) + 1 /\ Len(g) \in Nat
      /\ \A i \in 1 .. Len(g) : Append(g, Cut)[i] = g[i]
      /\ Append(g, Cut)[Len(g) + 1] = Cut
    BY Lines, AppendProperties, LenProperties
<1>2. \A i \in 1 .. (Len(g) + 1) : i \in 1 .. Len(g) \/ i = Len(g) + 1
    BY <1>1
<1>3. QED
    BY <1>1, <1>2, Lines DEF Within

(* What a stream begins with is within it. *)
LEMMA PrefixIsWithin ==
    ASSUME NEW f \in Seq(Line), NEW n \in Nat, n <= Len(f)
    PROVE  SubSeq(f, 1, n) \in Seq(Line) /\ Within(SubSeq(f, 1, n), f) /\ Len(SubSeq(f, 1, n)) = n
<1> DEFINE g == SubSeq(f, 1, n)
<1>1. Len(f) \in Nat /\ 1 .. n \subseteq 1 .. Len(f) /\ \A i \in 1 .. Len(f) : f[i] \in Line
    BY LenProperties, ElementOfSeq
<1>2. /\ g \in Seq(Line) /\ Len(g) = (IF 1 <= n THEN n - 1 + 1 ELSE 0)
      /\ \A i \in 1 .. n - 1 + 1 : g[i] = f[1 + i - 1]
    BY <1>1, SubSeqProperties
<1> HIDE DEF g
<1>3. Len(g) = n /\ \A i \in 1 .. n : g[i] = f[i]
    BY <1>2
<1>4. QED
    BY <1>1, <1>2, <1>3 DEF Within, g

(* What a truncation leaves, wherever the tail was measured. *)
LEMMA TruncatedIsWithin ==
    ASSUME NEW f \in Seq(Line), NEW n \in Nat
    PROVE  /\ (IF n <= Len(f) THEN SubSeq(f, 1, n) ELSE Append(f, Cut)) \in Seq(Line)
           /\ Within(IF n <= Len(f) THEN SubSeq(f, 1, n) ELSE Append(f, Cut), f)
<1>1. Within(f, f)
    BY DEF Within
<1>2. QED
    BY <1>1, PrefixIsWithin, CutIsNoRow

(* What a power loss leaves, of a stream whose whole lines are on the disk. *)
LEMMA SurvivorIsWithin ==
    ASSUME NEW a, NEW d \in Seq(Line), NEW f \in Seq(Line), Safe(a, d, f), NEW left \in Survivors(d, f)
    PROVE  left \in Seq(Line) /\ Within(left, f) /\ Within(d, f)
<1>1. Len(WholeLines(d)) \in Nat /\ Len(f) \in Nat
    BY StreamHoldsDisk, LenProperties
<1>2. Within(d, f)
    <2>1. /\ \A i \in 1 .. Len(d) : IsRow(d[i]) <=> i <= Len(WholeLines(d))
          /\ \A i \in 1 .. Len(WholeLines(d)) : i \in DOMAIN f /\ f[i] = d[i]
          /\ DOMAIN f = 1 .. Len(f)
        BY WholeLinesAreRows DEF Safe
    <2>2. QED
        BY <1>1, <2>1 DEF Within
<1>3. ASSUME NEW n \in Len(WholeLines(d)) .. Len(f),
             left = SubSeq(f, 1, n) \/ left = SubSeq(f, 1, n) \o <<Cut>>
      PROVE  left \in Seq(Line) /\ Within(left, f)
    <2>1. n \in Nat /\ n <= Len(f)
        BY <1>1
    <2>2. SubSeq(f, 1, n) \in Seq(Line) /\ Within(SubSeq(f, 1, n), f)
        BY <2>1, PrefixIsWithin
    <2>3. SubSeq(f, 1, n) \o <<Cut>> = Append(SubSeq(f, 1, n), Cut)
        BY <2>2, Lines, AppendIsConcat
    <2>4. QED
        BY <1>3, <2>2, <2>3, CutIsNoRow
<1>4. left = d \/ \E n \in Len(WholeLines(d)) .. Len(f) :
        left = SubSeq(f, 1, n) \/ left = SubSeq(f, 1, n) \o <<Cut>>
    BY DEF Survivors
<1>5. QED
    BY <1>2, <1>3, <1>4

(* ... and of any other: some of what is on the disk and in the stream. *)
LEMMA SurvivorsRows ==
    ASSUME NEW d \in Seq(Line), NEW f \in Seq(Line), NEW left \in Survivors(d, f)
    PROVE  NoSessions(d) /\ NoSessions(f) => NoSessions(left)
<1>1. Len(WholeLines(d)) \in Nat
    <2>1. CASE Partial(d)
        <3>1. Len(d) \in Nat \ {0} /\ \A i \in 1 .. Len(d) - 1 : d[i] \in Line
            BY <2>1, EmptySeq, LenProperties, ElementOfSeq DEF Partial
        <3>2. Front(d) \in Seq(Line)
            BY <3>1, SubSeqProperties DEF Front
        <3>3. QED
            BY <2>1, <3>2, LenProperties DEF WholeLines
    <2>2. QED
        BY <2>1, LenProperties DEF WholeLines
<1>2. Len(f) \in Nat
    BY LenProperties
<1>3. ASSUME NEW n \in Len(WholeLines(d)) .. Len(f),
             left = SubSeq(f, 1, n) \/ left = SubSeq(f, 1, n) \o <<Cut>>, NoSessions(f)
      PROVE  NoSessions(left)
    <2>1. n \in Nat /\ n <= Len(f)
        BY <1>1, <1>2
    <2>2. SubSeq(f, 1, n) \in Seq(Line) /\ Within(SubSeq(f, 1, n), f)
        BY <2>1, PrefixIsWithin
    <2>3. SubSeq(f, 1, n) \o <<Cut>> = Append(SubSeq(f, 1, n), Cut)
        BY <2>2, Lines, AppendIsConcat
    <2>4. left \in Seq(Line) /\ Within(left, f)
        BY <1>3, <2>2, <2>3, CutIsNoRow
    <2>5. QED
        BY <1>3, <2>4, WithinMeans
<1>4. left = d \/ \E n \in Len(WholeLines(d)) .. Len(f) :
        left = SubSeq(f, 1, n) \/ left = SubSeq(f, 1, n) \o <<Cut>>
    BY DEF Survivors
<1>5. QED
    BY <1>3, <1>4

(* The rows of what was there and of what is appended are all there is. *)
LEMMA RowsOfConcat ==
    ASSUME NEW f \in Seq(Line), NEW more \in Seq(Line)
    PROVE  f \o more \in Seq(Line) /\ Rows(f \o more) = Rows(f) \cup Rows(more)
<1> DEFINE g == f \o more
<1>1. /\ g \in Seq(Line) /\ Len(g) = Len(f) + Len(more) /\ Len(f) \in Nat /\ Len(more) \in Nat
      /\ \A i \in 1 .. Len(f) + Len(more) : g[i] = IF i <= Len(f) THEN f[i] ELSE more[i - Len(f)]
    BY ConcatProperties, LenProperties
<1> HIDE DEF g
<1>2. \A i \in 1 .. Len(g) : \/ i \in 1 .. Len(f) /\ g[i] = f[i]
                             \/ i - Len(f) \in 1 .. Len(more) /\ g[i] = more[i - Len(f)]
    BY <1>1
<1>3. \A i \in 1 .. Len(f) : i \in 1 .. Len(g) /\ g[i] = f[i]
    BY <1>1
<1>4. \A i \in 1 .. Len(more) : Len(f) + i \in 1 .. Len(g) /\ g[Len(f) + i] = more[i]
    <2>1. ASSUME NEW i \in 1 .. Len(more) PROVE Len(f) + i \in 1 .. Len(g) /\ g[Len(f) + i] = more[i]
        <3>1. Len(f) + i \in 1 .. Len(f) + Len(more) /\ ~(Len(f) + i <= Len(f)) /\ (Len(f) + i) - Len(f) = i
            BY <1>1
        <3>2. QED
            BY <1>1, <3>1
    <2>2. QED
        BY <2>1
<1>5. Rows(g) \subseteq Rows(f) \cup Rows(more)
    <2>1. ASSUME NEW x \in Rows(g) PROVE x \in Rows(f) \/ x \in Rows(more)
        <3>1. PICK i \in 1 .. Len(g) : x = g[i] /\ IsRow(g[i])
            BY <1>1, RowsAreOfLines
        <3>2. CASE i \in 1 .. Len(f) /\ g[i] = f[i]
            BY <3>1, <3>2, RowsAreOfLines
        <3>3. CASE i - Len(f) \in 1 .. Len(more) /\ g[i] = more[i - Len(f)]
            BY <3>1, <3>3, RowsAreOfLines
        <3>4. QED
            BY <1>2, <3>2, <3>3
    <2>2. QED
        BY <2>1
<1>6. Rows(f) \subseteq Rows(g)
    BY <1>1, <1>3, RowsAreOfLines
<1>7. Rows(more) \subseteq Rows(g)
    <2>1. ASSUME NEW x \in Rows(more) PROVE x \in Rows(g)
        <3>1. PICK i \in 1 .. Len(more) : x = more[i] /\ IsRow(more[i])
            BY RowsAreOfLines
        <3>2. Len(f) + i \in 1 .. Len(g) /\ g[Len(f) + i] = x
            BY <1>4, <3>1
        <3>3. QED
            BY <1>1, <3>1, <3>2, RowsAreOfLines
    <2>2. QED
        BY <2>1
<1>8. QED
    BY <1>1, <1>5, <1>6, <1>7 DEF g

(* Two streams without a session make one. *)
LEMMA ConcatWithoutSessions ==
    ASSUME NEW f \in Seq(Line), NEW more \in Seq(Line), NoSessions(f), NoSessions(more)
    PROVE  f \o more \in Seq(Line) /\ NoSessions(f \o more)
<1>1. f \o more \in Seq(Line) /\ Rows(f \o more) = Rows(f) \cup Rows(more)
    BY RowsOfConcat
<1>2. QED
    BY <1>1 DEF NoSessions

(* An append without a session, behind a cut line or a whole one. *)
LEMMA ExtendWithoutSessions ==
    ASSUME NEW f \in Seq(Line), NEW more \in Seq(Line), more # <<>>, NoSessions(f), NoSessions(more)
    PROVE  NoSessions(Extend(f, more))
<1>1. CASE ~Partial(f)
    <2>1. Rows(Extend(f, more)) = Rows(f) \cup Rows(more)
        BY <1>1, RowsOfConcat DEF Extend
    <2>2. QED
        BY <2>1 DEF NoSessions
<1>2. CASE Partial(f)
    <2> DEFINE line == IF Head(more) = Cut THEN Cut ELSE Glued
    <2>1. Len(f) \in Nat \ {0}
        BY <1>2, EmptySeq DEF Partial
    <2>2. Front(f) \in Seq(Line) /\ Within(Front(f), f)
        <3>1. Len(f) - 1 \in Nat /\ Len(f) - 1 <= Len(f)
            BY <2>1
        <3>2. QED
            BY <3>1, PrefixIsWithin DEF Front
    <2>3. line \in Line /\ ~IsRow(line)
        BY Lines DEF Line
    <2> HIDE DEF line
    <2>4. <<line>> \in Seq(Line) /\ Len(<<line>>) = 1 /\ <<line>>[1] = line
        BY <2>3
    <2>5. NoSessions(<<line>>)
        <3>1. \A i \in 1 .. 1 : i = 1
            OBVIOUS
        <3>2. Rows(<<line>>) = {}
            BY <2>3, <2>4, <3>1, RowsAreOfLines
        <3>3. QED
            BY <3>2 DEF NoSessions
    <2>6. Tail(more) \in Seq(Line) /\ NoSessions(Tail(more))
        <3>1. /\ Tail(more) \in Seq(Line) /\ Len(Tail(more)) = Len(more) - 1 /\ Len(more) \in Nat
              /\ \A i \in 1 .. Len(Tail(more)) : Tail(more)[i] = more[i + 1]
            BY HeadTailProperties, LenProperties
        <3>2. \A i \in 1 .. Len(Tail(more)) : i + 1 \in 1 .. Len(more)
            BY <3>1
        <3>3. ASSUME NEW x \in Rows(Tail(more)) PROVE x \in Rows(more)
            <4>1. PICK i \in 1 .. Len(Tail(more)) : x = Tail(more)[i] /\ IsRow(Tail(more)[i])
                BY <3>1, RowsAreOfLines
            <4>2. i + 1 \in 1 .. Len(more) /\ x = more[i + 1] /\ IsRow(more[i + 1])
                BY <3>1, <3>2, <4>1
            <4>3. QED
                BY <4>2, RowsAreOfLines
        <3>4. QED
            BY <3>1, <3>3 DEF NoSessions
    <2>7. NoSessions(Front(f))
        BY <2>2, WithinMeans
    <2>8. Front(f) \o <<line>> \in Seq(Line) /\ NoSessions(Front(f) \o <<line>>)
        BY <2>2, <2>4, <2>5, <2>7, ConcatWithoutSessions
    <2>9. NoSessions(Front(f) \o <<line>> \o Tail(more))
        <3> DEFINE front == Front(f) \o <<line>>
        <3>1. front \in Seq(Line) /\ NoSessions(front)
            BY <2>8
        <3> HIDE DEF front
        <3>2. NoSessions(front \o Tail(more))
            BY <2>6, <3>1, ConcatWithoutSessions
        <3>3. QED
            BY <3>2 DEF front
    <2>10. QED
        BY <1>2, <2>9 DEF Extend, line
<1>3. QED
    BY <1>1, <1>2

(* The rows of a write that was cut short are rows of the write. *)
LEMMA ShortOfRows ==
    ASSUME NEW more \in Seq(RowSet), NEW n \in 0 .. Len(more) - 1
    PROVE  /\ SubSeq(more, 1, n) \o <<Cut>> \in Seq(Line) /\ SubSeq(more, 1, n) \o <<Cut>> # <<>>
           /\ NoSessions(more) => NoSessions(SubSeq(more, 1, n) \o <<Cut>>)
           /\ Len(more) = 1 => SubSeq(more, 1, n) \o <<Cut>> = <<Cut>>
<1> DEFINE head == SubSeq(more, 1, n)
<1>1. more \in Seq(Line) /\ Len(more) \in Nat /\ n \in Nat /\ n <= Len(more)
    BY RowsAlone, LenProperties
<1>2. head \in Seq(Line) /\ Within(head, more) /\ Len(head) = n
    BY <1>1, PrefixIsWithin
<1> HIDE DEF head
<1>3. head \o <<Cut>> = Append(head, Cut)
    BY <1>2, Lines, AppendIsConcat
<1>4. Append(head, Cut) \in Seq(Line) /\ Within(Append(head, Cut), more) /\ Append(head, Cut) # <<>>
    BY <1>1, <1>2, CutIsNoRow, AppendProperties, Lines
<1>5. ASSUME Len(more) = 1 PROVE head \o <<Cut>> = <<Cut>>
    <2>1. n = 0
        BY <1>5
    <2>2. head = <<>>
        BY <1>2, <2>1, EmptySeq
    <2>3. <<Cut>> \in Seq(Line)
        BY Lines
    <2>4. QED
        BY <2>2, <2>3, ConcatEmptySeq
<1>6. QED
    BY <1>1, <1>3, <1>4, <1>5, WithinMeans DEF head

----------------------------------------------------------------------------
(* Each part of what makes the promises inductive. *)

PlanOf(w, r) ==
  r.pc # "off" =>
    /\ r.todo \in {Plan(w), <<>>} \cup (IF w = "export" THEN {<<"usage">>} ELSE {})
    /\ w = "export" => r.pc \notin {"fetch", "ask"} /\ (r.pc = "done" => r.todo = <<>>)
    /\ r.pc \in {"write", "sync"} =>
         IF Head(r.todo) = "sessions" THEN r.lines = <<SessionRow(r.doc)>> ELSE NoSessions(r.lines)

(* A step of one run leaves the plans of the others. *)
LEMMA PlanMoves ==
    ASSUME TypeOK, OrderInv, NEW w \in Writer, NEW r, run' = [run EXCEPT ![w] = r], PlanOf(w, r)
    PROVE  \A v \in Writer : KeepsToItsPlan(v)'
<1>1. \A v \in Writer : run'[v] = IF v = w THEN r ELSE run[v]
    BY DEF TypeOK
<1>2. \A v \in Writer : KeepsToItsPlan(v)
    BY DEF OrderInv
<1>3. QED
    BY <1>1, <1>2 DEF KeepsToItsPlan, PlanOf

(* What a run works at: the export at its sessions or its day, the others  *)
(* at theirs.                                                              *)
LEMMA WorksAt ==
    ASSUME LedgerInv, OrderInv, NEW w \in Writer, run[w].pc \notin {"off", "done"}
    PROVE  /\ PlanOf(w, run[w])
           /\ \/ w = "export" /\ run[w].todo = Plan("export") /\ Current(w) = "sessions" /\ Tail(run[w].todo) = <<"usage">>
              \/ w = "export" /\ run[w].todo = <<"usage">> /\ Current(w) = "usage" /\ Tail(run[w].todo) = <<>>
              \/ w # "export" /\ run[w].todo = <<"github">> /\ Current(w) = "github" /\ Tail(run[w].todo) = <<>>
<1>1. PlanOf(w, run[w])
    BY DEF OrderInv, KeepsToItsPlan, PlanOf
<1>2. run[w].todo # <<>>
    BY UnderWay DEF RunOK
<1>3. run[w].todo \in {Plan(w)} \cup (IF w = "export" THEN {<<"usage">>} ELSE {})
    BY <1>1, <1>2 DEF PlanOf
<1>4. Plan(w) = IF w = "export" THEN <<"sessions", "usage">> ELSE <<"github">>
    BY DEF Plan
<1>5. /\ Head(<<"sessions", "usage">>) = "sessions" /\ Head(<<"usage">>) = "usage" /\ Head(<<"github">>) = "github"
      /\ Tail(<<"sessions", "usage">>) = <<"usage">> /\ Tail(<<"usage">>) = <<>> /\ Tail(<<"github">>) = <<>>
    OBVIOUS
<1>6. CASE w # "export"
    BY <1>1, <1>3, <1>4, <1>5, <1>6 DEF Current
<1>7. CASE w = "export" /\ run[w].todo = Plan("export")
    BY <1>1, <1>3, <1>4, <1>5, <1>7 DEF Current
<1>8. CASE w = "export" /\ run[w].todo = <<"usage">>
    BY <1>1, <1>3, <1>4, <1>5, <1>8 DEF Current
<1>9. QED
    BY <1>3, <1>6, <1>7, <1>8

(* A run adds to the sessions the reading it took, and to no other stream  *)
(* a session.                                                              *)
LEMMA RowOfARun ==
    ASSUME NEW w \in Writer, NEW lines, NEW doc \in Doc
    PROVE  /\ NewRows(w, "sessions", lines, doc) \in {<<>>, <<SessionRow(doc)>>}
           /\ \A s \in {"usage", "github"} : NoSessions(NewRows(w, s, lines, doc))
<1>1. \A row \in RowSet : IfNew(lines, row) \in {<<>>, <<row>>}
    BY DEF IfNew
<1>2. /\ SessionRow(doc) \in RowSet /\ StatRow(doc) \in RowSet /\ StoreRow(doc) \in RowSet
      /\ PanelRow(doc) \in RowSet /\ BackfillRow(doc) \in RowSet
      /\ StatRow(doc).kind # "session" /\ StoreRow(doc).kind # "session"
      /\ PanelRow(doc).kind # "session" /\ BackfillRow(doc).kind # "session"
    BY DEF SessionRow, StatRow, StoreRow, PanelRow, BackfillRow, Row, RowSet, Doc, World
<1>3. ASSUME NEW row \in RowSet, row.kind # "session" PROVE IfNew(lines, row) \in Seq(Line) /\ NoSessions(IfNew(lines, row))
    <2>1. <<>> \in Seq(Line) /\ NoSessions(<<>>)
        BY EmptySeq DEF NoSessions, Rows
    <2>2. row \in Line /\ <<row>> \in Seq(Line) /\ Len(<<row>>) = 1 /\ <<row>>[1] = row
        BY Lines
    <2>3. Rows(<<row>>) \subseteq {row}
        <3>1. \A i \in 1 .. 1 : i = 1
            OBVIOUS
        <3>2. QED
            BY <2>2, <3>1, RowsAreOfLines
    <2>4. QED
        BY <1>1, <1>3, <2>1, <2>2, <2>3 DEF NoSessions
<1>4. NoSessions(NewRows(w, "usage", lines, doc))
    <2>1. NewRows(w, "usage", lines, doc) = IfNew(lines, StatRow(doc)) \o IfNew(lines, StoreRow(doc))
        BY DEF NewRows
    <2>2. QED
        BY <1>2, <1>3, <2>1, ConcatWithoutSessions
<1>5. NoSessions(NewRows(w, "github", lines, doc))
    <2>1. NewRows(w, "github", lines, doc) = IfNew(lines, IF w = "snapshot" THEN PanelRow(doc) ELSE BackfillRow(doc))
        BY DEF NewRows
    <2>2. QED
        BY <1>2, <1>3, <2>1
<1>6. NewRows(w, "sessions", lines, doc) \in {<<>>, <<SessionRow(doc)>>}
    BY <1>1, <1>2 DEF NewRows
<1>7. QED
    BY <1>4, <1>5, <1>6

(* Every step keeps every run to its plan. *)
LEMMA PlansAreKept ==
    ASSUME LedgerInv, OrderInv, Next
    PROVE  \A w \in Writer : KeepsToItsPlan(w)'
<1>0. TypeOK
    BY DEF LedgerInv
<1>1. CASE Passes \/ WorldMoves \/ \E t \in Stream : EntryWritten(t)
    <2>1. run' = run
        BY <1>1 DEF Passes, WorldMoves, Moves, EntryWritten
    <2>2. QED
        BY <2>1 DEF OrderInv, KeepsToItsPlan
<1>2. Idle.pc = "off"
    BY DEF Idle
<1>3. CASE PowerLoss
    <2>1. run' = [w \in Writer |-> Idle]
        BY <1>3 DEF PowerLoss
    <2>2. QED
        BY <1>2, <2>1 DEF KeepsToItsPlan
<1>4. ASSUME NEW w \in Writer, run' = [run EXCEPT ![w] = Idle] PROVE \A v \in Writer : KeepsToItsPlan(v)'
    <2>1. PlanOf(w, Idle)
        BY <1>2 DEF PlanOf
    <2>2. QED
        BY <1>0, <1>4, <2>1, PlanMoves
<1>5. ASSUME NEW w \in Writer, Start(w) PROVE \A v \in Writer : KeepsToItsPlan(v)'
    <2> DEFINE doc == [at |-> clock, world |-> world]
               first == CASE w = "export" -> "keep" [] w = "snapshot" -> "fetch" [] OTHER -> "ask"
               r == [Idle EXCEPT !.doc = doc, !.todo = Plan(w), !.pc = first]
    <2>1. run' = [run EXCEPT ![w] = r]
        BY <1>5 DEF Start
    <2>2. first \in {"keep", "fetch", "ask"} /\ (w = "export" => first = "keep")
        BY DEF Writer
    <2> HIDE DEF doc, first
    <2>3. PlanOf(w, r)
        BY <2>2 DEF PlanOf, Idle
    <2> HIDE DEF r
    <2>4. QED
        BY <1>0, <2>1, <2>3, PlanMoves
<1>6. ASSUME NEW w \in Writer, KeepLast(w) \/ Fetch(w) \/ FetchRefused(w) \/ Ask(w) \/ Repair(w) \/ Truncate(w) \/ WriteLines(w)
      PROVE  \A v \in Writer : KeepsToItsPlan(v)'
    <2>1. run[w].pc \notin {"off", "done"}
        BY <1>6 DEF KeepLast, Fetch, FetchRefused, Ask, Repair, Truncate, WriteLines, At
    <2>2. PlanOf(w, run[w]) /\ run[w] \in Run
        BY <2>1, WorksAt, UnderWay
    <2>3. CASE KeepLast(w) \/ FetchRefused(w) \/ Repair(w) \/ Truncate(w)
        <3>1. PICK to, n :
                /\ to \in {"repair", "done", "read", "truncate"} /\ (w = "export" => to # "done")
                /\ run' = [run EXCEPT ![w].pc = to, ![w].seen = n]
            <4>1. CASE KeepLast(w) \/ FetchRefused(w) \/ Truncate(w)
                <5>0. w = "export" => ~FetchRefused(w)
                    BY <2>1, <2>2 DEF PlanOf, FetchRefused, At
                <5>1. PICK to \in {"repair", "done", "read"} :
                        (w = "export" => to # "done") /\ run' = [run EXCEPT ![w].pc = to]
                    BY <4>1, <5>0 DEF KeepLast, FetchRefused, Truncate, Goes
                <5>2. run' = [run EXCEPT ![w].pc = to, ![w].seen = run[w].seen]
                    BY <1>0, <2>2, <5>1 DEF TypeOK, Run
                <5>3. QED
                    BY <5>1, <5>2
            <4>2. CASE Repair(w)
                BY <4>2 DEF Repair
            <4>3. QED
                BY <2>3, <4>1, <4>2
        <3> DEFINE r == [run[w] EXCEPT !.pc = to, !.seen = n]
        <3>2. run' = [run EXCEPT ![w] = r]
            BY <1>0, <3>1 DEF TypeOK
        <3>3. PlanOf(w, r)
            BY <2>1, <2>2, <3>1 DEF PlanOf, Run
        <3> HIDE DEF r
        <3>4. QED
            BY <1>0, <3>2, <3>3, PlanMoves
    <2>4. CASE Fetch(w) \/ Ask(w)
        <3> DEFINE r == [run[w] EXCEPT !.pc = "repair", !.doc.world = world]
        <3>1. run' = [run EXCEPT ![w] = r]
            BY <2>4 DEF Fetch, Ask
        <3>2. PlanOf(w, r)
            BY <2>1, <2>2 DEF PlanOf, Run
        <3> HIDE DEF r
        <3>3. QED
            BY <1>0, <3>1, <3>2, PlanMoves
    <2>5. CASE WriteLines(w)
        <3> DEFINE r == [run[w] EXCEPT !.pc = "sync"]
        <3>1. run' = [run EXCEPT ![w] = r] /\ run[w].pc = "write"
            BY <2>5 DEF WriteLines, Goes, At
        <3>2. PlanOf(w, r)
            BY <2>2, <3>1 DEF PlanOf, Run
        <3> HIDE DEF r
        <3>3. QED
            BY <1>0, <3>1, <3>2, PlanMoves
    <2>6. QED
        BY <1>6, <2>3, <2>4, <2>5
<1>7. ASSUME NEW w \in Writer, Advance(w), run[w].pc \notin {"off", "done"}
      PROVE  \A v \in Writer : KeepsToItsPlan(v)'
    <2> DEFINE r == [run[w] EXCEPT !.todo = Tail(run[w].todo), !.lines = <<>>, !.seen = 0,
                                   !.pc = IF Len(run[w].todo) = 1 THEN "done" ELSE "repair"]
    <2>1. run' = [run EXCEPT ![w] = r]
        BY <1>7 DEF Advance
    <2>2. /\ PlanOf(w, run[w]) /\ run[w] \in Run
          /\ Tail(run[w].todo) \in {<<>>} \cup (IF w = "export" THEN {<<"usage">>} ELSE {})
          /\ w = "export" /\ Len(run[w].todo) = 1 => Tail(run[w].todo) = <<>>
        <3>1. Len(<<"sessions", "usage">>) = 2 /\ Plan("export") = <<"sessions", "usage">>
            BY DEF Plan
        <3>2. PlanOf(w, run[w]) /\ run[w] \in Run
            BY <1>7, WorksAt, UnderWay
        <3>3. \/ w = "export" /\ run[w].todo = Plan("export") /\ Tail(run[w].todo) = <<"usage">>
              \/ w = "export" /\ Tail(run[w].todo) = <<>>
              \/ w # "export" /\ Tail(run[w].todo) = <<>>
            BY <1>7, WorksAt
        <3>4. w = "export" /\ Len(run[w].todo) = 1 => Tail(run[w].todo) = <<>>
            <4>1. Len(run[w].todo) = 1 => run[w].todo # Plan("export")
                <5>1. Len(Plan("export")) = 2
                    BY <3>1
                <5>2. QED
                    BY <5>1
            <4>2. QED
                BY <3>3, <4>1
        <3>5. Tail(run[w].todo) \in {<<>>} \cup (IF w = "export" THEN {<<"usage">>} ELSE {})
            BY <3>3
        <3>6. QED
            BY <3>2, <3>4, <3>5
    <2>3. PlanOf(w, r)
        BY <1>7, <2>2 DEF PlanOf, Run
    <2> HIDE DEF r
    <2>4. QED
        BY <1>0, <2>1, <2>3, PlanMoves
<1>8. ASSUME NEW w \in Writer, ReadIndex(w) PROVE \A v \in Writer : KeepsToItsPlan(v)'
    <2> DEFINE s == Current(w)
               new == NewRows(w, s, file[s], run[w].doc)
               r == [run[w] EXCEPT !.pc = "write", !.lines = new]
    <2>1. run[w].pc \notin {"off", "done"} /\ run[w].pc = "read"
        BY <1>8 DEF ReadIndex, At
    <2>2. End(w) \/ Advance(w) \/ (new # <<>> /\ run' = [run EXCEPT ![w] = r])
        BY <1>8 DEF ReadIndex
    <2>3. CASE new # <<>> /\ run' = [run EXCEPT ![w] = r]
        <3>1. PlanOf(w, run[w]) /\ run[w] \in Run /\ run[w].doc \in Doc /\ s \in {"sessions", "usage", "github"}
            BY <2>1, WorksAt, UnderWay
        <3>2. IF s = "sessions" THEN new = <<SessionRow(run[w].doc)>> ELSE NoSessions(new)
            BY <2>3, <3>1, RowOfARun
        <3> HIDE DEF new
        <3>3. PlanOf(w, r)
            BY <2>1, <3>1, <3>2 DEF PlanOf, Run, Current
        <3> HIDE DEF r
        <3>4. QED
            BY <1>0, <2>3, <3>3, PlanMoves
    <2>4. QED
        BY <1>4, <1>7, <2>1, <2>2, <2>3 DEF End
<1>9. ASSUME NEW w \in Writer, RunStep(w) \/ WritesShort(w) \/ Stops(w)
      PROVE  \A v \in Writer : KeepsToItsPlan(v)'
    <2>1. CASE AskRefused(w) \/ Finish(w) \/ WritesShort(w) \/ Stops(w)
        BY <1>4, <2>1 DEF AskRefused, Finish, WritesShort, Stops, End
    <2>2. CASE Sync(w)
        BY <1>7, <2>2 DEF Sync, At
    <2>3. QED
        BY <1>5, <1>6, <1>8, <1>9, <2>1, <2>2 DEF RunStep
<1>10. QED
    BY <1>1, <1>3, <1>9 DEF Next

(* A session has not ended later than now. *)
LEMMA EndsArePast ==
    ASSUME LedgerInv, OrderInv, Next
    PROVE  world'.end <= clock' /\ (world' = world \/ (world'.end >= world.end /\ world'.total >= world.total /\ clock' = clock))
<1>0. clock \in Nat /\ world \in World /\ world.end <= clock /\ world.end \in Nat /\ world.total \in Nat
    BY DEF LedgerInv, TypeOK, OrderInv, World
<1>1. CASE Passes
    BY <1>0, <1>1 DEF Passes
<1>2. CASE WorldMoves
    <2>1. \/ Moves([world EXCEPT !.end = clock, !.total = world.total + 1])
          \/ \E n \in Figures : \/ Moves([world EXCEPT !.usage = n])
                                \/ Moves([world EXCEPT !.verified = n])
                                \/ Moves([world EXCEPT !.github = n])
        BY <1>2 DEF WorldMoves
    <2>2. CASE Moves([world EXCEPT !.end = clock, !.total = world.total + 1])
        <3>1. /\ [world EXCEPT !.end = clock, !.total = world.total + 1].end = clock
              /\ [world EXCEPT !.end = clock, !.total = world.total + 1].total = world.total + 1
            BY <1>0 DEF World
        <3>2. QED
            BY <1>0, <2>2, <3>1 DEF Moves
    <2>3. ASSUME NEW n \in Figures, \/ Moves([world EXCEPT !.usage = n]) \/ Moves([world EXCEPT !.verified = n])
                                    \/ Moves([world EXCEPT !.github = n])
          PROVE  world'.end = world.end /\ world'.total = world.total /\ clock' = clock
        <3>1. \A m : /\ [world EXCEPT !.usage = m].end = world.end /\ [world EXCEPT !.usage = m].total = world.total
                     /\ [world EXCEPT !.verified = m].end = world.end /\ [world EXCEPT !.verified = m].total = world.total
                     /\ [world EXCEPT !.github = m].end = world.end /\ [world EXCEPT !.github = m].total = world.total
            BY <1>0 DEF World
        <3>2. QED
            BY <2>3, <3>1 DEF Moves
    <2>4. CASE world'.end = world.end /\ world'.total = world.total /\ clock' = clock
        BY <1>0, <2>4
    <2>5. QED
        BY <2>1, <2>2, <2>3, <2>4, Zenon
<1>3. CASE PowerLoss \/ \E w \in Writer : RunStep(w) \/ WritesShort(w) \/ Stops(w)
    <2>1. \A w \in Writer : RunStep(w) => Keeps
        BY DEF RunStep, Start, KeepLast, Fetch, FetchRefused, Ask, AskRefused, Repair, Truncate, ReadIndex,
               WriteLines, Sync, Finish
    <2>2. \A w \in Writer : WritesShort(w) \/ Stops(w) => Fault
        BY DEF WritesShort, Stops
    <2>3. PowerLoss => Fault
        BY DEF PowerLoss
    <2>4. Keeps \/ Fault => UNCHANGED <<clock, world>>
        BY DEF Keeps, Fault
    <2>5. UNCHANGED <<clock, world>>
        BY <1>3, <2>1, <2>2, <2>3, <2>4
    <2>6. QED
        BY <1>0, <2>5
<1>4. CASE \E t \in Stream : EntryWritten(t)
    BY <1>0, <1>4 DEF EntryWritten
<1>5. QED
    BY <1>1, <1>2, <1>3, <1>4 DEF Next

(* The file of a stream is written by a run that works at it, or left by a *)
(* power loss; its disk is synced, or left so.                             *)
LEMMA Writes ==
    ASSUME LedgerInv, NEW w \in Writer, RunStep(w) \/ WritesShort(w) \/ Stops(w)
    PROVE  \/ UNCHANGED <<file, disk>>
           \/ UNCHANGED file /\ Sync(w) /\ disk' = [disk EXCEPT ![Current(w)] = file[Current(w)]]
           \/ UNCHANGED disk /\ Truncate(w) /\
              file' = [file EXCEPT ![Current(w)] = IF run[w].seen <= Len(file[Current(w)])
                                                   THEN SubSeq(file[Current(w)], 1, run[w].seen)
                                                   ELSE Append(file[Current(w)], Cut)]
           \/ UNCHANGED disk /\ WriteLines(w) /\
              file' = [file EXCEPT ![Current(w)] = Extend(file[Current(w)], run[w].lines)]
           \/ UNCHANGED disk /\ WritesShort(w) /\
              \E n \in 0 .. Len(run[w].lines) - 1 :
                file' = [file EXCEPT ![Current(w)] = Extend(file[Current(w)], SubSeq(run[w].lines, 1, n) \o <<Cut>>)]
<1>1. CASE \/ Start(w) \/ KeepLast(w) \/ Fetch(w) \/ FetchRefused(w) \/ Ask(w) \/ AskRefused(w)
           \/ Repair(w) \/ ReadIndex(w) \/ Finish(w) \/ Stops(w)
    BY <1>1 DEF Start, KeepLast, Fetch, FetchRefused, Ask, AskRefused, Repair, ReadIndex, Finish, Stops
<1>2. CASE Sync(w)
    BY <1>2 DEF Sync
<1>3. CASE Truncate(w)
    BY <1>3 DEF Truncate
<1>4. CASE WriteLines(w)
    BY <1>4 DEF WriteLines
<1>5. CASE WritesShort(w)
    BY <1>5 DEF WritesShort
<1>6. QED
    BY <1>1, <1>2, <1>3, <1>4, <1>5 DEF RunStep

(* No step writes a session where none is kept. *)
LEMMA DaysStayDays ==
    ASSUME LedgerInv, OrderInv, Next
    PROVE  \A s \in {"usage", "github"} : NoSessions(file'[s]) /\ NoSessions(disk'[s])
<1> SUFFICES ASSUME NEW s \in {"usage", "github"} PROVE NoSessions(file'[s]) /\ NoSessions(disk'[s])
    OBVIOUS
<1>0. /\ s \in Stream /\ file[s] \in Seq(Line) /\ disk[s] \in Seq(Line)
      /\ NoSessions(file[s]) /\ NoSessions(disk[s])
      /\ DOMAIN file = Stream /\ DOMAIN disk = Stream
    BY DEF LedgerInv, TypeOK, OrderInv, Stream
<1>1. CASE Passes \/ WorldMoves \/ \E t \in Stream : EntryWritten(t)
    BY <1>0, <1>1 DEF Passes, WorldMoves, Moves, EntryWritten
<1>2. CASE PowerLoss
    <2>1. disk' = file' /\ (file'[s] \in Survivors(disk[s], file[s]) \/ Rows(file'[s]) = {})
        BY <1>0, <1>2, PowerLossLeaves
    <2>2. Rows(file'[s]) = {} => NoSessions(file'[s])
        BY DEF NoSessions
    <2>3. QED
        BY <1>0, <2>1, <2>2, SurvivorsRows
<1>3. ASSUME NEW w \in Writer, RunStep(w) \/ WritesShort(w) \/ Stops(w)
      PROVE  NoSessions(file'[s]) /\ NoSessions(disk'[s])
    <2> DEFINE t == Current(w)
    <2>1. ASSUME NEW g, UNCHANGED disk, file' = [file EXCEPT ![t] = g], t = s => NoSessions(g)
          PROVE  NoSessions(file'[s]) /\ NoSessions(disk'[s])
        <3>1. file'[s] = IF t = s THEN g ELSE file[s]
            BY <1>0, <2>1
        <3>2. QED
            BY <1>0, <2>1, <3>1
    <2>2. CASE UNCHANGED <<file, disk>>
        BY <1>0, <2>2
    <2>3. CASE UNCHANGED file /\ disk' = [disk EXCEPT ![t] = file[t]]
        BY <1>0, <2>3
    <2>4. CASE UNCHANGED disk /\ Truncate(w) /\
              file' = [file EXCEPT ![t] = IF run[w].seen <= Len(file[t])
                                          THEN SubSeq(file[t], 1, run[w].seen) ELSE Append(file[t], Cut)]
        <3> DEFINE g == IF run[w].seen <= Len(file[t]) THEN SubSeq(file[t], 1, run[w].seen) ELSE Append(file[t], Cut)
        <3>1. run[w].seen \in Nat
            BY DEF LedgerInv, TypeOK, Run
        <3>2. t = s => NoSessions(g)
            BY <1>0, <3>1, TruncatedIsWithin, WithinMeans
        <3> HIDE DEF g
        <3>3. QED
            BY <2>1, <2>4, <3>2 DEF g
    <2>5. ASSUME run[w].pc = "write" PROVE t = s => run[w].lines \in Seq(RowSet) /\ run[w].lines # <<>> /\ NoSessions(run[w].lines)
        <3>1. PlanOf(w, run[w]) /\ run[w] \in Run /\ RunOK(run[w])
            BY <2>5, WorksAt, UnderWay
        <3>2. QED
            BY <2>5, <3>1 DEF PlanOf, Current, Run, RunOK
    <2>6. CASE UNCHANGED disk /\ WriteLines(w) /\ file' = [file EXCEPT ![t] = Extend(file[t], run[w].lines)]
        <3>1. run[w].pc = "write"
            BY <2>6 DEF WriteLines, At
        <3>2. t = s => NoSessions(Extend(file[t], run[w].lines))
            BY <1>0, <2>5, <3>1, RowsAlone, ExtendWithoutSessions
        <3>3. QED
            BY <2>1, <2>6, <3>2
    <2>7. ASSUME UNCHANGED disk, WritesShort(w), NEW n \in 0 .. Len(run[w].lines) - 1,
                 file' = [file EXCEPT ![t] = Extend(file[t], SubSeq(run[w].lines, 1, n) \o <<Cut>>)]
          PROVE  NoSessions(file'[s]) /\ NoSessions(disk'[s])
        <3>1. run[w].pc = "write"
            BY <2>7 DEF WritesShort, At
        <3> DEFINE more == SubSeq(run[w].lines, 1, n) \o <<Cut>>
        <3>2. t = s => more \in Seq(Line) /\ more # <<>> /\ NoSessions(more)
            BY <2>5, <3>1, ShortOfRows
        <3> HIDE DEF more
        <3>3. t = s => NoSessions(Extend(file[t], more))
            BY <1>0, <3>2, ExtendWithoutSessions
        <3>4. QED
            BY <2>1, <2>7, <3>3 DEF more
    <2>8. QED
        BY <1>3, <2>2, <2>3, <2>4, <2>6, <2>7, Writes
<1>4. QED
    BY <1>1, <1>2, <1>3 DEF Next

----------------------------------------------------------------------------
(* The record of the sessions. *)

Now == [at |-> clock, world |-> world]

\* A row that says as much as doc, or more.
Reaches(lines, doc) == \E row \in Rows(lines) : row.end >= doc.world.end /\ row.value >= doc.world.total

ChronicleAt(lines, r, now) ==
  /\ \A row \in Rows(lines) : row.kind = "session" /\ row.method = "capture"
  /\ InOrder(lines)
  /\ \A row \in Rows(lines) : NotAhead(row, now)
  /\ r.pc # "off" => NotAhead(SessionRow(r.doc), now) /\ \A row \in Rows(lines) : NotAhead(row, r.doc)
  /\ Past(r) /\ Settled(r.doc) => Reaches(lines, r.doc)

(* The chronicle now, and after a step. *)
LEMMA ChronicleMeans ==
    /\ Chronicle(file["sessions"], run["export"]) <=> ChronicleAt(file["sessions"], run["export"], Now)
    /\ Chronicle(file["sessions"], run["export"])' <=> ChronicleAt(file'["sessions"], run'["export"], Now')
BY DEF Chronicle, ChronicleAt, Now, Reaches

(* As time passes and the session spends, no reading gets ahead. *)
LEMMA TimeKeepsChronicle ==
    ASSUME NEW f \in Seq(Line), NEW r, r.pc # "off" => r.doc \in Doc, NEW now \in Doc, NEW later \in Doc,
           ChronicleAt(f, r, now),
           later.at >= now.at, later.world.end >= now.world.end, later.world.total >= now.world.total
    PROVE  ChronicleAt(f, r, later)
<1>1. /\ \A row \in RowSet : row.at \in Nat /\ row.end \in Nat /\ row.value \in Nat
      /\ \A doc \in Doc : doc.at \in Nat /\ doc.world.end \in Nat /\ doc.world.total \in Nat
    BY DEF RowSet, Doc, World
<1>2. \A row \in RowSet : NotAhead(row, now) => NotAhead(row, later)
    BY <1>1 DEF NotAhead
<1>3. \A doc \in Doc : SessionRow(doc) \in RowSet
    BY DEF SessionRow, Row, RowSet, Doc, World
<1>4. Rows(f) \subseteq RowSet
    BY RowsAreOfLines
<1>5. QED
    BY <1>2, <1>3, <1>4 DEF ChronicleAt

(* A step of the export that adds no reading. *)
LEMMA RunKeepsChronicle ==
    ASSUME NEW f, NEW g, NEW r, NEW r2, NEW now, ChronicleAt(f, r, now),
           Rows(g) \subseteq Rows(f), InOrder(g),
           r2.pc # "off" => r.pc # "off" /\ r2.doc = r.doc,
           Past(r2) => (Past(r) /\ Rows(f) \subseteq Rows(g)) \/ (Settled(r.doc) => Reaches(g, r.doc))
    PROVE  ChronicleAt(g, r2, now)
BY DEF ChronicleAt, Reaches, Past

(* A step that ends the export. *)
LEMMA OffKeepsChronicle ==
    ASSUME NEW f, NEW g, NEW r, NEW r2, NEW now, ChronicleAt(f, r, now),
           Rows(g) \subseteq Rows(f), InOrder(g), r2.pc = "off"
    PROVE  ChronicleAt(g, r2, now)
BY DEF ChronicleAt, Past

(* A reading as far as every one before it goes behind them. *)
LEMMA ReadingKeepsOrder ==
    ASSUME NEW f \in Seq(Line), InOrder(f), NEW doc \in Doc, \A row \in Rows(f) : NotAhead(row, doc)
    PROVE  LET g == Append(f, SessionRow(doc)) IN
           /\ g \in Seq(Line) /\ InOrder(g)
           /\ \A x : x \in Rows(g) <=> x \in Rows(f) \/ x = SessionRow(doc)
<1> DEFINE new == SessionRow(doc)
           g == Append(f, new)
<1>1. /\ new \in RowSet /\ new \in Line /\ new.at = doc.at /\ new.end = doc.world.end /\ new.value = doc.world.total
      /\ new.at \in Nat /\ new.end \in Nat /\ new.value \in Nat
    BY DEF SessionRow, Row, RowSet, Doc, World, Line
<1> HIDE DEF new
<1>2. /\ g \in Seq(Line) /\ Len(g) = Len(f) + 1 /\ g[Len(f) + 1] = new /\ \A i \in 1 .. Len(f) : g[i] = f[i]
      /\ Len(f) \in Nat /\ DOMAIN f = 1 .. Len(f)
    BY <1>1, AppendProperties, LenProperties
<1>3. DOMAIN g = 1 .. (Len(f) + 1)
    BY <1>2, LenProperties
<1>4. \A x : x \in Rows(g) <=> x \in Rows(f) \/ x = new
    BY <1>1, RowsOfAppend
<1> HIDE DEF g
<1>5. ASSUME NEW i \in 1 .. (Len(f) + 1), NEW j \in 1 .. (Len(f) + 1), i <= j, IsRow(g[i]), IsRow(g[j])
      PROVE  g[i].at <= g[j].at /\ g[i].end <= g[j].end /\ g[i].value <= g[j].value
    <2>1. CASE j \in 1 .. Len(f)
        <3>1. i \in 1 .. Len(f)
            BY <1>2, <1>5, <2>1
        <3>2. QED
            BY <1>2, <1>5, <2>1, <3>1 DEF InOrder
    <2>2. CASE j = Len(f) + 1 /\ i \in 1 .. Len(f)
        <3>1. g[i] \in Rows(f) /\ g[j] = new
            BY <1>2, <1>5, <2>2, RowsAreOfLines
        <3>2. NotAhead(g[i], doc)
            BY <3>1
        <3>3. QED
            BY <1>1, <3>1, <3>2 DEF NotAhead
    <2>3. CASE j = Len(f) + 1 /\ i = Len(f) + 1
        BY <1>1, <1>2, <2>3
    <2>4. QED
        BY <1>2, <2>1, <2>2, <2>3
<1>6. InOrder(g)
    BY <1>3, <1>5 DEF InOrder
<1>7. QED
    BY <1>2, <1>4, <1>6 DEF g, new

(* A reading that adds nothing was read before, or the session still runs. *)
LEMMA KnownIsReached ==
    ASSUME NEW f \in Seq(Line), NEW doc \in Doc, ~Malformed(f),
           \A row \in Rows(f) : row.kind = "session" /\ row.method = "capture",
           NewRows("export", "sessions", f, doc) = <<>>, Settled(doc)
    PROVE  Reaches(f, doc)
<1> DEFINE new == SessionRow(doc)
           earlier == SameReading(f, new)
           i == CHOOSE i \in earlier : \A j \in earlier : j <= i
<1>1. /\ new.kind = "session" /\ new.method = "capture" /\ new.at = doc.at /\ new.end = doc.world.end
      /\ new.value = doc.world.total /\ new \in RowSet
    BY DEF SessionRow, Row, RowSet, Doc, World
<1>2. Known(f, new)
    <2>1. NewRows("export", "sessions", f, doc) = IfNew(f, new)
        BY DEF NewRows
    <2>2. <<new>> # <<>>
        OBVIOUS
    <2>3. QED
        BY <2>1, <2>2 DEF IfNew
<1>3. earlier # {} /\ (Unchanged(f[i], new) \/ Deferred(f[i], new))
    BY <1>2 DEF Known
<1> HIDE DEF new
<1>4. /\ Len(f) \in Nat /\ DOMAIN f = 1 .. Len(f)
      /\ \A j \in 1 .. Len(f) : IsRow(f[j]) /\ f[j] \in Rows(f)
    <2>1. DOMAIN f = 1 .. Len(f) /\ Len(f) \in Nat
        BY LenProperties
    <2>2. QED
        BY <2>1, RowsAreOfLines DEF Malformed
<1>5. earlier = 1 .. Len(f)
    BY <1>1, <1>4 DEF SameReading
<1>6. Len(f) \in earlier /\ \A j \in earlier : j <= Len(f)
    BY <1>3, <1>4, <1>5
<1> HIDE DEF earlier
<1>7. i \in earlier
    BY <1>6
<1> HIDE DEF i
<1>8. f[i] \in Rows(f) /\ f[i] \in RowSet
    BY <1>4, <1>5, <1>7, RowsAreOfLines
<1>9. ~Deferred(f[i], new)
    <2>1. doc.at - doc.world.end >= Settle /\ doc.at \in Nat /\ doc.world.end \in Nat /\ Settle \in Nat
        BY LedgerAssumption DEF Settled, Doc, World
    <2>2. QED
        BY <1>1, <2>1 DEF Deferred
<1>10. f[i].end >= doc.world.end /\ f[i].value >= doc.world.total
    <2>1. f[i].end = doc.world.end /\ f[i].value = doc.world.total
        BY <1>1, <1>3, <1>9 DEF Unchanged
    <2>2. doc.world.end \in Nat /\ doc.world.total \in Nat
        BY DEF Doc, World
    <2>3. QED
        BY <2>1, <2>2
<1>11. QED
    BY <1>8, <1>10 DEF Reaches

(* A step of a run leaves the others as they are. *)
LEMMA OthersRunOn ==
    ASSUME TypeOK, NEW w \in Writer, RunStep(w) \/ WritesShort(w) \/ Stops(w)
    PROVE  \A v \in Writer \ {w} : run'[v] = run[v]
<1>1. DOMAIN run = Writer
    BY DEF TypeOK
<1>2. \A v \in Writer \ {w} : End(w) \/ Advance(w) \/ (\E pc : Goes(w, pc)) => run'[v] = run[v]
    BY <1>1 DEF End, Advance, Goes
<1>3. Start(w) \/ Fetch(w) \/ Ask(w) \/ Repair(w) \/ ReadIndex(w) => \A v \in Writer \ {w} : run'[v] = run[v]
    BY <1>1, <1>2 DEF Start, Fetch, Ask, Repair, ReadIndex
<1>4. KeepLast(w) \/ FetchRefused(w) \/ Truncate(w) \/ WriteLines(w) => \E pc : Goes(w, pc)
    BY DEF KeepLast, FetchRefused, Truncate, WriteLines
<1>5. AskRefused(w) \/ Finish(w) \/ WritesShort(w) \/ Stops(w) => End(w)
    BY DEF AskRefused, Finish, WritesShort, Stops
<1>6. Sync(w) => Advance(w)
    BY DEF Sync
<1>7. QED
    BY <1>2, <1>3, <1>4, <1>5, <1>6 DEF RunStep

(* The steps of the others leave the record of the sessions alone. *)
LEMMA OthersKeepSessions ==
    ASSUME LedgerInv, OrderInv, NEW w \in Writer, w # "export", RunStep(w) \/ WritesShort(w) \/ Stops(w)
    PROVE  file'["sessions"] = file["sessions"] /\ run'["export"] = run["export"]
<1>1. run'["export"] = run["export"]
    BY OthersRunOn DEF LedgerInv, Writer
<1>2. ASSUME Sync(w) \/ Truncate(w) \/ WriteLines(w) \/ WritesShort(w) PROVE Current(w) = "github"
    <2>1. run[w].pc \notin {"off", "done"}
        BY <1>2 DEF Sync, Truncate, WriteLines, WritesShort, At
    <2>2. QED
        BY <2>1, WorksAt
<1>3. \A g : file' = [file EXCEPT !["github"] = g] => file'["sessions"] = file["sessions"]
    BY DEF LedgerInv, TypeOK, Stream
<1>4. file'["sessions"] = file["sessions"]
    BY <1>2, <1>3, Writes
<1>5. QED
    BY <1>1, <1>4

(* The steps of the export. *)
LEMMA ExportKeepsChronicle ==
    ASSUME LedgerInv, OrderInv, ~raced, RunStep("export") \/ WritesShort("export") \/ Stops("export"),
           ChronicleAt(file["sessions"], run["export"], Now)
    PROVE  ChronicleAt(file'["sessions"], run'["export"], Now)
<1> DEFINE w == "export"
           f == file["sessions"]
           r == run["export"]
<1>0. /\ w \in Writer /\ "sessions" \in Stream /\ "usage" \in Stream /\ f \in Seq(Line) /\ r \in Run /\ RunOK(r)
      /\ InOrder(f) /\ DOMAIN run = Writer /\ DOMAIN file = Stream /\ Now \in Doc
    BY DEF Writer, Stream, LedgerInv, TypeOK, ChronicleAt, Now, Doc
<1>1. CASE End(w) /\ UNCHANGED file
    <2>1. run'[w].pc = "off"
        BY <1>0, <1>1 DEF End, Idle
    <2>2. QED
        BY <1>0, <1>1, <2>1, OffKeepsChronicle
<1>2. CASE Start(w)
    <2>1. UNCHANGED file /\ run'[w].doc = Now /\ run'[w].todo = Plan("export")
        BY <1>0, <1>2 DEF Start, Idle, Now
    <2>2. \A row \in RowSet : row.at \in Nat /\ row.end \in Nat /\ row.value \in Nat
        BY DEF RowSet
    <2>3. NotAhead(SessionRow(Now), Now)
        <3>1. Now.at \in Nat /\ Now.world.end \in Nat /\ Now.world.total \in Nat
            BY <1>0 DEF Doc, World
        <3>2. SessionRow(Now).at = Now.at /\ SessionRow(Now).end = Now.world.end /\ SessionRow(Now).value = Now.world.total
            BY DEF SessionRow, Row
        <3> HIDE DEF Now
        <3>3. QED
            BY <3>1, <3>2 DEF NotAhead
    <2>4. ~Past(run'[w])
        BY <2>1 DEF Past
    <2>5. QED
        BY <2>1, <2>3, <2>4 DEF ChronicleAt
<1>3. ASSUME UNCHANGED file, r.pc # "off", run'[w].doc = r.doc, run'[w].todo = r.todo
      PROVE  ChronicleAt(file'["sessions"], run'["export"], Now)
    <2>1. Past(run'[w]) => Past(r)
        BY <1>3 DEF Past
    <2>2. QED
        BY <1>0, <1>3, <2>1, RunKeepsChronicle
<1>4. CASE KeepLast(w) \/ Repair(w)
    <2>1. r.pc # "off" /\ UNCHANGED file
        BY <1>4 DEF KeepLast, Repair, At
    <2>2. run'[w].doc = r.doc /\ run'[w].todo = r.todo
        BY <1>0, <1>4 DEF KeepLast, Repair, Goes, Run
    <2>3. QED
        BY <1>3, <2>1, <2>2
<1>5. ~Fetch(w) /\ ~FetchRefused(w) /\ ~Ask(w)
    <2>1. r.pc \notin {"fetch", "ask"}
        BY <1>0 DEF OrderInv, KeepsToItsPlan
    <2>2. QED
        BY <2>1 DEF Fetch, FetchRefused, Ask, At
<1>6. ASSUME r.pc \notin {"off", "done"}
      PROVE  \/ r.todo = Plan("export") /\ Current(w) = "sessions" /\ Tail(r.todo) = <<"usage">>
             \/ r.todo = <<"usage">> /\ Current(w) = "usage" /\ Tail(r.todo) = <<>>
    BY <1>0, <1>6, WorksAt
<1>7. Plan("export") = <<"sessions", "usage">> /\ <<"usage">> # <<"sessions", "usage">> /\ <<>> # <<"sessions", "usage">>
    BY DEF Plan
<1>8. ASSUME r.pc \notin {"off", "done"}, UNCHANGED file, Advance(w),
             Current(w) = "sessions" => (Settled(r.doc) => Reaches(f, r.doc))
      PROVE  ChronicleAt(file'["sessions"], run'["export"], Now)
    <2>1. run'[w].doc = r.doc /\ run'[w].pc # "off" /\ run'[w].todo = Tail(r.todo)
        BY <1>0, <1>8 DEF Advance, Run
    <2>2. Past(r) \/ (Settled(r.doc) => Reaches(f, r.doc))
        BY <1>6, <1>7, <1>8 DEF Past
    <2>3. QED
        BY <1>0, <1>8, <2>1, <2>2, RunKeepsChronicle
<1>9. CASE Sync(w)
    <2>1. r.pc = "sync" /\ UNCHANGED file /\ Advance(w)
        BY <1>9 DEF Sync, At
    <2>2. ASSUME Current(w) = "sessions" PROVE Reaches(f, r.doc)
        <3>1. r.lines = <<SessionRow(r.doc)>> /\ Rows(r.lines) \subseteq Rows(f) /\ r.doc \in Doc
            BY <1>0, <2>1, <2>2, WorksAt, UnderWay DEF PlanOf, Relies, Current
        <3> DEFINE row == SessionRow(r.doc)
        <3>2. row \in Line /\ row \in RowSet /\ row.end = r.doc.world.end /\ row.value = r.doc.world.total
            BY <3>1 DEF SessionRow, Row, RowSet, Doc, World, Line
        <3> HIDE DEF row
        <3>3. row \in Rows(<<row>>)
            <4>1. <<row>> \in Seq(Line) /\ Len(<<row>>) = 1 /\ <<row>>[1] = row /\ 1 \in 1 .. 1 /\ IsRow(row)
                BY <3>2, Lines
            <4>2. QED
                BY <4>1, RowsAreOfLines
        <3>4. row \in Rows(f)
            BY <3>1, <3>3 DEF row
        <3>5. row.end >= r.doc.world.end /\ row.value >= r.doc.world.total
            <4>1. r.doc.world.end \in Nat /\ r.doc.world.total \in Nat
                BY <3>1 DEF Doc, World
            <4>2. QED
                BY <3>2, <4>1
        <3>6. QED
            BY <3>4, <3>5 DEF Reaches
    <2>3. QED
        BY <1>8, <2>1, <2>2
<1>10. CASE ReadIndex(w)
    <2> DEFINE new == NewRows(w, Current(w), file[Current(w)], r.doc)
    <2>1. r.pc = "read" /\ UNCHANGED file
        BY <1>10 DEF ReadIndex, At
    <2>2. \/ End(w)
          \/ ~Malformed(file[Current(w)]) /\ new = <<>> /\ Advance(w)
          \/ run' = [run EXCEPT ![w] = [r EXCEPT !.pc = "write", !.lines = new]]
        BY <1>10 DEF ReadIndex
    <2>3. CASE ~Malformed(file[Current(w)]) /\ new = <<>> /\ Advance(w)
        <3>1. r.doc \in Doc
            BY <1>0, <2>1, UnderWay
        <3>2. ASSUME Current(w) = "sessions", Settled(r.doc) PROVE Reaches(f, r.doc)
            <4>1. ~Malformed(f) /\ NewRows("export", "sessions", f, r.doc) = <<>>
                BY <2>3, <3>2
            <4>2. \A row \in Rows(f) : row.kind = "session" /\ row.method = "capture"
                BY DEF ChronicleAt
            <4> HIDE DEF f, r
            <4>3. QED
                BY <1>0, <3>1, <3>2, <4>1, <4>2, KnownIsReached
        <3>3. QED
            BY <1>8, <2>1, <2>3, <3>2
    <2>4. CASE run' = [run EXCEPT ![w] = [r EXCEPT !.pc = "write", !.lines = new]]
        <3>1. run'[w].doc = r.doc /\ run'[w].todo = r.todo
            <4> HIDE DEF new
            <4>1. QED
                BY <1>0, <2>4 DEF Run
        <3>2. QED
            BY <1>3, <2>1, <3>1
    <2>5. QED
        BY <1>1, <2>1, <2>2, <2>3, <2>4
<1>11. ASSUME Goes(w, "read") \/ Goes(w, "sync") PROVE run'[w].doc = r.doc /\ run'[w].todo = r.todo /\ run'[w].pc # "off"
    BY <1>0, <1>11 DEF Goes, Run
<1>12. \A g : /\ file' = [file EXCEPT !["sessions"] = g] => file'["sessions"] = g
              /\ file' = [file EXCEPT !["usage"] = g] => file'["sessions"] = file["sessions"]
    BY <1>0
<1>13. ASSUME r.pc \notin {"off", "done"}, run'[w].doc = r.doc, run'[w].todo = r.todo,
              NEW g, Rows(g) \subseteq Rows(f), InOrder(g),
              file' = [file EXCEPT ![Current(w)] = IF Current(w) = "sessions" THEN g ELSE file'[Current(w)]]
       PROVE  ChronicleAt(file'["sessions"], run'["export"], Now)
    <2>1. CASE Current(w) = "sessions"
        <3>1. file'["sessions"] = g /\ r.todo = Plan("export")
            BY <1>6, <1>7, <1>12, <1>13, <2>1
        <3>2. ~Past(run'[w])
            BY <1>13, <3>1 DEF Past
        <3>3. QED
            BY <1>13, <3>1, <3>2, RunKeepsChronicle
    <2>2. CASE Current(w) = "usage"
        <3>1. file'["sessions"] = f
            BY <1>12, <1>13, <2>2
        <3>2. Past(run'[w]) => Past(r)
            BY <1>13 DEF Past
        <3>3. QED
            BY <1>0, <1>13, <3>1, <3>2, RunKeepsChronicle
    <2>3. QED
        BY <1>6, <1>13, <2>1, <2>2
<1>14. CASE Truncate(w)
    <2> DEFINE g == IF r.seen <= Len(f) THEN SubSeq(f, 1, r.seen) ELSE Append(f, Cut)
    <2>1. r.pc = "truncate" /\ Goes(w, "read") /\ r.seen \in Nat
        BY <1>0, <1>14 DEF Truncate, At, Run
    <2>2. g \in Seq(Line) /\ Rows(g) \subseteq Rows(f) /\ InOrder(g)
        BY <1>0, <2>1, TruncatedIsWithin, WithinMeans
    <2>3. \/ Current(w) = "sessions" /\ file' = [file EXCEPT !["sessions"] = g]
          \/ Current(w) = "usage" /\ file' = [file EXCEPT !["usage"] = file'["usage"]]
        <3>1. Current(w) = "sessions" \/ Current(w) = "usage"
            BY <1>6, <2>1
        <3>2. file' = [file EXCEPT ![Current(w)] = IF r.seen <= Len(file[Current(w)])
                         THEN SubSeq(file[Current(w)], 1, r.seen) ELSE Append(file[Current(w)], Cut)]
            BY <1>14 DEF Truncate
        <3>3. \A h : file' = [file EXCEPT !["usage"] = h] => file' = [file EXCEPT !["usage"] = file'["usage"]]
            BY <1>0
        <3>4. QED
            BY <3>1, <3>2, <3>3
    <2> HIDE DEF g
    <2>4. file' = [file EXCEPT ![Current(w)] = IF Current(w) = "sessions" THEN g ELSE file'[Current(w)]]
        BY <2>3
    <2>5. QED
        BY <1>11, <1>13, <2>1, <2>2, <2>4
<1>15. CASE WriteLines(w)
    <2>1. r.pc = "write" /\ Goes(w, "sync")
          /\ file' = [file EXCEPT ![Current(w)] = Extend(file[Current(w)], r.lines)]
        BY <1>15 DEF WriteLines, At
    <2>2. run'[w].doc = r.doc /\ run'[w].todo = r.todo /\ run'[w].pc # "off"
        BY <1>11, <2>1
    <2>3. CASE Current(w) = "sessions"
        <3>1. r.lines = <<SessionRow(r.doc)>> /\ ~Partial(f) /\ r.doc \in Doc
            BY <1>0, <2>1, <2>3, WorksAt, UnderWay DEF PlanOf, Relies, Current
        <3> DEFINE g == Append(f, SessionRow(r.doc))
        <3>2. file'["sessions"] = g
            <4>1. SessionRow(r.doc) \in Line
                BY <3>1 DEF SessionRow, Row, RowSet, Doc, World, Line
            <4>2. Extend(f, r.lines) = g
                BY <1>0, <3>1, <4>1, AppendIsConcat DEF Extend
            <4> HIDE DEF g
            <4>3. QED
                BY <1>12, <2>1, <2>3, <4>2
        <3>3. \A row \in Rows(f) : NotAhead(row, r.doc)
            BY <2>1 DEF ChronicleAt
        <3>4. InOrder(g) /\ \A x : x \in Rows(g) <=> x \in Rows(f) \/ x = SessionRow(r.doc)
            <4> HIDE DEF f
            <4>1. QED
                BY <1>0, <3>1, <3>3, ReadingKeepsOrder
        <3> HIDE DEF g
        <3>5. NotAhead(SessionRow(r.doc), Now) /\ NotAhead(SessionRow(r.doc), r.doc)
            <4>1. NotAhead(SessionRow(r.doc), Now)
                BY <2>1 DEF ChronicleAt
            <4>2. /\ SessionRow(r.doc).at = r.doc.at /\ SessionRow(r.doc).end = r.doc.world.end
                  /\ SessionRow(r.doc).value = r.doc.world.total
                  /\ r.doc.at \in Nat /\ r.doc.world.end \in Nat /\ r.doc.world.total \in Nat
                BY <3>1 DEF SessionRow, Row, Doc, World
            <4>3. QED
                BY <4>1, <4>2 DEF NotAhead
        <3>6. SessionRow(r.doc).kind = "session" /\ SessionRow(r.doc).method = "capture"
            BY DEF SessionRow, Row
        <3>7. ~Past(run'[w])
            BY <1>6, <1>7, <2>1, <2>2, <2>3 DEF Past
        <3>8. ChronicleAt(g, run'[w], Now)
            BY <2>1, <2>2, <3>3, <3>4, <3>5, <3>6, <3>7 DEF ChronicleAt
        <3>9. QED
            BY <3>2, <3>8
    <2>4. CASE Current(w) = "usage"
        <3>1. file'["sessions"] = f
            BY <1>12, <2>1, <2>4
        <3>2. Past(run'[w]) => Past(r)
            BY <2>1, <2>2 DEF Past
        <3>3. QED
            BY <1>0, <2>1, <2>2, <3>1, <3>2, RunKeepsChronicle
    <2>5. QED
        BY <1>6, <2>1, <2>3, <2>4
<1>16. CASE WritesShort(w)
    <2>1. r.pc = "write" /\ run'[w].pc = "off"
        BY <1>0, <1>16 DEF WritesShort, At, End, Idle
    <2>2. PICK n \in 0 .. Len(r.lines) - 1 :
            file' = [file EXCEPT ![Current(w)] = Extend(file[Current(w)], SubSeq(r.lines, 1, n) \o <<Cut>>)]
        BY <1>16 DEF WritesShort
    <2>3. Rows(file'["sessions"]) \subseteq Rows(f) /\ InOrder(file'["sessions"])
        <3>1. CASE Current(w) = "sessions"
            <4>1. r.lines = <<SessionRow(r.doc)>> /\ ~Partial(f) /\ r.lines \in Seq(RowSet)
                BY <1>0, <2>1, <3>1, WorksAt, UnderWay DEF PlanOf, Relies, Current, Run
            <4>2. Len(r.lines) = 1
                BY <4>1
            <4>3. SubSeq(r.lines, 1, n) \o <<Cut>> = <<Cut>>
                BY <4>1, <4>2, ShortOfRows
            <4>4. file'["sessions"] = f \o <<Cut>>
                BY <1>12, <2>2, <3>1, <4>1, <4>3 DEF Extend
            <4>5. file'["sessions"] = Append(f, Cut)
                BY <1>0, <4>4, Lines, AppendIsConcat
            <4>6. Within(f, f)
                BY DEF Within
            <4>7. file'["sessions"] \in Seq(Line) /\ Within(file'["sessions"], f)
                BY <1>0, <4>5, <4>6, CutIsNoRow
            <4>8. QED
                BY <1>0, <4>7, WithinMeans
        <3>2. CASE Current(w) = "usage"
            <4>1. file'["sessions"] = f
                BY <1>12, <2>2, <3>2
            <4>2. QED
                BY <1>0, <4>1
        <3>3. QED
            BY <1>6, <2>1, <3>1, <3>2
    <2>4. QED
        BY <2>1, <2>3, OffKeepsChronicle
<1>17. CASE AskRefused(w) \/ Finish(w) \/ Stops(w)
    <2>1. End(w) /\ UNCHANGED file
        BY <1>17 DEF AskRefused, Finish, Stops
    <2>2. QED
        BY <1>1, <2>1
<1>18. QED
    BY <1>2, <1>4, <1>5, <1>9, <1>10, <1>14, <1>15, <1>16, <1>17 DEF RunStep

(* An empty record is in order. *)
LEMMA InitOrderInv == Init => OrderInv
<1> SUFFICES ASSUME Init PROVE OrderInv
    OBVIOUS
<1>1. Rows(<<>>) = {} /\ DOMAIN <<>> = {} /\ NoSessions(<<>>) /\ InOrder(<<>>)
    BY DEF Rows, NoSessions, InOrder
<1>2. Idle.pc = "off"
    BY DEF Idle
<1>3. \A s \in Stream : file[s] = <<>> /\ disk[s] = <<>>
    BY DEF Init
<1>4. "sessions" \in Stream /\ "usage" \in Stream /\ "github" \in Stream /\ "export" \in Writer
    BY DEF Stream, Writer
<1>5. Chronicle(file["sessions"], run["export"])
    BY <1>1, <1>2, <1>3, <1>4 DEF Init, Chronicle, Past
<1>6. \A w \in Writer : KeepsToItsPlan(w)
    BY <1>2 DEF Init, KeepsToItsPlan
<1>7. world.end <= clock
    BY DEF Init
<1>8. QED
    BY <1>1, <1>3, <1>4, <1>5, <1>6, <1>7 DEF OrderInv

(* Every step keeps the order. *)
LEMMA NextKeepsOrderInv == LedgerInv /\ OrderInv /\ [Next]_vars => OrderInv'
<1> SUFFICES ASSUME LedgerInv, OrderInv, [Next]_vars PROVE OrderInv'
    OBVIOUS
<1>1. CASE UNCHANGED vars
    BY <1>1 DEF vars, OrderInv, KeepsToItsPlan, Chronicle
<1>2. CASE Next
    <2>1. world'.end <= clock' /\ (world' = world \/ (world'.end >= world.end /\ world'.total >= world.total /\ clock' = clock))
        BY <1>2, EndsArePast
    <2>2. (\A s \in {"usage", "github"} : NoSessions(file'[s]) /\ NoSessions(disk'[s])) /\ \A w \in Writer : KeepsToItsPlan(w)'
        BY <1>2, DaysStayDays, PlansAreKept
    <2>3. ASSUME ~raced' PROVE ChronicleAt(file'["sessions"], run'["export"], Now')
        <3>1. ~raced
            BY <1>2, <2>3, RacesMeans DEF Next, LedgerInv, TypeOK
        <3>2. ChronicleAt(file["sessions"], run["export"], Now)
            BY <3>1, ChronicleMeans DEF OrderInv
        <3>3. /\ "export" \in Writer /\ "sessions" \in Stream /\ file["sessions"] \in Seq(Line) /\ disk["sessions"] \in Seq(Line)
              /\ run["export"].pc # "off" => run["export"].doc \in Doc
              /\ Now \in Doc /\ InOrder(file["sessions"])
            BY <3>2 DEF LedgerInv, TypeOK, RunOK, Writer, Stream, Now, Doc, ChronicleAt
        <3>4. CASE Passes \/ WorldMoves \/ \E t \in Stream : EntryWritten(t)
            <4>1. UNCHANGED <<file, run>>
                BY <3>4 DEF Passes, WorldMoves, Moves, EntryWritten
            <4>2. Now' \in Doc
                BY <1>2, NextKeepsLedgerInv DEF LedgerInv, TypeOK, Now, Doc
            <4>3. clock' >= clock /\ world'.end >= world.end /\ world'.total >= world.total
                <5>1. clock \in Nat /\ world.end \in Nat /\ world.total \in Nat
                    BY DEF LedgerInv, TypeOK, World
                <5>2. clock' = clock + 1 \/ clock' = clock
                    BY <3>4 DEF Passes, WorldMoves, Moves, EntryWritten
                <5>3. QED
                    BY <2>1, <5>1, <5>2
            <4>4. /\ Now.at = clock /\ Now.world = world /\ Now'.at = clock' /\ Now'.world = world'
                BY DEF Now
            <4> DEFINE later == Now'
            <4>5. later \in Doc /\ later.at >= Now.at /\ later.world.end >= Now.world.end /\ later.world.total >= Now.world.total
                BY <4>2, <4>3, <4>4
            <4> HIDE DEF later
            <4>6. ChronicleAt(file["sessions"], run["export"], later)
                BY <3>2, <3>3, <4>5, TimeKeepsChronicle
            <4>7. QED
                BY <4>1, <4>6 DEF later
        <3>5. CASE PowerLoss
            <4>1. /\ \/ file'["sessions"] \in Survivors(disk["sessions"], file["sessions"])
                     \/ file'["sessions"] = <<>> /\ Rows(file'["sessions"]) = {}
                  /\ run'["export"] = Idle /\ UNCHANGED <<clock, world>>
                BY <3>3, <3>5, PowerLossLeaves
            <4>2. ASSUME file'["sessions"] \in Survivors(disk["sessions"], file["sessions"])
                  PROVE  file'["sessions"] \in Seq(Line) /\ Within(file'["sessions"], file["sessions"])
                <5>1. Safe(acked["sessions"], disk["sessions"], file["sessions"])
                    BY <3>1, <3>3 DEF LedgerInv
                <5>2. QED
                    BY <3>3, <4>2, <5>1, SurvivorIsWithin
            <4>3. Rows(file'["sessions"]) \subseteq Rows(file["sessions"]) /\ InOrder(file'["sessions"])
                <5>1. CASE file'["sessions"] \in Survivors(disk["sessions"], file["sessions"])
                    BY <3>3, <4>2, <5>1, WithinMeans
                <5>2. DOMAIN <<>> = {}
                    BY EmptySeq
                <5>3. InOrder(<<>>)
                    BY <5>2 DEF InOrder
                <5>4. QED
                    BY <4>1, <5>1, <5>3
            <4>4. Idle.pc = "off" /\ Now' = Now
                BY <4>1 DEF Idle, Now
            <4>5. QED
                BY <3>2, <4>1, <4>3, <4>4, OffKeepsChronicle
        <3>6. ASSUME NEW w \in Writer, RunStep(w) \/ WritesShort(w) \/ Stops(w)
              PROVE  ChronicleAt(file'["sessions"], run'["export"], Now')
            <4>1. Now' = Now
                <5>1. RunStep(w) => Keeps
                    BY DEF RunStep, Start, KeepLast, Fetch, FetchRefused, Ask, AskRefused, Repair, Truncate, ReadIndex,
                           WriteLines, Sync, Finish
                <5>2. WritesShort(w) \/ Stops(w) => Fault
                    BY DEF WritesShort, Stops
                <5>3. QED
                    BY <3>6, <5>1, <5>2 DEF Keeps, Fault, Now
            <4>2. CASE w = "export"
                BY <3>1, <3>2, <3>6, <4>1, <4>2, ExportKeepsChronicle
            <4>3. CASE w # "export"
                BY <3>2, <3>6, <4>1, <4>3, OthersKeepSessions
            <4>4. QED
                BY <4>2, <4>3
        <3>7. QED
            BY <1>2, <3>4, <3>5, <3>6 DEF Next
    <2>4. QED
        BY <2>1, <2>2, <2>3, ChronicleMeans DEF OrderInv
<1>3. QED
    BY <1>1, <1>2

(* The view of sessions that stand in order is the last of them, which is  *)
(* as far as any.                                                          *)
LatestOf(f, row) ==
  row \in Rows(f) /\ \A x \in Rows(f) : x.at <= row.at /\ x.end <= row.end /\ x.value <= row.value

AllSessions(f) == \A row \in Rows(f) : row.kind = "session"

ViewIsLatest(f) == IF Rows(f) = {} THEN View(f) = NoReading ELSE LatestOf(f, View(f))

(* One line more, in order, is the latest. *)
LEMMA LatestOfAppend ==
    ASSUME NEW f \in Seq(Line), NEW l \in Line, AllSessions(Append(f, l)), InOrder(Append(f, l)), ViewIsLatest(f)
    PROVE  ViewIsLatest(Append(f, l))
<1> DEFINE g == Append(f, l)
<1>1. \A x : x \in Rows(g) <=> x \in Rows(f) \/ (x = l /\ l \in RowSet)
    BY RowsOfAppend
<1>2. View(g) = Weigh(View(f), l) /\ Rows(f) \subseteq RowSet
    BY ViewOfAppend, RowsAreOfLines
<1>3. /\ g \in Seq(Line) /\ Len(g) = Len(f) + 1 /\ g[Len(f) + 1] = l /\ \A i \in 1 .. Len(f) : g[i] = f[i]
      /\ Len(f) \in Nat
    BY AppendProperties, LenProperties
<1>4. DOMAIN g = 1 .. (Len(f) + 1)
    BY <1>3, LenProperties
<1> HIDE DEF g
<1>5. CASE l \notin RowSet
    <2>1. Rows(g) = Rows(f)
        BY <1>1, <1>5
    <2>2. View(g) = View(f)
        BY <1>2, <1>5, WeighType DEF Weigh
    <2>3. QED
        BY <2>1, <2>2 DEF ViewIsLatest, LatestOf, g
<1>6. CASE l \in RowSet
    <2>1. l \in Rows(g) /\ l.kind = "session" /\ IsReading(l) /\ IsRow(l) /\ l.at \in Nat
        BY <1>1, <1>6, WeighType, Lines DEF AllSessions, g, RowSet
    <2>2. ASSUME NEW x \in Rows(f) PROVE x.at <= l.at /\ x.end <= l.end /\ x.value <= l.value
        <3>1. PICK i \in 1 .. Len(f) : x = f[i] /\ IsRow(f[i])
            BY RowsAreOfLines
        <3>2. i \in DOMAIN g /\ Len(f) + 1 \in DOMAIN g /\ i <= Len(f) + 1 /\ g[i] = x
            BY <1>3, <1>4, <3>1
        <3>3. QED
            BY <1>3, <2>1, <3>1, <3>2 DEF InOrder, g
    <2>3. View(g) = l
        <3>1. CASE Rows(f) = {}
            BY <1>2, <2>1, <3>1 DEF ViewIsLatest, Weigh
        <3>2. CASE Rows(f) # {}
            <4>1. View(f) \in Rows(f) /\ View(f).at <= l.at /\ View(f) \in RowSet /\ View(f).at \in Nat
                BY <1>2, <2>2, <3>2 DEF ViewIsLatest, LatestOf, RowSet
            <4>2. View(f) # NoReading
                BY <4>1, WeighType
            <4>3. l.at >= View(f).at
                BY <2>1, <4>1
            <4>4. QED
                BY <1>2, <2>1, <4>2, <4>3 DEF Weigh, Preferred
        <3>3. QED
            BY <3>1, <3>2
    <2>4. l.at <= l.at /\ l.end <= l.end /\ l.value <= l.value
        BY <1>6 DEF RowSet
    <2>5. Rows(g) # {} /\ LatestOf(g, l)
        BY <1>1, <2>1, <2>2, <2>4 DEF LatestOf
    <2>6. QED
        BY <2>3, <2>5 DEF ViewIsLatest, g
<1>7. QED
    BY <1>5, <1>6

(* The view of sessions in order is their latest. *)
LEMMA LatestView ==
    ASSUME NEW lines \in Seq(Line), AllSessions(lines), InOrder(lines)
    PROVE  ViewIsLatest(lines)
<1> DEFINE T == {f \in Seq(Line) : AllSessions(f) /\ InOrder(f) => ViewIsLatest(f)}
<1>1. T \subseteq Seq(Line) /\ <<>> \in T
    <2>1. Rows(<<>>) = {} /\ <<>> \in Seq(Line)
        BY EmptySeq DEF Rows
    <2>2. View(<<>>) = NoReading
        BY <2>1, ViewOfAppend, Lines
    <2>3. QED
        BY <2>1, <2>2 DEF ViewIsLatest
<1>2. ASSUME NEW f \in T, NEW l \in Line PROVE Append(f, l) \in T
    <2>1. /\ f \in Seq(Line) /\ Append(f, l) \in Seq(Line) /\ Len(Append(f, l)) = Len(f) + 1 /\ Len(f) \in Nat
          /\ \A i \in 1 .. Len(f) : Append(f, l)[i] = f[i]
        BY AppendProperties, LenProperties
    <2>2. Within(f, Append(f, l))
        BY <2>1 DEF Within
    <2>3. AllSessions(Append(f, l)) /\ InOrder(Append(f, l)) => AllSessions(f) /\ InOrder(f)
        BY <2>1, <2>2, WithinMeans DEF AllSessions
    <2>4. QED
        BY <2>1, <2>3, LatestOfAppend
<1>3. T = Seq(Line)
    <2> HIDE DEF T
    <2>1. QED
        BY <1>1, <1>2, SeqsByAppend
<1>4. QED
    BY <1>3

(* A line that is no row weighs nothing. *)
LEMMA WholeLinesSayAll ==
    ASSUME NEW d \in Seq(Line)
    PROVE  WholeLines(d) \in Seq(Line) /\ View(WholeLines(d)) = View(d)
<1>1. CASE ~Partial(d)
    BY <1>1 DEF WholeLines
<1>2. CASE Partial(d)
    <2>1. Len(d) \in Nat \ {0} /\ d[Len(d)] = Cut
        BY <1>2, EmptySeq DEF Partial
    <2> DEFINE n == Len(d) - 1
               front == SubSeq(d, 1, n)
    <2>2. n \in Nat /\ n <= Len(d) /\ n + 1 = Len(d)
        BY <2>1
    <2>3. front \in Seq(Line) /\ Len(front) = n /\ \A i \in 1 .. n : front[i] = d[i]
        <3>1. \A i \in 1 .. n : d[i] \in Line
            BY <2>2, LenProperties, ElementOfSeq
        <3>2. /\ Len(front) = (IF 1 <= n THEN n - 1 + 1 ELSE 0)
              /\ \A i \in 1 .. n - 1 + 1 : front[i] = d[1 + i - 1]
            BY <2>2, <3>1, SubSeqProperties
        <3>3. front \in Seq(Line)
            BY <2>2, <3>1, SubSeqProperties
        <3> HIDE DEF front, n
        <3>4. QED
            BY <2>2, <3>2, <3>3
    <2>4. WholeLines(d) = front
        BY <1>2 DEF WholeLines, Front
    <2> HIDE DEF front, n
    <2>5. /\ Append(front, Cut) \in Seq(Line) /\ Len(Append(front, Cut)) = n + 1
          /\ \A i \in 1 .. n : Append(front, Cut)[i] = d[i]
          /\ Append(front, Cut)[n + 1] = Cut
        BY <2>3, AppendProperties, Lines
    <2>6. \A i \in 1 .. (n + 1) : i \in 1 .. n \/ i = n + 1
        BY <2>2
    <2>7. Append(front, Cut) = d
        BY <2>1, <2>2, <2>5, <2>6, SeqEqual
    <2>8. Cut \in Line /\ ~IsReading(Cut)
        BY Lines, WeighType
    <2>9. View(d) = Weigh(View(front), Cut)
        BY <2>3, <2>7, <2>8, ViewOfAppend
    <2>10. QED
        BY <2>3, <2>4, <2>8, <2>9 DEF Weigh
<1>3. QED
    BY <1>1, <1>2

(* What begins with all that was whole holds the figure that stood. *)
BeginsWith(left, d) == \A i \in 1 .. Len(WholeLines(d)) : i \in 1 .. Len(left) /\ left[i] = d[i]

(* A figure stands in all that begins with the whole lines it is of. *)
LEMMA LaterHolds ==
    ASSUME NEW d \in Seq(Line), OnlyATailIsDamaged(d), NEW left \in Seq(Line),
           BeginsWith(left, d), NoSessions(left)
    PROVE  Figure(d) \in Nat /\ Holds(Figure(d), left)
<1> DEFINE whole == WholeLines(d)
           n == Len(whole)
           m == Len(left)
           rest == SubSeq(left, n + 1, m)
<1>1. whole \in Seq(Line) /\ View(whole) = View(d)
    BY WholeLinesSayAll
<1>2. n \in Nat /\ m \in Nat /\ n <= m
    <2>1. n \in Nat /\ m \in Nat
        BY <1>1, LenProperties
    <2>2. n > 0 => n \in 1 .. n
        BY <2>1
    <2>3. QED
        BY <2>1, <2>2 DEF BeginsWith
<1>3. \A i \in 1 .. n : left[i] = whole[i] /\ i \in 1 .. m
    <2>1. ASSUME NEW i \in 1 .. n PROVE whole[i] = d[i]
        <3>1. CASE ~Partial(d)
            BY <3>1 DEF WholeLines
        <3>2. CASE Partial(d)
            <4>1. Len(d) \in Nat \ {0} /\ \A j \in 1 .. Len(d) - 1 : d[j] \in Line
                BY <3>2, EmptySeq, LenProperties, ElementOfSeq DEF Partial
            <4>2. whole = SubSeq(d, 1, Len(d) - 1)
                BY <3>2 DEF WholeLines, Front
            <4>3. n = Len(d) - 1
                BY <3>2, WholeLinesAreRows
            <4> HIDE DEF whole, n
            <4>4. \A j \in 1 .. Len(d) - 1 - 1 + 1 : whole[j] = d[1 + j - 1]
                BY <4>1, <4>2, SubSeqProperties
            <4>5. i \in 1 .. Len(d) - 1 - 1 + 1 /\ 1 + i - 1 = i
                BY <4>1, <4>3
            <4>6. QED
                BY <4>4, <4>5
        <3>3. QED
            BY <3>1, <3>2
    <2>2. QED
        BY <2>1 DEF BeginsWith
<1>4. SubSeq(left, 1, n) = whole
    <2> HIDE DEF whole, m
    <2>1. n \in Nat /\ n <= Len(left)
        BY <1>2 DEF m
    <2>2. SubSeq(left, 1, n) \in Seq(Line) /\ Len(SubSeq(left, 1, n)) = n
        BY <2>1, PrefixIsWithin
    <2>3. \A i \in 1 .. n : SubSeq(left, 1, n)[i] = left[i]
        <3>1. \A i \in 1 .. n : left[i] \in Line
            BY <1>3, LenProperties, ElementOfSeq DEF m
        <3>2. \A i \in 1 .. n - 1 + 1 : SubSeq(left, 1, n)[i] = left[1 + i - 1]
            BY <2>1, <3>1, SubSeqProperties
        <3>3. \A i \in 1 .. n : i \in 1 .. n - 1 + 1 /\ 1 + i - 1 = i
            BY <2>1
        <3>4. QED
            BY <3>2, <3>3
    <2>4. QED
        BY <1>1, <1>3, <2>2, <2>3, SeqEqual
<1>5. rest \in Seq(Line) /\ left = whole \o rest
    <2> HIDE DEF whole, n, m
    <2>1. \A i \in (n + 1) .. m : i \in 1 .. m
        BY <1>2
    <2>2. \A i \in (n + 1) .. m : left[i] \in Line
        BY <2>1, LenProperties, ElementOfSeq DEF m
    <2>3. n + 1 \in Int /\ m \in Int
        BY <1>2
    <2>4. rest \in Seq(Line)
        BY <2>2, <2>3, SubSeqProperties
    <2>5. 1 \in 1 .. Len(left) + 1 /\ n \in 1 - 1 .. Len(left) /\ m \in n .. Len(left)
        BY <1>2 DEF m
    <2>6. SubSeq(left, 1, n) \o SubSeq(left, n + 1, m) = SubSeq(left, 1, m)
        BY <2>5, ConcatAdjacentSubSeq
    <2>7. SubSeq(left, 1, m) = left
        BY SubSeqFull DEF m
    <2>8. QED
        BY <1>4, <2>4, <2>6, <2>7
<1> HIDE DEF whole, rest, n, m
<1>6. Figure(whole) \in Nat /\ Holds(Figure(whole), whole \o rest)
    BY <1>1, <1>5, FigureHolds
<1>7. Figure(whole) = Figure(d)
    BY <1>1 DEF Figure
<1>8. QED
    BY <1>5, <1>6, <1>7

(* Whatever the power takes begins with what was synced whole. *)
LEMMA SurvivorsBegin ==
    ASSUME NEW a, NEW d \in Seq(Line), NEW f \in Seq(Line), Safe(a, d, f), NEW left \in Survivors(d, f)
    PROVE  BeginsWith(left, d)
<1> DEFINE k == Len(WholeLines(d))
<1>1. /\ k \in Nat /\ k <= Len(d) /\ k <= Len(f) /\ Len(d) \in Nat /\ Len(f) \in Nat
      /\ \A i \in 1 .. k : f[i] = d[i]
    <2>1. OnlyATailIsDamaged(d)
        BY DEF Safe
    <2>2. k \in Nat /\ k <= Len(d) /\ Len(d) \in Nat
        BY <2>1, WholeLinesAreRows
    <2>3. k <= Len(f) /\ Len(f) \in Nat
        BY StreamHoldsDisk, LenProperties
    <2>4. QED
        BY <2>2, <2>3 DEF Safe
<1>2. CASE left = d
    BY <1>1, <1>2 DEF BeginsWith
<1>3. ASSUME NEW n \in k .. Len(f), left = SubSeq(f, 1, n) \/ left = SubSeq(f, 1, n) \o <<Cut>>
      PROVE  BeginsWith(left, d)
    <2> DEFINE g == SubSeq(f, 1, n)
    <2> HIDE DEF k
    <2>1. n \in Nat /\ n <= Len(f) /\ k <= n
        BY <1>1
    <2>2. g \in Seq(Line) /\ Len(g) = n
        BY <2>1, PrefixIsWithin
    <2>3. \A i \in 1 .. n : g[i] = f[i]
        <3>1. \A i \in 1 .. n : i \in 1 .. Len(f) /\ i \in 1 .. n - 1 + 1 /\ 1 + i - 1 = i
            BY <1>1, <2>1
        <3>2. \A i \in 1 .. n : f[i] \in Line
            BY <3>1, ElementOfSeq
        <3>3. \A i \in 1 .. n - 1 + 1 : g[i] = f[1 + i - 1]
            BY <2>1, <3>2, SubSeqProperties
        <3>4. QED
            BY <3>1, <3>3
    <2> HIDE DEF g
    <2>4. /\ Len(Append(g, Cut)) = n + 1
          /\ \A i \in 1 .. n : Append(g, Cut)[i] = g[i]
          /\ g \o <<Cut>> = Append(g, Cut)
        BY <2>2, Lines, AppendProperties, AppendIsConcat
    <2>5. \A i \in 1 .. k : i \in 1 .. n /\ i \in 1 .. (n + 1)
        BY <1>1, <2>1
    <2>6. \A i \in 1 .. k : i \in 1 .. Len(left) /\ left[i] = d[i]
        <3>1. CASE left = g
            BY <1>1, <2>2, <2>3, <2>5, <3>1
        <3>2. CASE left = g \o <<Cut>>
            BY <1>1, <2>2, <2>3, <2>4, <2>5, <3>2
        <3>3. QED
            BY <1>3, <3>1, <3>2 DEF g
    <2>7. QED
        BY <2>6 DEF BeginsWith, k
<1>4. left = d \/ \E n \in k .. Len(f) : left = SubSeq(f, 1, n) \/ left = SubSeq(f, 1, n) \o <<Cut>>
    BY DEF Survivors
<1>5. QED
    BY <1>2, <1>3, <1>4

(* No step lowers what the disk says of a day, but to the owner's reading, *)
(* or as its whole file goes.                                              *)
LEMMA StepKeepsFigures ==
    ASSUME LedgerInv, OrderInv, Next, ~raced', NEW s \in {"usage", "github"},
           Figure(disk'[s]) < Figure(disk[s])
    PROVE  View(disk'[s]).method = "verified" \/ Gone(s)
<1> DEFINE d == disk[s]
           f == file[s]
<1>1. s \in Stream /\ d \in Seq(Line) /\ f \in Seq(Line) /\ DOMAIN disk = Stream /\ DOMAIN file = Stream
    BY DEF LedgerInv, TypeOK, Stream
<1>2. Safe(acked[s], d, f) /\ OnlyATailIsDamaged(d) /\ OnlyATailIsDamaged(f)
    <2>1. ~raced
        BY RacesMeans DEF Next, LedgerInv, TypeOK
    <2>2. QED
        BY <1>1, <2>1 DEF LedgerInv, Safe
<1>3. NoSessions(file'[s]) /\ NoSessions(disk'[s])
    BY DaysStayDays
<1>4. ASSUME disk'[s] \in Seq(Line), BeginsWith(disk'[s], d) PROVE View(disk'[s]).method = "verified"
    <2>1. Figure(d) \in Nat /\ Holds(Figure(d), disk'[s])
        <3> HIDE DEF d
        <3>1. QED
            BY <1>1, <1>2, <1>3, <1>4, LaterHolds
    <2>2. Figure(disk'[s]) \in Nat
        BY <1>4, ViewOfAppend, Lines DEF Figure, Standing, RowSet
    <2>3. QED
        BY <2>1, <2>2 DEF Holds
<1>5. disk'[s] # d
    <2>1. Figure(d) \in Nat
        BY <1>1, ViewOfAppend, Lines DEF Figure, Standing, RowSet
    <2>2. QED
        BY <2>1
<1>6. CASE Passes \/ WorldMoves \/ \E t \in Stream : EntryWritten(t)
    BY <1>5, <1>6 DEF Passes, WorldMoves, Moves, EntryWritten
<1>7. CASE PowerLoss
    <2>1. disk'[s] \in Survivors(d, f) \/ Gone(s)
        BY <1>1, <1>7, PowerLossLeaves
    <2>2. CASE disk'[s] \in Survivors(d, f)
        <3> HIDE DEF d, f
        <3>1. disk'[s] \in Seq(Line) /\ BeginsWith(disk'[s], d)
            BY <1>1, <1>2, <2>2, SurvivorsBegin, SurvivorsAreLines
        <3>2. QED
            BY <1>4, <3>1
    <2>3. QED
        BY <2>1, <2>2
<1>8. ASSUME NEW w \in Writer, RunStep(w) \/ WritesShort(w) \/ Stops(w) PROVE View(disk'[s]).method = "verified"
    <2>1. disk' = disk \/ disk' = [disk EXCEPT ![Current(w)] = file[Current(w)]]
        BY <1>8, Writes
    <2>2. disk'[s] = f
        BY <1>1, <1>5, <2>1
    <2>3. BeginsWith(f, d)
        <3>1. DOMAIN f = 1 .. Len(f)
            BY <1>1, LenProperties
        <3>2. QED
            BY <1>2, <3>1 DEF Safe, BeginsWith
    <2>4. QED
        BY <1>1, <1>4, <2>2, <2>3
<1>9. QED
    BY <1>6, <1>7, <1>8 DEF Next

(* A settled session of a run that is over is in the view of the record.   *)
LEMMA FinishFindsIt ==
    ASSUME LedgerInv, OrderInv, ~raced, Finish("export"), Settled(run["export"].doc)
    PROVE  LET now == View(file["sessions"])
               measured == run["export"].doc.world
           IN now.end >= measured.end /\ now.value >= measured.total
<1> DEFINE f == file["sessions"]
           r == run["export"]
           now == View(f)
           measured == r.doc.world
<1>1. "export" \in Writer /\ "sessions" \in Stream /\ f \in Seq(Line) /\ r.pc = "done" /\ RunOK(r)
    BY DEF LedgerInv, TypeOK, Writer, Stream, Finish, At
<1>2. Past(r)
    <2>1. r.todo = <<>> /\ Plan("export") # <<>>
        BY <1>1, PlanIsOfStreams DEF OrderInv, KeepsToItsPlan
    <2>2. QED
        BY <1>1, <2>1 DEF Past
<1>3. ChronicleAt(f, r, Now)
    BY ChronicleMeans DEF OrderInv
<1>4. PICK row \in Rows(f) : row.end >= measured.end /\ row.value >= measured.total
    BY <1>2, <1>3 DEF ChronicleAt, Reaches
<1>5. LatestOf(f, now)
    <2>1. AllSessions(f) /\ InOrder(f)
        BY <1>3 DEF ChronicleAt, AllSessions
    <2> HIDE DEF f
    <2>2. ViewIsLatest(f)
        BY <1>1, <2>1, LatestView
    <2>3. QED
        BY <1>4, <2>2 DEF ViewIsLatest
<1>6. now \in RowSet /\ row \in RowSet /\ row.end <= now.end /\ row.value <= now.value
    BY <1>1, <1>5, RowsAreOfLines DEF LatestOf
<1>7. /\ row.end \in Nat /\ row.value \in Nat /\ now.end \in Nat /\ now.value \in Nat
      /\ measured.end \in Nat /\ measured.total \in Nat
    <2>1. r.doc \in Doc
        BY <1>1 DEF RunOK
    <2>2. QED
        BY <1>6, <2>1 DEF RowSet, Doc, World
<1> HIDE DEF now, measured
<1>8. now.end >= measured.end /\ now.value >= measured.total
    BY <1>4, <1>6, <1>7
<1>9. QED
    BY <1>8 DEF now, measured

(* Whatever is killed, cut short, refused or lost with the power, in any   *)
(* order and any number of times: a row that was appended and synced stays *)
(* on the disk once the system has written its file's directory entry, and *)
(* before that goes only with the whole file; what was synced whole is     *)
(* what its stream begins with, and a line that is no row is only ever a   *)
(* last one; the readings of a session stand in the order they were taken  *)
(* in, ahead of nothing there is to measure, and a run that is past them   *)
(* left one as far as it measured itself - unless two writers were under   *)
(* way over a line that lay cut (append_rows, repair_partial_tail,         *)
(* new_rows, write_lines).                                                 *)
THEOREM RecordIsKept == Spec => []RecordInv
<1>1. Init => RecordInv
    BY InitLedgerInv, InitOrderInv DEF RecordInv
<1>2. RecordInv /\ [Next]_vars => RecordInv'
    BY NextKeepsLedgerInv, NextKeepsOrderInv DEF RecordInv
<1>3. QED
    BY <1>1, <1>2, PTL DEF Spec

(* FigureNeverDrops, for every set of instances, figures and faults: what  *)
(* the disk says of a day or a panel falls only to a reading of the        *)
(* owner's, or with the whole of a new file whose entry was not written.   *)
THEOREM FiguresNeverDrop == Spec => FigureNeverDrops
<1> DEFINE Promise == \A s \in {"usage", "github"} : ~raced' /\ Figure(disk'[s]) < Figure(disk[s]) =>
                        Gone(s) \/ View(disk'[s]).method = "verified"
<1>1. ASSUME RecordInv, [Next]_vars PROVE [Promise]_vars
    <2>1. CASE Next
        BY <1>1, <2>1, StepKeepsFigures DEF RecordInv
    <2>2. QED
        BY <1>1, <2>1
<1>2. QED
    BY <1>1, RecordIsKept, PTL DEF Spec, FigureNeverDrops

(* SettledIsRecorded, likewise: when a run that measured a settled session *)
(* is over, the view of the record is at that session's figures or later   *)
(* ones.                                                                   *)
THEOREM SettledSessionsAreRecorded == Spec => SettledIsRecorded
<1> DEFINE Promise == \A w \in Writer : Finish(w) /\ w = "export" /\ ~raced /\ Settled(run[w].doc) =>
                        LET now == View(file["sessions"])
                            measured == run[w].doc.world
                        IN now.end >= measured.end /\ now.value >= measured.total
<1>1. ASSUME RecordInv PROVE Promise
    BY <1>1, FinishFindsIt DEF RecordInv
<1>2. QED
    BY <1>1, RecordIsKept, PTL DEF Spec, SettledIsRecorded
=============================================================================
