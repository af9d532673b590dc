----------------------------- MODULE FoldLemmas -----------------------------
(***************************************************************************)
(* Lemmas about the data the models are built from, in a form the provers  *)
(* can use: induction over the naturals, the sequences and the finite sets *)
(* as a statement about the set of those a fact holds of; what FoldLeft    *)
(* returns for one element more; and how SumFunction moves with a term.    *)
(*                                                                         *)
(* FoldLeft is, by its definition, the value for DOMAIN seq of a function  *)
(* on the subsets of DOMAIN seq that takes the greatest element first.     *)
(* FoldOf is that value with the step given as a function G instead of an  *)
(* operator: a module that folds shows once that its FoldLeft is a FoldOf  *)
(* (FoldOfIs), and reasons by FoldOfAppend from there.                     *)
(***************************************************************************)
EXTENDS Integers, Sequences, SequencesExt, FiniteSetTheorems, SequenceTheorems, TLAPS

----------------------------------------------------------------------------
(* Induction. *)

(* A set of naturals with 0 and the successor of each of its members is    *)
(* all of them: the least initial interval of a natural outside it has no  *)
(* smaller one.                                                            *)
LEMMA ByInduction ==
  ASSUME NEW T, T \subseteq Nat, 0 \in T, \A n \in T : n + 1 \in T
  PROVE  T = Nat
<1> DEFINE Upto == {1 .. n : n \in Nat \ T}
<1> SUFFICES ASSUME Nat \ T # {} PROVE FALSE
  OBVIOUS
<1>1. Upto # {} /\ Upto \subseteq FiniteSubsetsOf(Nat)
  <2>1. ASSUME NEW n \in Nat PROVE 1 .. n \in SUBSET Nat /\ IsFiniteSet(1 .. n)
    BY FS_Interval
  <2>2. Upto # {}
    OBVIOUS
  <2> QED BY <2>1, <2>2 DEF FiniteSubsetsOf
<1>2. PICK least \in Upto : \A s \in Upto : <<s, least>> \notin StrictSubsetOrdering(Nat)
  <2> HIDE DEF Upto
  <2>1. IsWellFoundedOn(StrictSubsetOrdering(Nat), FiniteSubsetsOf(Nat))
     BY FS_StrictSubsetOrderingWellFounded
  <2> QED BY <1>1, <2>1, WFMin
<1>3. PICK n \in Nat \ T : least = 1 .. n
  OBVIOUS
<1>4. n - 1 \in Nat \ T
  <2>1. n # 0
     OBVIOUS
  <2>2. n - 1 \in Nat /\ (n - 1) + 1 = n
     BY <2>1
  <2> QED BY <2>2
<1>5. <<1 .. (n - 1), least>> \in StrictSubsetOrdering(Nat)
  <2>1. 1 .. (n - 1) \subseteq 1 .. n /\ n \notin 1 .. (n - 1) /\ n \in 1 .. n
     BY <1>4
  <2> QED BY <1>3, <1>4, <2>1 DEF StrictSubsetOrdering
<1> QED
   BY <1>2, <1>4, <1>5

----------------------------------------------------------------------------
(* Folds over sequences. *)

\* f is the fold's own recursion, on the subsets of 1 .. n.
IsFoldOf(f, n, G, base, seq) ==
    \A s \in SUBSET (1 .. n) :
        f[s] = IF s = {} THEN base ELSE G[<<f[s \ {Max(s)}], seq[Max(s)]>>]

\* There is such a function, with values in X.
Foldable(n, X, G, base, seq) == \E f \in [SUBSET (1 .. n) -> X] : IsFoldOf(f, n, G, base, seq)

\* G folds the elements S of seq into an X.
Folding(X, S, G, base, seq) == G \in [X \X S -> X] /\ base \in X /\ seq \in Seq(S)

\* f is such a function ...
FoldFcn(f, n, X, G, base, seq) == f \in [SUBSET (1 .. n) -> X] /\ IsFoldOf(f, n, G, base, seq)

\* ... and g obeys its recursion wherever its values are in X.
Unfolds(g, n, X, G, base, seq) ==
    /\ g[{}] = base
    /\ \A s \in SUBSET (1 .. n) : s # {} /\ g[s \ {Max(s)}] \in X
            => g[s] = G[<<g[s \ {Max(s)}], seq[Max(s)]>>]

(* An interval, its last element, and what is left without it. *)
LEMMA Intervals ==
    ASSUME NEW n \in Nat
    PROVE  /\ 1 .. (n + 1) # {}
           /\ \A s \in SUBSET (1 .. (n + 1)) :
                /\ n + 1 \in s => Max(s) = n + 1
                /\ s \ {n + 1} \in SUBSET (1 .. n)
                /\ n + 1 \notin s => s \in SUBSET (1 .. n)
           /\ (1 .. (n + 1)) \ {n + 1} = 1 .. n
           /\ Max(1 .. (n + 1)) = n + 1
<1>1. ASSUME NEW s \in SUBSET (1 .. (n + 1)), n + 1 \in s PROVE Max(s) = n + 1
    <2>1. \A x \in s : (\A y \in s : x >= y) => x = n + 1
        BY <1>1
    <2>2. \A y \in s : n + 1 >= y
        OBVIOUS
    <2>3. QED
        BY <1>1, <2>1, <2>2 DEF Max
<1>2. n + 1 \in 1 .. (n + 1) /\ \A x : x \in 1 .. (n + 1) <=> x \in 1 .. n \/ x = n + 1
    OBVIOUS
<1>3. QED
    BY <1>1, <1>2

(* There is a function that obeys the recursion of a fold. *)
LEMMA FoldExists ==
    ASSUME NEW X, NEW S, NEW G \in [X \X S -> X], NEW base \in X, NEW seq \in Seq(S)
    PROVE  Foldable(Len(seq), X, G, base, seq)
<1> DEFINE T == {n \in Nat : n <= Len(seq) => Foldable(n, X, G, base, seq)}
<1>1. Foldable(0, X, G, base, seq)
    <2> DEFINE f == [s \in SUBSET (1 .. 0) |-> base]
    <2>1. \A s \in SUBSET (1 .. 0) : s = {}
        OBVIOUS
    <2>2. f \in [SUBSET (1 .. 0) -> X] /\ IsFoldOf(f, 0, G, base, seq)
        BY <2>1 DEF IsFoldOf
    <2>3. QED
        BY <2>2 DEF Foldable
<1>2. ASSUME NEW n \in Nat, n + 1 <= Len(seq), Foldable(n, X, G, base, seq)
      PROVE  Foldable(n + 1, X, G, base, seq)
    <2>2. PICK f \in [SUBSET (1 .. n) -> X] : IsFoldOf(f, n, G, base, seq)
        BY <1>2 DEF Foldable
    <2> DEFINE g == [s \in SUBSET (1 .. (n + 1)) |->
                        IF n + 1 \in s THEN G[<<f[s \ {n + 1}], seq[n + 1]>>] ELSE f[s]]
    <2>5. seq[n + 1] \in S
        BY <1>2
    <2>6. g \in [SUBSET (1 .. (n + 1)) -> X]
        <3>1. ASSUME NEW s \in SUBSET (1 .. (n + 1))
              PROVE  (IF n + 1 \in s THEN G[<<f[s \ {n + 1}], seq[n + 1]>>] ELSE f[s]) \in X
            <4>1. s \ {n + 1} \in SUBSET (1 .. n) /\ (n + 1 \notin s => s \in SUBSET (1 .. n))
                BY Intervals
            <4>2. QED
                BY <2>5, <4>1
        <3>2. QED
            BY <3>1
    <2>7. ASSUME NEW s \in SUBSET (1 .. (n + 1))
          PROVE  g[s] = IF s = {} THEN base ELSE G[<<g[s \ {Max(s)}], seq[Max(s)]>>]
        <3>1. CASE n + 1 \in s
            <4>1. Max(s) = n + 1 /\ s # {}
                BY <3>1, Intervals
            <4>2. g[s] = G[<<f[s \ {n + 1}], seq[n + 1]>>]
                BY <3>1
            <4>3. s \ {n + 1} \in SUBSET (1 .. n) /\ n + 1 \notin s \ {n + 1}
                BY Intervals
            <4>4. g[s \ {n + 1}] = f[s \ {n + 1}]
                BY <4>3
            <4>5. g[s] = G[<<g[s \ {Max(s)}], seq[Max(s)]>>]
                BY <4>1, <4>2, <4>4
            <4>6. QED
                BY <4>1, <4>5
        <3>2. CASE n + 1 \notin s
            <4>1. s \in SUBSET (1 .. n)
                BY <3>2, Intervals
            <4>2. g[s] = f[s] /\ g[s \ {Max(s)}] = f[s \ {Max(s)}]
                BY <3>2, <4>1
            <4>3. QED
                BY <2>2, <4>1, <4>2 DEF IsFoldOf
        <3>3. QED
            BY <3>1, <3>2
    <2>8. QED
        <3> HIDE DEF g
        <3>1. QED
            BY <2>6, <2>7 DEF IsFoldOf, Foldable
<1>3. T = Nat
    <2>1. T \subseteq Nat /\ 0 \in T
        BY <1>1
    <2>2. ASSUME NEW n \in T PROVE n + 1 \in T
        BY <1>2
    <2> HIDE DEF T
    <2>3. QED
        BY <2>1, <2>2, ByInduction
<1>4. QED
    BY <1>3

(* Whatever obeys it agrees with that function on the initial intervals. *)
LEMMA FoldsAgree ==
    ASSUME NEW X, NEW G, NEW base, NEW seq, NEW m \in Nat,
           NEW f, FoldFcn(f, m, X, G, base, seq),
           NEW g, Unfolds(g, m, X, G, base, seq)
    PROVE  \A n \in 0 .. m : g[1 .. n] = f[1 .. n]
<1> USE DEF FoldFcn
<1> DEFINE T == {n \in Nat : n <= m => g[1 .. n] = f[1 .. n]}
<1>1. 0 \in T
    <2>1. 1 .. 0 = {}
        OBVIOUS
    <2>2. {} \in SUBSET (1 .. m)
        OBVIOUS
    <2>3. QED
        BY <2>1, <2>2 DEF IsFoldOf, Unfolds
<1>2. ASSUME NEW n \in Nat, n + 1 <= m, g[1 .. n] = f[1 .. n] PROVE g[1 .. (n + 1)] = f[1 .. (n + 1)]
    <2>1. Max(1 .. (n + 1)) = n + 1 /\ (1 .. (n + 1)) \ {n + 1} = 1 .. n /\ 1 .. (n + 1) # {}
        BY Intervals
    <2>2. 1 .. n \in SUBSET (1 .. m) /\ 1 .. (n + 1) \in SUBSET (1 .. m)
        BY <1>2
    <2>3. g[1 .. n] \in X
        BY <1>2, <2>2
    <2>4. g[1 .. (n + 1)] = G[<<g[(1 .. (n + 1)) \ {Max(1 .. (n + 1))}], seq[Max(1 .. (n + 1))]>>]
        BY <2>1, <2>2, <2>3 DEF Unfolds
    <2>5. f[1 .. (n + 1)] = G[<<f[(1 .. (n + 1)) \ {Max(1 .. (n + 1))}], seq[Max(1 .. (n + 1))]>>]
        BY <2>1, <2>2 DEF IsFoldOf
    <2>6. QED
        BY <1>2, <2>1, <2>4, <2>5
<1>3. T = Nat
    <2>1. T \subseteq Nat
        OBVIOUS
    <2>2. ASSUME NEW n \in T PROVE n + 1 \in T
        BY <1>2
    <2> HIDE DEF T
    <2>3. QED
        BY <1>1, <2>1, <2>2, ByInduction
<1>4. QED
    BY <1>3

(* A set within an interval has a greatest element. *)
LEMMA MaxIn ==
    ASSUME NEW n \in Nat, NEW s \in SUBSET (1 .. n), s # {}
    PROVE  Max(s) \in s
<1> DEFINE T == {m \in Nat : \A u \in SUBSET (1 .. m) : u # {} => Max(u) \in u}
<1>1. T \subseteq Nat /\ 0 \in T
    <2>1. 1 .. 0 = {}
        OBVIOUS
    <2>2. QED
        BY <2>1
<1>2. ASSUME NEW m \in T PROVE m + 1 \in T
    <2>1. ASSUME NEW u \in SUBSET (1 .. (m + 1)), u # {} PROVE Max(u) \in u
        <3>1. m + 1 \in u => Max(u) = m + 1
            BY Intervals
        <3>2. m + 1 \notin u => u \in SUBSET (1 .. m)
            BY Intervals
        <3>3. QED
            BY <2>1, <3>1, <3>2
    <2>2. QED
        BY <2>1
<1>3. T = Nat
    <2> HIDE DEF T
    <2>1. QED
        BY <1>1, <1>2, ByInduction
<1>4. QED
    BY <1>3

\* The fold of seq.
FoldOf(X, G, base, seq) ==
    (CHOOSE f \in [SUBSET (1 .. Len(seq)) -> X] : IsFoldOf(f, Len(seq), G, base, seq))[1 .. Len(seq)]

(* Whatever obeys the recursion of a fold returns the fold. *)
LEMMA FoldOfIs ==
    ASSUME NEW X, NEW S, NEW G, NEW base, NEW seq, Folding(X, S, G, base, seq),
           NEW g, Unfolds(g, Len(seq), X, G, base, seq)
    PROVE  g[1 .. Len(seq)] = FoldOf(X, G, base, seq) /\ FoldOf(X, G, base, seq) \in X
<1>1. Len(seq) \in Nat /\ Len(seq) \in 0 .. Len(seq)
    BY LenProperties DEF Folding
<1> DEFINE f == CHOOSE f \in [SUBSET (1 .. Len(seq)) -> X] : IsFoldOf(f, Len(seq), G, base, seq)
<1>2. f \in [SUBSET (1 .. Len(seq)) -> X] /\ IsFoldOf(f, Len(seq), G, base, seq)
    BY FoldExists DEF Foldable, Folding
<1>3. FoldOf(X, G, base, seq) = f[1 .. Len(seq)]
    BY DEF FoldOf
<1> HIDE DEF f
<1>4. g[1 .. Len(seq)] = f[1 .. Len(seq)]
    <2> DEFINE n == Len(seq)
    <2>a. n \in Nat /\ Unfolds(g, n, X, G, base, seq) /\ FoldFcn(f, n, X, G, base, seq)
        BY <1>1, <1>2 DEF FoldFcn
    <2> HIDE DEF n
    <2>1. \A k \in 0 .. n : g[1 .. k] = f[1 .. k]
        BY <2>a, FoldsAgree
    <2>2. QED
        BY <1>1, <2>1 DEF n
<1>5. QED
    BY <1>2, <1>3, <1>4

(* A fold stays where its steps do. *)
LEMMA FoldOfType ==
    ASSUME NEW X, NEW S, NEW G, NEW base, NEW seq, Folding(X, S, G, base, seq)
    PROVE  FoldOf(X, G, base, seq) \in X
<1>1. Foldable(Len(seq), X, G, base, seq)
    BY FoldExists DEF Folding
<1>2. PICK f : FoldFcn(f, Len(seq), X, G, base, seq)
    BY <1>1 DEF Foldable, FoldFcn
<1>3. {} \in SUBSET (1 .. Len(seq))
    OBVIOUS
<1>4. Unfolds(f, Len(seq), X, G, base, seq)
    BY <1>2, <1>3 DEF FoldFcn, IsFoldOf, Unfolds
<1>5. QED
    BY <1>4, FoldOfIs

(* Nothing folds to where a fold begins. *)
LEMMA FoldOfNothing ==
    ASSUME NEW X, NEW S, NEW G, NEW base, Folding(X, S, G, base, <<>>)
    PROVE  FoldOf(X, G, base, <<>>) = base
<1>1. <<>> \in Seq(S) /\ Len(<<>>) = 0 /\ 1 .. 0 = {}
    BY EmptySeq
<1>2. Foldable(0, X, G, base, <<>>)
    BY <1>1, FoldExists DEF Folding
<1>3. PICK f : FoldFcn(f, 0, X, G, base, <<>>)
    BY <1>2 DEF Foldable, FoldFcn
<1>4. {} \in SUBSET (1 .. 0) /\ f[{}] = base
    BY <1>3 DEF FoldFcn, IsFoldOf
<1>5. Unfolds(f, 0, X, G, base, <<>>)
    BY <1>3, <1>4 DEF FoldFcn, IsFoldOf, Unfolds
<1>6. f[1 .. 0] = FoldOf(X, G, base, <<>>)
    BY <1>1, <1>5, FoldOfIs
<1>7. QED
    BY <1>1, <1>4, <1>6

(* One element more is folded into what the others fold to. *)
LEMMA FoldOfAppend ==
    ASSUME NEW X, NEW S, NEW G, NEW base, NEW seq, Folding(X, S, G, base, seq), NEW e \in S
    PROVE  /\ FoldOf(X, G, base, <<>>) = base
           /\ FoldOf(X, G, base, seq) \in X
           /\ FoldOf(X, G, base, Append(seq, e)) = G[<<FoldOf(X, G, base, seq), e>>]
<1>0. G \in [X \X S -> X] /\ base \in X /\ seq \in Seq(S)
    BY DEF Folding
<1> DEFINE all == Append(seq, e)
           n == Len(seq)
<1>1. /\ n \in Nat /\ all \in Seq(S) /\ Len(all) = n + 1 /\ all[n + 1] = e
      /\ \A i \in 1 .. n : all[i] = seq[i]
    BY <1>0, LenProperties, AppendProperties
<1> HIDE DEF all, n
<1>2. PICK f \in [SUBSET (1 .. (n + 1)) -> X] : IsFoldOf(f, n + 1, G, base, all)
    <2>1. Foldable(Len(all), X, G, base, all)
        BY <1>0, <1>1, FoldExists
    <2>2. QED
        BY <1>1, <2>1 DEF Foldable
<1>3. f[1 .. (n + 1)] = FoldOf(X, G, base, all)
    <2>1. {} \in SUBSET (1 .. (n + 1))
        OBVIOUS
    <2>2. f[{}] = base
        BY <1>2, <2>1 DEF IsFoldOf
    <2>3. \A s \in SUBSET (1 .. (n + 1)) : s # {} => f[s] = G[<<f[s \ {Max(s)}], all[Max(s)]>>]
        BY <1>2 DEF IsFoldOf
    <2>4. QED
        <3>a. Unfolds(f, Len(all), X, G, base, all)
            BY <1>1, <2>2, <2>3 DEF Unfolds
        <3>1. f[1 .. Len(all)] = FoldOf(X, G, base, all)
            <4>1. Folding(X, S, G, base, all)
                BY <1>0, <1>1 DEF Folding
            <4>2. QED
                BY <3>a, <4>1, FoldOfIs
        <3>2. QED
            BY <1>1, <3>1
<1>4. f[1 .. n] = FoldOf(X, G, base, seq) /\ FoldOf(X, G, base, seq) \in X
    <2>1. {} \in SUBSET (1 .. (n + 1)) /\ SUBSET (1 .. n) \subseteq SUBSET (1 .. (n + 1))
        BY <1>1
    <2>2. f[{}] = base
        BY <1>2, <2>1 DEF IsFoldOf
    <2>3. ASSUME NEW s \in SUBSET (1 .. n), s # {} PROVE f[s] = G[<<f[s \ {Max(s)}], seq[Max(s)]>>]
        <3>1. f[s] = G[<<f[s \ {Max(s)}], all[Max(s)]>>]
            BY <1>2, <2>1, <2>3 DEF IsFoldOf
        <3>2. Max(s) \in 1 .. n
            BY <1>1, <2>3, MaxIn
        <3>3. QED
            BY <1>1, <3>1, <3>2
    <2>4. QED
        <3>1. Unfolds(f, n, X, G, base, seq)
            BY <2>2, <2>3 DEF Unfolds
        <3>2. QED
            BY <3>1, FoldOfIs DEF n
<1>5. f[1 .. (n + 1)] = G[<<f[1 .. n], e>>]
    <2>1. Max(1 .. (n + 1)) = n + 1 /\ (1 .. (n + 1)) \ {n + 1} = 1 .. n /\ 1 .. (n + 1) # {}
        BY <1>1, Intervals
    <2>2. 1 .. (n + 1) \in SUBSET (1 .. (n + 1))
        OBVIOUS
    <2>3. f[1 .. (n + 1)] = G[<<f[(1 .. (n + 1)) \ {Max(1 .. (n + 1))}], all[Max(1 .. (n + 1))]>>]
        BY <1>2, <2>1, <2>2 DEF IsFoldOf
    <2>4. QED
        BY <1>1, <2>1, <2>3
<1>6. FoldOf(X, G, base, <<>>) = base
    <2> DEFINE h == [s \in SUBSET (1 .. 0) |-> base]
    <2>1. <<>> \in Seq(S) /\ Len(<<>>) = 0 /\ 1 .. 0 = {}
        BY EmptySeq
    <2>2. h[{}] = base /\ \A s \in SUBSET (1 .. 0) : s = {}
        OBVIOUS
    <2> HIDE DEF h
    <2>3. h[1 .. Len(<<>>)] = FoldOf(X, G, base, <<>>)
        <3>1. Unfolds(h, Len(<<>>), X, G, base, <<>>)
            BY <2>1, <2>2 DEF Unfolds
        <3>2. QED
            <4> DEFINE none == <<>>
            <4>1. Folding(X, S, G, base, none) /\ Unfolds(h, Len(none), X, G, base, none)
                BY <1>0, <2>1, <3>1 DEF Folding
            <4> HIDE DEF none
            <4>2. h[1 .. Len(none)] = FoldOf(X, G, base, none)
                BY <4>1, FoldOfIs
            <4>3. QED
                BY <4>2 DEF none
    <2>4. QED
        BY <2>1, <2>2, <2>3
<1>7. QED
    BY <1>3, <1>4, <1>5, <1>6 DEF all, n

(* A set of sequences with the empty one and every one by an element       *)
(* longer than one of its own is all of them.                              *)
LEMMA SeqsByAppend ==
    ASSUME NEW S, NEW T, T \subseteq Seq(S), <<>> \in T,
           \A seq \in T : \A e \in S : Append(seq, e) \in T
    PROVE  T = Seq(S)
<1> DEFINE N == {n \in Nat : \A seq \in Seq(S) : Len(seq) = n => seq \in T}
<1>1. N \subseteq Nat /\ 0 \in N
    <2>1. ASSUME NEW seq \in Seq(S), Len(seq) = 0 PROVE seq = <<>>
        BY <2>1, EmptySeq
    <2>2. QED
        BY <2>1
<1>2. ASSUME NEW n \in N PROVE n + 1 \in N
    <2>1. ASSUME NEW seq \in Seq(S), Len(seq) = n + 1 PROVE seq \in T
        <3> DEFINE front == SubSeq(seq, 1, n)
        <3>1. n \in Nat /\ n + 1 \in 1 .. Len(seq) /\ \A i \in 1 .. n : i \in 1 .. Len(seq)
            BY <2>1
        <3>2. seq[n + 1] \in S /\ \A i \in 1 .. n : seq[i] \in S
            BY <3>1, ElementOfSeq
        <3>3. front \in Seq(S) /\ Len(front) = n /\ \A i \in 1 .. n : front[i] = seq[i]
            <4>1. 1 \in Int /\ n \in Int /\ (1 <= n => n - 1 + 1 = n) /\ (~(1 <= n) => n = 0) /\ n - 1 + 1 = n
                BY <3>1
            <4>2. /\ front \in Seq(S) /\ Len(front) = IF 1 <= n THEN n - 1 + 1 ELSE 0
                  /\ \A i \in 1 .. n - 1 + 1 : front[i] = seq[1 + i - 1]
                BY <3>2, <4>1, SubSeqProperties
            <4> HIDE DEF front
            <4>3. \A i \in 1 .. n : 1 + i - 1 = i
                BY <3>1
            <4>4. QED
                BY <4>1, <4>2, <4>3
        <3> HIDE DEF front
        <3>4. front \in T
            BY <3>3
        <3>5. /\ Append(front, seq[n + 1]) \in Seq(S) /\ Len(Append(front, seq[n + 1])) = n + 1
              /\ \A i \in 1 .. n : Append(front, seq[n + 1])[i] = seq[i]
              /\ Append(front, seq[n + 1])[n + 1] = seq[n + 1]
            <4> DEFINE last == seq[n + 1]
            <4> HIDE DEF last
            <4>1. last \in S
                BY <3>2 DEF last
            <4>2. /\ Append(front, last) \in Seq(S) /\ Len(Append(front, last)) = Len(front) + 1
                  /\ \A i \in 1 .. Len(front) : Append(front, last)[i] = front[i]
                  /\ Append(front, last)[Len(front) + 1] = last
                BY <3>3, <4>1, AppendProperties
            <4>3. QED
                BY <3>3, <4>2 DEF last
        <3>6. \A i \in 1 .. (n + 1) : i \in 1 .. n \/ i = n + 1
            BY <3>1
        <3>7. Append(front, seq[n + 1]) = seq
            BY <2>1, <3>5, <3>6, SeqEqual
        <3>8. QED
            BY <3>2, <3>4, <3>7
    <2>2. QED
        BY <2>1
<1>3. N = Nat
    <2> HIDE DEF N
    <2>1. QED
        BY <1>1, <1>2, ByInduction
<1>4. QED
    BY <1>3, LenProperties

(* What holds of the empty set, and with any set of one by an element      *)
(* larger, holds of a finite set.                                          *)
LEMMA SetsByAdding ==
    ASSUME NEW S, IsFiniteSet(S), NEW T, {} \in T,
           \A s \in SUBSET S : \A x \in S \ s : s \in T => s \cup {x} \in T
    PROVE  S \in T
<1> DEFINE N == {n \in Nat : \A s \in SUBSET S : Cardinality(s) = n => s \in T}
<1>1. \A s \in SUBSET S : IsFiniteSet(s) /\ Cardinality(s) \in Nat
    BY FS_Subset, FS_CardinalityType
<1>2. N \subseteq Nat /\ 0 \in N
    <2>1. \A s \in SUBSET S : Cardinality(s) = 0 => s = {}
        BY <1>1, FS_EmptySet
    <2>2. QED
        BY <2>1
<1>3. ASSUME NEW n \in N PROVE n + 1 \in N
    <2>1. ASSUME NEW s \in SUBSET S, Cardinality(s) = n + 1 PROVE s \in T
        <3>1. s # {}
            BY <2>1, FS_EmptySet
        <3>2. PICK x \in s : TRUE
            BY <3>1
        <3> DEFINE t == s \ {x}
        <3>3. t \in SUBSET S /\ x \in S \ t /\ t \cup {x} = s
            OBVIOUS
        <3>4. Cardinality(t) = n
            BY <1>1, <2>1, FS_RemoveElement
        <3> HIDE DEF t
        <3>5. t \in T
            BY <3>3, <3>4
        <3>6. QED
            BY <3>3, <3>5
    <2>2. QED
        BY <2>1
<1>4. N = Nat
    <2> HIDE DEF N
    <2>1. QED
        BY <1>2, <1>3, ByInduction
<1>5. QED
    BY <1>1, <1>4

----------------------------------------------------------------------------
(* Sums over finite sets. *)

\* sum is the sum of f over each subset of S.
SumsTo(sum, S, f) ==
    /\ sum \in [SUBSET S -> Int] /\ sum[{}] = 0
    /\ \A s \in SUBSET S : \A x \in s : sum[s] = f[x] + sum[s \ {x}]

\* There is one.
HasSum(S, f) == \E sum : SumsTo(sum, S, f)

(* A function on a finite set has a sum over each of its subsets. *)
LEMMA SumExists ==
    ASSUME NEW S, IsFiniteSet(S), NEW f \in [S -> Int]
    PROVE  HasSum(S, f)
<1> DEFINE T == {u \in SUBSET S : HasSum(u, f)}
<1>1. {} \in T
    <2> DEFINE none == [s \in SUBSET {} |-> 0]
    <2>1. SumsTo(none, {}, f)
        BY DEF SumsTo
    <2>2. QED
        BY <2>1 DEF HasSum
<1>2. ASSUME NEW u \in SUBSET S, NEW a \in S \ u, u \in T PROVE u \cup {a} \in T
    <2>1. PICK sum : SumsTo(sum, u, f)
        BY <1>2 DEF HasSum
    <2> DEFINE more == [s \in SUBSET (u \cup {a}) |-> IF a \in s THEN f[a] + sum[s \ {a}] ELSE sum[s]]
    <2>2. \A s \in SUBSET (u \cup {a}) : s \ {a} \in SUBSET u /\ (a \notin s => s \in SUBSET u)
        OBVIOUS
    <2>3. f[a] \in Int /\ \A s \in SUBSET u : sum[s] \in Int
        BY <2>1 DEF SumsTo
    <2>4. more \in [SUBSET (u \cup {a}) -> Int]
        <3>1. \A s \in SUBSET (u \cup {a}) : (IF a \in s THEN f[a] + sum[s \ {a}] ELSE sum[s]) \in Int
            BY <2>2, <2>3
        <3>2. QED
            BY <3>1
    <2>5. more[{}] = 0
        BY <2>1 DEF SumsTo
    <2>6. ASSUME NEW s \in SUBSET (u \cup {a}), NEW x \in s PROVE more[s] = f[x] + more[s \ {x}]
        <3>1. CASE x = a
            BY <2>2, <3>1
        <3>2. CASE x # a /\ a \in s
            <4>1. more[s] = f[a] + sum[s \ {a}]
                BY <3>2
            <4>2. more[s \ {x}] = f[a] + sum[(s \ {x}) \ {a}]
                BY <3>2
            <4>3. (s \ {x}) \ {a} = (s \ {a}) \ {x} /\ x \in s \ {a} /\ s \ {a} \in SUBSET u
                BY <3>2
            <4>4. sum[s \ {a}] = f[x] + sum[(s \ {a}) \ {x}]
                BY <2>1, <4>3 DEF SumsTo
            <4>5. f[x] \in Int /\ sum[(s \ {a}) \ {x}] \in Int
                <5>1. x \in S /\ (s \ {a}) \ {x} \in SUBSET u
                    BY <3>2, <4>3
                <5>2. QED
                    BY <2>3, <5>1
            <4> HIDE DEF more
            <4>6. more[s] = f[a] + (f[x] + sum[(s \ {a}) \ {x}])
                BY <4>1, <4>4
            <4>7. more[s \ {x}] = f[a] + sum[(s \ {a}) \ {x}]
                BY <4>2, <4>3
            <4>8. QED
                BY <2>3, <4>5, <4>6, <4>7
        <3>3. CASE a \notin s
            <4>1. s \in SUBSET u /\ s \ {x} \in SUBSET (u \cup {a}) /\ a \notin s \ {x}
                BY <3>3
            <4>2. more[s] = sum[s] /\ more[s \ {x}] = sum[s \ {x}]
                BY <3>3, <4>1
            <4>3. QED
                BY <2>1, <4>1, <4>2 DEF SumsTo
        <3>4. QED
            BY <3>1, <3>2, <3>3
    <2>7. SumsTo(more, u \cup {a}, f)
        <3> HIDE DEF more
        <3>1. QED
            BY <2>4, <2>5, <2>6 DEF SumsTo
    <2>8. QED
        BY <2>7 DEF HasSum
<1>3. S \in T
    <2> HIDE DEF T
    <2>1. QED
        BY <1>1, <1>2, SetsByAdding
<1>4. QED
    BY <1>3

(* SumFunction returns it. *)
LEMMA SumIs ==
    ASSUME NEW S, IsFiniteSet(S), NEW f \in [S -> Int], NEW sum, SumsTo(sum, S, f)
    PROVE  SumFunction(f) = sum[S]
<1> DEFINE Step(g, s) == LET x == CHOOSE x \in s : TRUE IN f[x] + g[s \ {x}]
           iter == CHOOSE iter : iter = [s \in SUBSET S |-> IF s = {} THEN 0 ELSE Step(iter, s)]
<1>1. SumFunction(f) = iter[S]
    BY DEF SumFunction, SumFunctionOnSet, FoldFunctionOnSet, MapThenFoldSet
<1>2. iter = [s \in SUBSET S |-> IF s = {} THEN 0 ELSE Step(iter, s)]
    <2>1. sum = [s \in SUBSET S |-> IF s = {} THEN 0 ELSE Step(sum, s)]
        BY DEF SumsTo
    <2> HIDE DEF Step
    <2>2. QED
        BY <2>1
<1> HIDE DEF iter
<1> DEFINE N == {n \in Nat : \A s \in SUBSET S : Cardinality(s) = n => iter[s] = sum[s]}
<1>3. \A s \in SUBSET S : IsFiniteSet(s) /\ Cardinality(s) \in Nat
    BY FS_Subset, FS_CardinalityType
<1>4. N \subseteq Nat /\ 0 \in N
    <2>1. \A s \in SUBSET S : Cardinality(s) = 0 => s = {}
        BY <1>3, FS_EmptySet
    <2>2. iter[{}] = sum[{}]
        BY <1>2 DEF SumsTo
    <2>3. QED
        BY <2>1, <2>2
<1>5. ASSUME NEW n \in N PROVE n + 1 \in N
    <2>a. n \in Nat /\ n + 1 # 0
        OBVIOUS
    <2>1. ASSUME NEW s \in SUBSET S, Cardinality(s) = n + 1 PROVE iter[s] = sum[s]
        <3>1. s # {}
            <4>1. Cardinality(s) # 0
                BY <2>a, <2>1
            <4>2. QED
                BY <4>1, FS_EmptySet
        <3> DEFINE x == CHOOSE x \in s : TRUE
        <3>2. x \in s
            BY <3>1
        <3>3. iter[s] = f[x] + iter[s \ {x}]
            BY <1>2, <3>1
        <3> HIDE DEF x
        <3>4. Cardinality(s \ {x}) = n /\ s \ {x} \in SUBSET S
            <4>1. IsFiniteSet(s) /\ s \ {x} \in SUBSET S
                BY <1>3
            <4>2. Cardinality(s \ {x}) = Cardinality(s) - 1
                BY <3>2, <4>1, FS_RemoveElement
            <4>3. QED
                BY <2>a, <2>1, <4>1, <4>2
        <3>5. iter[s \ {x}] = sum[s \ {x}]
            BY <3>4
        <3>6. QED
            BY <3>2, <3>3, <3>5 DEF SumsTo
    <2>2. QED
        BY <2>1
<1>6. N = Nat
    <2> HIDE DEF N
    <2>1. QED
        BY <1>4, <1>5, ByInduction
<1>7. QED
    BY <1>1, <1>3, <1>6

(* Integers add up to an integer, none of them to 0. *)
LEMMA SumIsInt ==
    ASSUME NEW S, IsFiniteSet(S), NEW f \in [S -> Int]
    PROVE  SumFunction(f) \in Int /\ (S = {} => SumFunction(f) = 0)
<1>1. PICK sum : SumsTo(sum, S, f)
    BY SumExists DEF HasSum
<1>2. SumFunction(f) = sum[S]
    BY <1>1, SumIs
<1>3. QED
    BY <1>1, <1>2 DEF SumsTo

(* A sum is one of its terms and the sum of the others. *)
LEMMA SumWithout ==
    ASSUME NEW S, IsFiniteSet(S), NEW f \in [S -> Int], NEW a \in S,
           NEW g, g = [x \in S \ {a} |-> f[x]]
    PROVE  SumFunction(f) = f[a] + SumFunction(g) /\ SumFunction(g) \in Int /\ f[a] \in Int
<1> DEFINE R == S \ {a}
<1>1. PICK sum : SumsTo(sum, S, f)
    BY SumExists DEF HasSum
<1>2. IsFiniteSet(R) /\ g \in [R -> Int] /\ SUBSET R \subseteq SUBSET S
    BY FS_Subset
<1> DEFINE rest == [s \in SUBSET R |-> sum[s]]
<1>3. SumsTo(rest, R, g)
    <2>1. rest \in [SUBSET R -> Int] /\ rest[{}] = 0
        BY <1>1, <1>2 DEF SumsTo
    <2>2. ASSUME NEW s \in SUBSET R, NEW x \in s PROVE rest[s] = g[x] + rest[s \ {x}]
        <3>1. s \in SUBSET S /\ s \ {x} \in SUBSET R /\ g[x] = f[x]
            BY <1>2
        <3>2. sum[s] = f[x] + sum[s \ {x}]
            BY <1>1, <3>1 DEF SumsTo
        <3>3. QED
            BY <3>1, <3>2
    <2> HIDE DEF rest
    <2>3. QED
        BY <2>1, <2>2 DEF SumsTo
<1>4. sum[S] = f[a] + sum[R]
    BY <1>1 DEF SumsTo
<1>5. SumFunction(f) = sum[S]
    BY <1>1, SumIs
<1>6. rest[R] = sum[R]
    OBVIOUS
<1> HIDE DEF rest, R
<1>7. SumFunction(g) = sum[R]
    BY <1>2, <1>3, <1>6, SumIs
<1>8. QED
    BY <1>2, <1>4, <1>5, <1>7, SumIsInt

(* A sum moves by what one of its terms does. *)
LEMMA SumMoves ==
    ASSUME NEW S, IsFiniteSet(S), NEW f \in [S -> Int], NEW g \in [S -> Int], NEW a \in S,
           \A x \in S \ {a} : g[x] = f[x]
    PROVE  SumFunction(g) = SumFunction(f) + (g[a] - f[a])
<1> DEFINE rest == [x \in S \ {a} |-> f[x]]
<1>1. rest = [x \in S \ {a} |-> g[x]]
    OBVIOUS
<1> HIDE DEF rest
<1>2. SumFunction(f) = f[a] + SumFunction(rest) /\ SumFunction(rest) \in Int /\ f[a] \in Int
    BY SumWithout DEF rest
<1>3. SumFunction(g) = g[a] + SumFunction(rest) /\ g[a] \in Int
    BY <1>1, SumWithout
<1>4. QED
    BY <1>2, <1>3

(* Naturals add up to a natural, and to no less than one of them. *)
LEMMA SumIsNat ==
    ASSUME NEW S, IsFiniteSet(S), NEW f \in [S -> Nat]
    PROVE  SumFunction(f) \in Nat /\ \A x \in S : f[x] <= SumFunction(f)
<1>0. f \in [S -> Int]
    OBVIOUS
<1>1. PICK sum : SumsTo(sum, S, f)
    BY <1>0, SumExists DEF HasSum
<1>2. SumFunction(f) = sum[S]
    BY <1>0, <1>1, SumIs
<1> DEFINE T == {s \in SUBSET S : sum[s] >= 0}
<1>3. {} \in T
    BY <1>1 DEF SumsTo
<1>4. \A s \in SUBSET S : \A x \in s : sum[s] = f[x] + sum[s \ {x}] /\ f[x] \in Nat /\ sum[s \ {x}] \in Int
    <2>1. \A s \in SUBSET S : \A x \in s : s \ {x} \in SUBSET S /\ x \in S
        OBVIOUS
    <2>2. QED
        BY <1>1, <2>1 DEF SumsTo
<1>5. ASSUME NEW s \in SUBSET S, NEW x \in S \ s, s \in T PROVE s \cup {x} \in T
    <2>1. s \cup {x} \in SUBSET S /\ (s \cup {x}) \ {x} = s /\ x \in s \cup {x}
        OBVIOUS
    <2>2. sum[s \cup {x}] = f[x] + sum[s] /\ f[x] \in Nat /\ sum[s] \in Int
        BY <1>4, <2>1
    <2>3. QED
        BY <1>5, <2>1, <2>2
<1>6. \A s \in SUBSET S : s \in T
    <2> HIDE DEF T
    <2>1. ASSUME NEW s \in SUBSET S PROVE s \in T
        <3>1. IsFiniteSet(s)
            BY FS_Subset
        <3>2. \A t \in SUBSET s : \A x \in s \ t : t \in T => t \cup {x} \in T
            BY <1>5
        <3>3. QED
            BY <1>3, <3>1, <3>2, SetsByAdding
    <2>2. QED
        BY <2>1
<1>7. ASSUME NEW x \in S PROVE f[x] <= sum[S]
    <2>1. S \ {x} \in T
        BY <1>6
    <2>2. sum[S] = f[x] + sum[S \ {x}] /\ f[x] \in Nat /\ sum[S \ {x}] \in Int
        BY <1>4
    <2>3. QED
        BY <2>1, <2>2
<1>8. sum[S] \in Int /\ S \in T
    BY <1>1, <1>6 DEF SumsTo
<1>9. QED
    BY <1>2, <1>7, <1>8

\* f on the elements of s.
Over(f, s) == [x \in s |-> f[x]]

(* An element apart, and what is left. *)
LEMMA SumApart ==
    ASSUME NEW S, IsFiniteSet(S), NEW f \in [S -> Int], NEW a \in S,
           NEW g \in [S \ {a} -> Int], \A x \in S \ {a} : g[x] = f[x]
    PROVE  SumFunction(f) = f[a] + SumFunction(g)
<1>1. g = [x \in S \ {a} |-> f[x]]
    OBVIOUS
<1>2. QED
    BY <1>1, SumWithout

(* A sum over part of a set, and over one element more. *)
LEMMA SumOfMore ==
    ASSUME NEW S, IsFiniteSet(S), NEW f \in [S -> Int]
    PROVE  /\ SumFunction(Over(f, {})) = 0 /\ Over(f, S) = f
           /\ \A s \in SUBSET S : SumFunction(Over(f, s)) \in Int
           /\ \A s \in SUBSET S : \A a \in S \ s :
                SumFunction(Over(f, s \cup {a})) = f[a] + SumFunction(Over(f, s))
<1>1. \A s \in SUBSET S : IsFiniteSet(s) /\ Over(f, s) \in [s -> Int]
    BY FS_Subset DEF Over
<1>2. \A s \in SUBSET S : SumFunction(Over(f, s)) \in Int /\ (s = {} => SumFunction(Over(f, s)) = 0)
    BY <1>1, SumIsInt
<1>3. ASSUME NEW s \in SUBSET S, NEW a \in S \ s
      PROVE  SumFunction(Over(f, s \cup {a})) = f[a] + SumFunction(Over(f, s))
    <2> DEFINE t == s \cup {a}
               F == Over(f, t)
               G == Over(f, s)
    <2>1. t \in SUBSET S /\ a \in t /\ t \ {a} = s /\ F[a] = f[a]
        BY DEF Over
    <2>2. IsFiniteSet(t) /\ F \in [t -> Int] /\ G \in [t \ {a} -> Int]
        BY <1>1, <2>1
    <2> HIDE DEF F, G, t
    <2>3. a \in t /\ t \ {a} = s /\ \A x \in t \ {a} : G[x] = F[x]
        BY <2>1 DEF F, G, Over
    <2>4. SumFunction(F) = F[a] + SumFunction(G)
        BY <2>2, <2>3, SumApart
    <2>5. QED
        BY <2>1, <2>4 DEF F, G, t
<1>4. Over(f, S) = f
    BY DEF Over
<1>5. QED
    BY <1>2, <1>3, <1>4

(* Sums add up term by term. *)
LEMMA SumAdds ==
    ASSUME NEW S, IsFiniteSet(S), NEW f \in [S -> Int], NEW g \in [S -> Int]
    PROVE  /\ SumFunction([x \in S |-> f[x] + g[x]]) = SumFunction(f) + SumFunction(g)
           /\ SumFunction(f) \in Int /\ SumFunction(g) \in Int
<1> DEFINE b == [x \in S |-> f[x] + g[x]]
           T == {s \in SUBSET S : SumFunction(Over(b, s)) = SumFunction(Over(f, s)) + SumFunction(Over(g, s))}
<1>1. b \in [S -> Int] /\ \A x \in S : b[x] = f[x] + g[x] /\ f[x] \in Int /\ g[x] \in Int
    OBVIOUS
<1> HIDE DEF b
<1>2. /\ SumFunction(Over(b, {})) = 0 /\ Over(b, S) = b
      /\ \A s \in SUBSET S : \A a \in S \ s : SumFunction(Over(b, s \cup {a})) = b[a] + SumFunction(Over(b, s))
    BY <1>1, SumOfMore
<1>3. /\ SumFunction(Over(f, {})) = 0 /\ Over(f, S) = f
      /\ \A s \in SUBSET S : SumFunction(Over(f, s)) \in Int
      /\ \A s \in SUBSET S : \A a \in S \ s : SumFunction(Over(f, s \cup {a})) = f[a] + SumFunction(Over(f, s))
    BY SumOfMore
<1>4. /\ SumFunction(Over(g, {})) = 0 /\ Over(g, S) = g
      /\ \A s \in SUBSET S : SumFunction(Over(g, s)) \in Int
      /\ \A s \in SUBSET S : \A a \in S \ s : SumFunction(Over(g, s \cup {a})) = g[a] + SumFunction(Over(g, s))
    BY SumOfMore
<1>5. {} \in T
    BY <1>2, <1>3, <1>4
<1>6. ASSUME NEW s \in SUBSET S, NEW a \in S \ s, s \in T PROVE s \cup {a} \in T
    <2>1. SumFunction(Over(b, s \cup {a})) = (f[a] + g[a]) + SumFunction(Over(b, s))
        BY <1>1, <1>2
    <2>2. /\ SumFunction(Over(f, s \cup {a})) = f[a] + SumFunction(Over(f, s)) /\ SumFunction(Over(f, s)) \in Int
          /\ SumFunction(Over(g, s \cup {a})) = g[a] + SumFunction(Over(g, s)) /\ SumFunction(Over(g, s)) \in Int
        BY <1>3, <1>4
    <2>3. SumFunction(Over(b, s)) = SumFunction(Over(f, s)) + SumFunction(Over(g, s))
        BY <1>6
    <2>4. SumFunction(Over(b, s \cup {a})) = SumFunction(Over(f, s \cup {a})) + SumFunction(Over(g, s \cup {a}))
        BY <1>1, <2>1, <2>2, <2>3
    <2>5. s \cup {a} \in SUBSET S
        OBVIOUS
    <2>6. QED
        BY <2>4, <2>5
<1>7. S \in T
    <2> HIDE DEF T
    <2>1. QED
        BY <1>5, <1>6, SetsByAdding
<1>8. SumFunction(b) = SumFunction(f) + SumFunction(g)
    BY <1>2, <1>3, <1>4, <1>7
<1>9. QED
    BY <1>8, SumIsInt DEF b

(* Zeros add up to nothing. *)
LEMMA SumOfZeros ==
    ASSUME NEW S, IsFiniteSet(S)
    PROVE  SumFunction([x \in S |-> 0]) = 0
<1> DEFINE f == [x \in S |-> 0]
<1>1. f \in [S -> Int]
    OBVIOUS
<1>2. [x \in S |-> f[x] + f[x]] = f
    OBVIOUS
<1> HIDE DEF f
<1>3. SumFunction([x \in S |-> f[x] + f[x]]) = SumFunction(f) + SumFunction(f) /\ SumFunction(f) \in Int
    BY <1>1, SumAdds
<1>4. SumFunction(f) = SumFunction(f) + SumFunction(f) /\ SumFunction(f) \in Int
    BY <1>2, <1>3
<1> DEFINE n == SumFunction(f)
<1>5. n \in Int /\ n = n + n
    BY <1>4
<1> HIDE DEF n
<1>6. n = 0
    BY <1>5
<1>7. QED
    BY <1>6 DEF f, n

(* Naturals over some of a set add up to no more than over all of it. *)
LEMMA SumOfFewer ==
    ASSUME NEW S, IsFiniteSet(S), NEW f \in [S -> Nat], NEW R \in SUBSET S
    PROVE  SumFunction([x \in R |-> f[x]]) <= SumFunction(f)
<1> DEFINE T == {s \in SUBSET S : SumFunction(Over(f, s \cap R)) <= SumFunction(Over(f, s))}
<1>1. f \in [S -> Int] /\ \A x \in S : f[x] \in Nat
    OBVIOUS
<1>2. /\ SumFunction(Over(f, {})) = 0 /\ Over(f, S) = f
      /\ \A s \in SUBSET S : SumFunction(Over(f, s)) \in Int
      /\ \A s \in SUBSET S : \A a \in S \ s : SumFunction(Over(f, s \cup {a})) = f[a] + SumFunction(Over(f, s))
    BY <1>1, SumOfMore
<1>3. {} \in T
    <2>1. {} \cap R = {}
        OBVIOUS
    <2>2. QED
        BY <1>2, <2>1
<1>4. ASSUME NEW s \in SUBSET S, NEW a \in S \ s, s \in T PROVE s \cup {a} \in T
    <2>1. SumFunction(Over(f, s \cup {a})) = f[a] + SumFunction(Over(f, s)) /\ SumFunction(Over(f, s)) \in Int
        BY <1>2
    <2>2. s \cap R \in SUBSET S /\ a \in S \ (s \cap R) /\ s \cup {a} \in SUBSET S
        OBVIOUS
    <2>3. /\ SumFunction(Over(f, (s \cap R) \cup {a})) = f[a] + SumFunction(Over(f, s \cap R))
          /\ SumFunction(Over(f, s \cap R)) \in Int
        BY <1>2, <2>2
    <2>4. (s \cup {a}) \cap R = IF a \in R THEN (s \cap R) \cup {a} ELSE s \cap R
        OBVIOUS
    <2>5. SumFunction(Over(f, s \cap R)) <= SumFunction(Over(f, s)) /\ f[a] \in Nat
        BY <1>1, <1>4
    <2>6. SumFunction(Over(f, (s \cup {a}) \cap R)) <= SumFunction(Over(f, s \cup {a}))
        <3>1. CASE a \in R
            <4>1. SumFunction(Over(f, (s \cup {a}) \cap R)) = f[a] + SumFunction(Over(f, s \cap R))
                BY <2>3, <2>4, <3>1
            <4>2. QED
                BY <2>1, <2>3, <2>5, <4>1
        <3>2. CASE a \notin R
            <4>1. SumFunction(Over(f, (s \cup {a}) \cap R)) = SumFunction(Over(f, s \cap R))
                BY <2>4, <3>2
            <4>2. QED
                BY <2>1, <2>3, <2>5, <4>1
        <3>3. QED
            BY <3>1, <3>2
    <2>7. QED
        BY <2>2, <2>6
<1>5. S \in T
    <2> HIDE DEF T
    <2>1. QED
        BY <1>3, <1>4, SetsByAdding
<1>6. S \cap R = R
    OBVIOUS
<1>7. SumFunction(Over(f, R)) <= SumFunction(f)
    BY <1>2, <1>5, <1>6
<1>8. QED
    BY <1>7 DEF Over

\* A table's rows added up, over the columns of s, and its columns.
RowSums(f, S, s) == [x \in S |-> SumFunction(Over(f[x], s))]
ColSums(f, S, R) == [y \in R |-> SumFunction([x \in S |-> f[x][y]])]

(* A table adds up to the same by its rows and by its columns. *)
LEMMA SumsExchange ==
    ASSUME NEW S, IsFiniteSet(S), NEW R, IsFiniteSet(R), NEW f \in [S -> [R -> Int]]
    PROVE  SumFunction([x \in S |-> SumFunction(f[x])]) = SumFunction([y \in R |-> SumFunction([x \in S |-> f[x][y]])])
<1> DEFINE cols == ColSums(f, S, R)
           T == {s \in SUBSET R : SumFunction(RowSums(f, S, s)) = SumFunction(Over(cols, s))}
           col(y) == [x \in S |-> f[x][y]]
<1>1. \A x \in S : /\ SumFunction(Over(f[x], {})) = 0 /\ Over(f[x], R) = f[x]
                   /\ \A s \in SUBSET R : SumFunction(Over(f[x], s)) \in Int
                   /\ \A s \in SUBSET R : \A a \in R \ s :
                        SumFunction(Over(f[x], s \cup {a})) = f[x][a] + SumFunction(Over(f[x], s))
    <2>1. ASSUME NEW x \in S
          PROVE  /\ SumFunction(Over(f[x], {})) = 0 /\ Over(f[x], R) = f[x]
                 /\ \A s \in SUBSET R : SumFunction(Over(f[x], s)) \in Int
                 /\ \A s \in SUBSET R : \A a \in R \ s :
                      SumFunction(Over(f[x], s \cup {a})) = f[x][a] + SumFunction(Over(f[x], s))
        <3> DEFINE g == f[x]
        <3>1. g \in [R -> Int]
            OBVIOUS
        <3> HIDE DEF g
        <3>2. /\ SumFunction(Over(g, {})) = 0 /\ Over(g, R) = g
              /\ \A s \in SUBSET R : SumFunction(Over(g, s)) \in Int
              /\ \A s \in SUBSET R : \A a \in R \ s : SumFunction(Over(g, s \cup {a})) = g[a] + SumFunction(Over(g, s))
            BY <3>1, SumOfMore
        <3>3. QED
            BY <3>2 DEF g
    <2>2. QED
        BY <2>1
<1>2. \A y \in R : col(y) \in [S -> Int] /\ SumFunction(col(y)) \in Int
    <2>1. \A y \in R : col(y) \in [S -> Int]
        OBVIOUS
    <2> HIDE DEF col
    <2>2. QED
        BY <2>1, SumIsInt
<1>3. cols \in [R -> Int] /\ \A y \in R : cols[y] = SumFunction(col(y))
    <2>1. cols = [y \in R |-> SumFunction(col(y))]
        BY DEF ColSums
    <2> HIDE DEF col, cols
    <2>2. QED
        BY <1>2, <2>1
<1> HIDE DEF cols
<1>4. /\ SumFunction(Over(cols, {})) = 0 /\ Over(cols, R) = cols
      /\ \A s \in SUBSET R : \A a \in R \ s : SumFunction(Over(cols, s \cup {a})) = cols[a] + SumFunction(Over(cols, s))
      /\ \A s \in SUBSET R : SumFunction(Over(cols, s)) \in Int
    BY <1>3, SumOfMore
<1>5. {} \in T
    <2>1. RowSums(f, S, {}) = [x \in S |-> 0]
        BY <1>1 DEF RowSums
    <2>2. SumFunction(RowSums(f, S, {})) = 0
        BY <2>1, SumOfZeros
    <2>3. QED
        BY <1>4, <2>2
<1>6. ASSUME NEW s \in SUBSET R, NEW a \in R \ s, s \in T PROVE s \cup {a} \in T
    <2> DEFINE F == RowSums(f, S, s)
               G == col(a)
    <2>1. F \in [S -> Int] /\ G \in [S -> Int]
        BY <1>1, <1>2 DEF RowSums
    <2>2. RowSums(f, S, s \cup {a}) = [x \in S |-> F[x] + G[x]]
        <3>1. \A x \in S : F[x] = SumFunction(Over(f[x], s)) /\ G[x] = f[x][a] /\ f[x][a] \in Int
            BY DEF RowSums
        <3>2. ASSUME NEW x \in S PROVE SumFunction(Over(f[x], s \cup {a})) = F[x] + G[x]
            <4>1. SumFunction(Over(f[x], s \cup {a})) = f[x][a] + SumFunction(Over(f[x], s))
                  /\ SumFunction(Over(f[x], s)) \in Int
                BY <1>1
            <4> HIDE DEF F, G
            <4>2. QED
                BY <3>1, <4>1
        <3> HIDE DEF F, G
        <3>3. QED
            BY <3>2 DEF RowSums
    <2> HIDE DEF F, G
    <2>3. SumFunction(RowSums(f, S, s \cup {a})) = SumFunction(F) + SumFunction(G)
          /\ SumFunction(F) \in Int /\ SumFunction(G) \in Int
        BY <2>1, <2>2, SumAdds
    <2>4. SumFunction(Over(cols, s \cup {a})) = SumFunction(G) + SumFunction(Over(cols, s))
          /\ SumFunction(Over(cols, s)) \in Int
        BY <1>3, <1>4 DEF G
    <2>5. SumFunction(F) = SumFunction(Over(cols, s))
        BY <1>6 DEF F
    <2>6. SumFunction(RowSums(f, S, s \cup {a})) = SumFunction(Over(cols, s \cup {a})) /\ s \cup {a} \in SUBSET R
        BY <2>3, <2>4, <2>5
    <2>7. QED
        BY <2>6
<1>7. R \in T
    <2> HIDE DEF T
    <2>1. QED
        BY <1>5, <1>6, SetsByAdding
<1>8. RowSums(f, S, R) = [x \in S |-> SumFunction(f[x])]
    BY <1>1 DEF RowSums
<1>9. SumFunction(RowSums(f, S, R)) = SumFunction(cols)
    BY <1>4, <1>7
<1>10. QED
    BY <1>8, <1>9 DEF cols, ColSums

----------------------------------------------------------------------------
(* The ends of a finite set of naturals. *)

HasEnds(S) == (\E d \in S : \A e \in S : d <= e) /\ (\E d \in S : \A e \in S : d >= e)

(* There are a least and a greatest of finitely many naturals. *)
LEMMA EndsExist ==
    ASSUME NEW S, IsFiniteSet(S), S \subseteq Nat, S # {}
    PROVE  HasEnds(S)
<1> DEFINE T == {s \in SUBSET S : s # {} => HasEnds(s)}
<1>1. {} \in T
    OBVIOUS
<1>2. ASSUME NEW s \in SUBSET S, NEW a \in S \ s, s \in T PROVE s \cup {a} \in T
    <2> DEFINE t == s \cup {a}
    <2>1. CASE s = {}
        BY <2>1 DEF HasEnds
    <2>2. CASE s # {}
        <3>1. PICK lo \in s, hi \in s : \A e \in s : lo <= e /\ hi >= e
            BY <1>2, <2>2 DEF HasEnds
        <3>2. \E d \in t : \A e \in t : d <= e
            <4>1. CASE a <= lo
                BY <3>1, <4>1
            <4>2. CASE ~(a <= lo)
                BY <3>1, <4>2
            <4>3. QED
                BY <4>1, <4>2
        <3>3. \E d \in t : \A e \in t : d >= e
            <4>1. CASE a >= hi
                BY <3>1, <4>1
            <4>2. CASE ~(a >= hi)
                BY <3>1, <4>2
            <4>3. QED
                BY <4>1, <4>2
        <3>4. QED
            BY <3>2, <3>3 DEF HasEnds
    <2>3. QED
        BY <2>1, <2>2
<1>3. S \in T
    <2> HIDE DEF T
    <2>1. QED
        BY <1>1, <1>2, SetsByAdding
<1>4. QED
    BY <1>3
=============================================================================
