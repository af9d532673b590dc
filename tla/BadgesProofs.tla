---------------------------- MODULE BadgesProofs ----------------------------
(***************************************************************************)
(* Proofs about Badges, for every set of publishers, history of main and   *)
(* number of attempts: an outcome says what happened, and badges of an     *)
(* older commit never replace those of a newer one.                        *)
(***************************************************************************)
EXTENDS Badges, TLAPS

Active == {"start", "list", "fetch", "decide", "push"}

\* What a publisher that is about to push decided from.
Rightful(p) ==
  /\ OnMain(source[p])
  /\ observed[p] # Absent =>
       observed[p] \in Publisher \ {p} /\ IsAncestor(source[observed[p]], source[p])

(* BadgesInv made inductive: a head that was read has landed, a push was   *)
(* decided from one that may be replaced, and an attempt is left.          *)
PublishInv ==
  /\ BadgesInv
  /\ \A p \in Publisher :
       /\ observed[p] \in Publisher => observed[p] \in landed
       /\ pc[p] = "push" => Rightful(p)
       /\ pc[p] \in Active => attempt[p] < Attempts

(* A decision is one of its four, and each has its reason.                 *)
LEMMA DecidesIs ==
    ASSUME TypeOK, NEW p \in Publisher
    PROVE  /\ Decides(p) \in {"refused", "published", "push", "superseded"}
           /\ Decides(p) = "published" => observed[p] = p
           /\ Decides(p) = "push" => Rightful(p)
           /\ Decides(p) = "superseded" =>
                observed[p] \in Publisher \ {p} /\ IsAncestor(source[p], source[observed[p]])
<1> DEFINE seen == observed[p]
<1>1. CASE ~OnMain(source[p])
    BY <1>1 DEF Decides
<1>2. CASE OnMain(source[p]) /\ seen = p
    BY <1>2, BadgesAssumption DEF Decides
<1>3. CASE OnMain(source[p]) /\ seen = Absent
    BY <1>3, BadgesAssumption DEF Decides, Rightful
<1>4. CASE OnMain(source[p]) /\ seen = Unsaid
    BY <1>4, BadgesAssumption DEF Decides
<1>5. CASE OnMain(source[p]) /\ seen \in Publisher \ {p}
    BY <1>5, BadgesAssumption DEF Decides, Rightful
<1>6. QED
    BY <1>1, <1>2, <1>3, <1>4, <1>5 DEF TypeOK

(* A spent attempt leaves the publisher active while any is left.          *)
LEMMA AgainKeeps ==
    ASSUME PublishInv, NEW p \in Publisher, Again(p), pc[p] \in Active,
           UNCHANGED <<source, listed, observed>>,
           head' \in Publisher \cup {Absent, Unsaid}, landed \subseteq landed', landed' \subseteq Publisher,
           head' \in Publisher => head' \in landed',
           \A q \in landed' : OnMain(source[q])
    PROVE  PublishInv'
<1> USE BadgesAssumption
<1>1. /\ attempt' = [attempt EXCEPT ![p] = attempt[p] + 1]
      /\ pc' = [pc EXCEPT ![p] = IF attempt[p] + 1 < Attempts THEN "list" ELSE "exhausted"]
      /\ attempt[p] \in Nat /\ attempt[p] < Attempts
    BY DEF Again, Goes, PublishInv, BadgesInv, TypeOK
<1>2. TypeOK'
    BY <1>1 DEF PublishInv, BadgesInv, TypeOK, Outcome
<1>3. \A q \in Publisher : q # p => pc'[q] = pc[q] /\ attempt'[q] = attempt[q]
    BY <1>1 DEF PublishInv, BadgesInv, TypeOK
<1>4. /\ pc'[p] \in {"list", "exhausted"} /\ attempt'[p] = attempt[p] + 1
      /\ pc'[p] = "list" => attempt'[p] < Attempts
    BY <1>1 DEF PublishInv, BadgesInv, TypeOK
<1>5. BadgesInv'
    <2>1. \A q \in Publisher : pc'[q] = "published" => q \in landed'
        BY <1>3, <1>4 DEF PublishInv, BadgesInv
    <2>2. \A q \in Publisher : pc'[q] = "superseded" =>
            \E r \in landed' \ {q} : IsAncestor(source'[q], source'[r])
        BY <1>3, <1>4 DEF PublishInv, BadgesInv
    <2>3. \A q \in Publisher : attempt'[q] <= Attempts
        BY <1>1, <1>3, <1>4 DEF PublishInv, BadgesInv
    <2>4. QED
        BY <1>2, <2>1, <2>2, <2>3 DEF BadgesInv
<1>6. \A q \in Publisher :
        /\ observed'[q] \in Publisher => observed'[q] \in landed'
        /\ pc'[q] = "push" => Rightful(q)'
        /\ pc'[q] \in Active => attempt'[q] < Attempts
    BY <1>3, <1>4 DEF PublishInv, Rightful, Active
<1>7. QED
    BY <1>5, <1>6 DEF PublishInv

(* A step that moves one publisher on, and no branch, keeps the invariant  *)
(* if the place it reaches has its reason.                                 *)
LEMMA MovesKeeps ==
    ASSUME PublishInv, NEW p \in Publisher, NEW to \in Active \cup Outcome, Goes(p, to),
           pc[p] \in Active, UNCHANGED <<source, attempt>>,
           listed' \in [Publisher -> BOOLEAN],
           observed' \in [Publisher -> Publisher \cup {Absent, Unsaid}],
           head' \in Publisher \cup {Absent, Unsaid}, landed \subseteq landed', landed' \subseteq Publisher,
           head' \in Publisher => head' \in landed',
           \A q \in landed' : OnMain(source[q]),
           \A q \in Publisher : q # p => observed'[q] = observed[q],
           observed'[p] \in Publisher => observed'[p] \in landed',
           to = "push" => Rightful(p)',
           to = "published" => p \in landed',
           to = "superseded" => \E q \in landed' \ {p} : IsAncestor(source[p], source[q])
    PROVE  PublishInv'
<1>1. pc' = [pc EXCEPT ![p] = to] /\ pc \in [Publisher -> Active \cup Outcome]
    BY DEF Goes, PublishInv, BadgesInv, TypeOK, Active
<1>2. TypeOK'
    BY <1>1 DEF PublishInv, BadgesInv, TypeOK, Active
<1>3. pc'[p] = to /\ \A q \in Publisher : q # p => pc'[q] = pc[q]
    BY <1>1
<1>4. BadgesInv'
    <2>1. \A q \in Publisher : pc'[q] = "published" => q \in landed'
        BY <1>3 DEF PublishInv, BadgesInv
    <2>2. \A q \in Publisher : pc'[q] = "superseded" =>
            \E r \in landed' \ {q} : IsAncestor(source'[q], source'[r])
        BY <1>3 DEF PublishInv, BadgesInv
    <2>3. QED
        BY <1>2, <2>1, <2>2 DEF PublishInv, BadgesInv
<1>5. \A q \in Publisher : observed'[q] \in Publisher => observed'[q] \in landed'
    BY DEF PublishInv
<1>6. \A q \in Publisher : pc'[q] = "push" => Rightful(q)'
    BY <1>3 DEF PublishInv, Rightful
<1>7. \A q \in Publisher : pc'[q] \in Active => attempt'[q] < Attempts
    BY <1>3 DEF PublishInv
<1>8. QED
    BY <1>4, <1>5, <1>6, <1>7 DEF PublishInv

LEMMA InitPublishInv == Init => PublishInv
<1> SUFFICES ASSUME Init PROVE PublishInv
    OBVIOUS
<1> USE BadgesAssumption
<1>1. TypeOK
    BY DEF Init, TypeOK
<1>2. BadgesInv
    BY <1>1 DEF Init, BadgesInv
<1>3. QED
    BY <1>2 DEF Init, PublishInv, Active

LEMMA PublisherStepKeeps ==
    ASSUME PublishInv, NEW p \in Publisher, PublisherStep(p)
    PROVE  PublishInv'
<1> USE DEF PublishInv, BadgesInv, TypeOK
<1>1. CASE ReadTotals(p)
    <2>1. PICK to \in {"list", "refused"} : Goes(p, to)
        BY <1>1 DEF ReadTotals
    <2>2. QED
        BY <1>1, <2>1, MovesKeeps DEF ReadTotals, Active, Outcome
<1>2. CASE List(p)
    BY <1>2, MovesKeeps DEF List, Active
<1>3. CASE Fetch(p)
    BY <1>3, BadgesAssumption, MovesKeeps DEF Fetch, Active
<1>4. CASE FetchGone(p)
    BY <1>4, AgainKeeps DEF FetchGone, Active
<1>5. CASE Decide(p)
    <2>1. Decides(p) \in Active \cup Outcome
        BY DecidesIs DEF Active, Outcome
    <2>2. Decides(p) = "push" => Rightful(p)'
        BY <1>5, DecidesIs DEF Decide, Rightful
    <2>3. Decides(p) = "superseded" => \E q \in landed \ {p} : IsAncestor(source[p], source[q])
        BY DecidesIs
    <2>4. QED
        BY <1>5, <2>1, <2>2, <2>3, DecidesIs, MovesKeeps DEF Decide, Active
<1>6. CASE Push(p)
    <2>1. CASE Admits(p) /\ Lands(p) /\ Goes(p, "published") /\ UNCHANGED <<attempt, steps>>
        BY <1>6, <2>1, MovesKeeps DEF Push, Lands, Active, Outcome, Rightful
    <2>2. CASE ~Admits(p) /\ Again(p) /\ UNCHANGED <<head, landed>>
        BY <1>6, <2>2, AgainKeeps DEF Push, Active
    <2>3. QED
        BY <1>6, <2>1, <2>2 DEF Push
<1>7. QED
    BY <1>1, <1>2, <1>3, <1>4, <1>5, <1>6 DEF PublisherStep

LEMMA NextKeepsPublishInv == PublishInv /\ [Next]_vars => PublishInv'
<1> SUFFICES ASSUME PublishInv, [Next]_vars PROVE PublishInv'
    OBVIOUS
<1> USE BadgesAssumption DEF PublishInv, BadgesInv, TypeOK
<1>1. CASE ByHand
    BY <1>1 DEF ByHand, Rightful
<1>2. ASSUME NEW p \in Publisher, PublisherStep(p) PROVE PublishInv'
    BY <1>2, PublisherStepKeeps
<1>3. ASSUME NEW p \in Publisher, TransportFails(p) PROVE PublishInv'
    BY <1>3, AgainKeeps DEF TransportFails, Active
<1>4. ASSUME NEW p \in Publisher, PushLost(p) PROVE PublishInv'
    <2>1. CASE UNCHANGED <<head, landed>>
        BY <1>4, <2>1, AgainKeeps DEF PushLost, Active
    <2>2. CASE Lands(p)
        BY <1>4, <2>2, AgainKeeps DEF PushLost, Lands, Active, Rightful
    <2>3. QED
        BY <1>4, <2>1, <2>2 DEF PushLost
<1>5. CASE UNCHANGED vars
    BY <1>5 DEF vars, Rightful
<1>6. QED
    BY <1>1, <1>2, <1>3, <1>4, <1>5 DEF Next

(* For any number of publishers: "published" is said only of badges that   *)
(* stood, even when the answer of their push was lost, "superseded" only   *)
(* where the same commit's or a newer one's stood, and none of a commit    *)
(* that is not on main ever did (publish).                                 *)
THEOREM OutcomesAreTrue == Spec => []BadgesInv
<1>1. PublishInv => BadgesInv
    BY DEF PublishInv
<1>2. QED
    BY <1>1, InitPublishInv, NextKeepsPublishInv, PTL DEF Spec

(* However many publishers race, lose their answers or try again: badges   *)
(* of an older commit never replace those of a newer one                   *)
(* (is_ancestor, the lease of publish).                                    *)
THEOREM OlderNeverReplaces == Spec => NeverOlder
<1> DEFINE Newer == (head \in Publisher /\ head' \in Publisher \ {head}) =>
                      IsAncestor(source[head], source[head'])
<1>1. PublishInv /\ [Next]_vars => [Newer]_vars
    <2> SUFFICES ASSUME PublishInv, Next, head \in Publisher, head' \in Publisher \ {head}
                 PROVE  IsAncestor(source[head], source[head'])
        BY DEF vars
    <2>1. ~ByHand
        BY BadgesAssumption DEF ByHand
    <2>2. PICK p \in Publisher : Admits(p) /\ Lands(p) /\ pc[p] = "push"
        BY <2>1 DEF Next, PublisherStep, ReadTotals, List, Fetch, FetchGone, Decide, Push,
                    TransportFails, PushLost
    <2>3. Rightful(p) /\ head = observed[p] /\ head' = p
        BY <2>2 DEF PublishInv, Admits, Lands
    <2>4. QED
        BY <2>3, BadgesAssumption DEF Rightful
<1>2. QED
    BY <1>1, InitPublishInv, NextKeepsPublishInv, PTL DEF Spec, NeverOlder
=============================================================================
