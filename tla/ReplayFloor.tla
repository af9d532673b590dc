---------------------------- MODULE ReplayFloor ----------------------------
(***************************************************************************)
(* What the durable replay floor promises, without files, locks or         *)
(* processes: one floor that only rises, and a set of documents it has     *)
(* promised never to be rolled back behind.                                *)
(***************************************************************************)
EXTENDS Naturals

CONSTANTS Docs, InstantOf, Nothing, Refusing

VARIABLES
    floor,   \* the recorded document; Nothing before any; Refusing when lost
    acked    \* the documents whose recording was reported to the caller

AtOrAbove(d, e) == InstantOf[d] > InstantOf[e] \/ d = e

Init == floor = Nothing /\ acked = {}

(* A document is recorded: never behind the floor, never behind a promise. *)
Raise(d) ==
    /\ floor \in Docs => AtOrAbove(d, floor)
    /\ \A e \in acked : AtOrAbove(d, e)
    /\ floor' = d
    /\ UNCHANGED acked

(* The caller is told, once the recorded floor covers its document.  The
   record may have been lost by then, and from then on that is known. *)
Acknowledge(d) ==
    /\ floor' \in {floor, Refusing} \ {Nothing}
    /\ floor' \in Docs => AtOrAbove(floor', d)
    /\ \A e \in acked : AtOrAbove(d, e)
    /\ acked' = acked \cup {d}

(* The record is lost or unreadable, and that is known. *)
Lose == floor' = Refusing /\ UNCHANGED acked

(* The record is lost and nothing says so: only while nothing was promised. *)
Forget == acked = {} /\ floor' = Nothing /\ UNCHANGED acked

(* The operator withdraws every promise. *)
Reset == floor' \in {Nothing, Refusing} /\ acked' = {}

Next ==
    \/ \E d \in Docs : Raise(d) \/ Acknowledge(d)
    \/ Lose \/ Forget \/ Reset

Spec == Init /\ [][Next]_<<floor, acked>>
============================================================================
