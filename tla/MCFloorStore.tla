---------------------------- MODULE MCFloorStore ----------------------------
(* Small instances of FloorStore: two processes and a third document that
   shares the second one's instant. *)
EXTENDS FloorStore

CONSTANTS p1, p2, d1, d2, e2

MCDocs == {d1, d2, e2}

MCInstantOf == [d \in MCDocs |-> IF d = d1 THEN 1 ELSE 2]
=============================================================================
