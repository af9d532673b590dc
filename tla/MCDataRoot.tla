----------------------------- MODULE MCDataRoot -----------------------------
(* Small instances of DataRoot: two documents that share an older instant and
   a newer one; captures one unit behind the export that carries them. *)
EXTENDS DataRoot, TLC

CONSTANTS p1, p2, d1, d2, e1

PairDocs == {d1, d2}
TwinDocs == {d1, d2, e1}

DocInstant == [d \in Docs |-> IF d = d2 THEN 2 ELSE 1]
DocCaptured == [d \in Docs |-> DocInstant[d] - 1]

(* Processes are interchangeable, and so are the two documents that share an
   instant. *)
Interchangeable == Permutations(Proc) \cup Permutations({d1, e1} \cap Docs)
=============================================================================
