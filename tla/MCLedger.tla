----------------------------- MODULE MCLedger ------------------------------
(* The export over more changes, more time or more faults, and the two    *)
(* programs of one stream together, for TLC.                              *)
EXTENDS Ledger

MCInstances ==
  {[writers |-> {"export"}, time |-> 1, moves |-> 2, faults |-> 1],
   [writers |-> {"export"}, time |-> 2, moves |-> 1, faults |-> 1],
   [writers |-> {"export"}, time |-> 1, moves |-> 1, faults |-> 2],
   [writers |-> {"snapshot", "backfill"}, time |-> 0, moves |-> 1, faults |-> 1]}
=============================================================================
