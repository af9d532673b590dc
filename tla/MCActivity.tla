----------------------------- MODULE MCActivity -----------------------------
(* Small instances of Activity: one interval for both halves, in units of the
   loop's cadence. *)
EXTENDS Activity

CONSTANT Interval

Shared == [r \in Roles |-> Interval]
=============================================================================
