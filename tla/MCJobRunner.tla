----------------------------- MODULE MCJobRunner -----------------------------
(* Model checking of JobRunner: two worker processes contend for one row.    *)
EXTENDS JobRunner, TLC

=============================================================================
