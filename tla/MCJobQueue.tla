----------------------------- MODULE MCJobQueue -----------------------------
(* JobQueue for TLC: the configurations give the constants model values.   *)
EXTENDS JobQueue

=============================================================================
