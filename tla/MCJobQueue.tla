----------------------------- MODULE MCJobQueue -----------------------------
(* Model checking of JobQueue on small sets of jobs and workers. *)
EXTENDS JobQueue, TLC
=============================================================================
