---------------------------- MODULE MCJobStatus -----------------------------
(* JobStatus with a few jobs.  The numbers of the jobs are 1, 2, ... where *)
(* their digits do not matter, and 1 and 10 where they do.                 *)
EXTENDS JobStatus

CONSTANTS mono, other, q1, user

MCOwners == {user}
=============================================================================
