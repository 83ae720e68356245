-------------------------- MODULE MCPowerWorkflow ---------------------------
(* Two runs of the script at once on one printer, each with its own job or *)
(* with none: enough for one to cut the power under the other one.  One    *)
(* round of each loop before its deadline reaches a poll, a second look at *)
(* the clock, and the deadline.  lpstat does not fail here: its failures   *)
(* only turn an answer into unknown or queued, and answers of both kinds   *)
(* are read in any case.                                                   *)
EXTENDS PowerWorkflow

CONSTANTS mono, r1, r2, user

MCOwners == {user}
=============================================================================
