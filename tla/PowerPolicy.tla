----------------------------- MODULE PowerPolicy ----------------------------
(***************************************************************************)
(* The safety policy at the head of print-with-power.sh, with no polls, no *)
(* deadlines and no requests in flight: a run of the script prints at most *)
(* one job, turns the power off at most once, and only when CUPS has       *)
(* completed that very job; it reports success only after that.            *)
(***************************************************************************)
EXTENDS Naturals

CONSTANTS
  Runs,        \* the runs of the script
  JobNumbers   \* the numbers of the jobs of CUPS

VARIABLES
  power,      \* of the printer: "on" or "off"
  owned,      \* the job CUPS was given by each run; 0 is none
  finished,   \* the jobs CUPS has completed
  cut,        \* whether each run has turned the power off
  exit        \* how each run ended: "none", "done" or "gave_up"

vars == << power, owned, finished, cut, exit >>

Init ==
  /\ power = "off"
  /\ owned = [r \in Runs |-> 0]
  /\ finished = {}
  /\ cut = [r \in Runs |-> FALSE]
  /\ exit = [r \in Runs |-> "none"]

TurnOn ==
  /\ power' = "on"
  /\ UNCHANGED << owned, finished, cut, exit >>

(* A request that is on its way when its run gives up may still print.     *)
TakeJob(r, n) ==
  /\ owned[r] = 0 /\ exit[r] # "done"
  /\ \A other \in Runs : owned[other] # n
  /\ owned' = [owned EXCEPT ![r] = n]
  /\ UNCHANGED << power, finished, cut, exit >>

Complete(n) ==
  /\ finished' = finished \cup {n}
  /\ UNCHANGED << power, owned, cut, exit >>

TurnOff(r) ==
  /\ owned[r] \in finished /\ ~ cut[r]
  /\ power' = "off"
  /\ cut' = [cut EXCEPT ![r] = TRUE]
  /\ UNCHANGED << owned, finished, exit >>

End(r, word) ==
  /\ exit[r] = "none"
  /\ word = "done" => cut[r]
  /\ exit' = [exit EXCEPT ![r] = word]
  /\ UNCHANGED << power, owned, finished, cut >>

Next ==
  \/ TurnOn
  \/ \E n \in JobNumbers : Complete(n) \/ \E r \in Runs : TakeJob(r, n)
  \/ \E r \in Runs : TurnOff(r) \/ End(r, "done") \/ End(r, "gave_up")

Spec == Init /\ [][Next]_vars

=============================================================================
