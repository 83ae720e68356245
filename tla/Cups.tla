-------------------------------- MODULE Cups --------------------------------
(***************************************************************************)
(* The CUPS scheduler as the service meets it through lp and lpstat: an    *)
(* external component, modelled from how api.go uses it.  Jobs belong to a *)
(* destination, are numbered in the order they are created across all      *)
(* destinations, and may come from anybody: CUPS serves other users too.   *)
(***************************************************************************)
EXTENDS Naturals, FiniteSets

CONSTANTS
  Dests,        \* CUPS destinations
  JobNumbers,   \* the numbers of the jobs of one behaviour (a bound)
  Owners        \* who creates jobs

ASSUME CupsAssumption == JobNumbers \subseteq Nat \ {0}

VARIABLE jobs   \* the job with each number

(* A job is created without its document ("incoming"), which lp sends      *)
(* next; CUPS forgets ("purged") finished jobs after a while.              *)
ActiveStates   == {"incoming", "pending", "processing"}
TerminalStates == {"completed", "canceled", "aborted"}
JobStates      == {"free", "purged"} \cup ActiveStates \cup TerminalStates

NoJobYet == [state |-> "free"]

JobRecords ==
  {NoJobYet} \cup [state : JobStates \ {"free"}, dest : Dests, owner : Owners]

CupsTypeOK == jobs \in [JobNumbers -> JobRecords]

CupsInit == jobs = [n \in JobNumbers |-> NoJobYet]

Exists(n) == jobs[n].state # "free"

(* The number the next job gets.                                           *)
IsNext(n) == ~ Exists(n) /\ \A m \in JobNumbers : Exists(m) <=> m < n

CreateJob(n, dest, owner, state) ==
  /\ IsNext(n)
  /\ jobs' = [jobs EXCEPT ![n] = [state |-> state, dest |-> dest, owner |-> owner]]

Move(n, from, to) ==
  /\ jobs[n].state \in from
  /\ jobs' = [jobs EXCEPT ![n].state = to]

Printing(dest) ==
  { n \in JobNumbers : jobs[n].state = "processing" /\ jobs[n].dest = dest }

(* A destination prints one job at a time.                                 *)
StartJob(n) ==
  /\ jobs[n].state = "pending"
  /\ Printing(jobs[n].dest) = {}
  /\ Move(n, {"pending"}, "processing")

FinishJob(n) == Move(n, {"processing"}, "completed")

(* A stopped destination gives its job back to the queue.                  *)
RequeueJob(n) == Move(n, {"processing"}, "pending")

(* Somebody cancels the job.                                               *)
CancelJob(n) == Move(n, ActiveStates, "canceled")

(* A filter or the printer fails, or the document never arrives.           *)
AbortJob(n) == Move(n, {"incoming", "processing"}, "aborted")

PurgeJob(n) == Move(n, TerminalStates, "purged")

=============================================================================
