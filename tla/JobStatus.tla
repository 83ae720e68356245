----------------------------- MODULE JobStatus ------------------------------
(***************************************************************************)
(* GET /jobs/{id}: the service keeps no record of jobs.  Each request runs *)
(* lpstat two or three times, and CUPS goes on printing between the runs,  *)
(* so an answer is put together from listings of different moments.        *)
(*                                                                         *)
(* A job identifier is its [dest, number]; module JobIds is about the      *)
(* strings.                                                                *)
(***************************************************************************)
EXTENDS Cups

CONSTANTS
  Pollers,         \* clients; each asks about one job, again and again
  Configured,      \* the destinations of the configured printers
  Anybody,         \* who creates jobs: of no interest here
  LpstatFaults     \* whether lpstat may fail

ASSUME JobStatusAssumption ==
  Configured \subseteq Dests /\ Owners = {Anybody} /\ LpstatFaults \in BOOLEAN

VARIABLES
  pc,      \* which listing each request reads next
  asked,   \* the job each client asks about
  answer,  \* the last answer to each client
  failed,  \* whether lpstat failed during the last request
  seen,    \* history: the states the job had while its last request ran
  toldOver \* history: whether it was ever told that its job is over

vars == << jobs, pc, asked, answer, failed, seen, toldOver >>

JobIds == [dest : Dests, number : JobNumbers]

Statuses == {"queued", "processing", "completed", "canceled", "aborted", "unknown"}

-----------------------------------------------------------------------------
(* lpstat, run at one moment.                                              *)
Listed(states) == { n \in JobNumbers : jobs[n].state \in states }

(* Mutant: lpstat -o without -W not-completed after a change of defaults.  *)
MutNotCompleted == Listed(ActiveStates \cup TerminalStates)

NotCompleted == Listed(ActiveStates)

Completed == Listed(TerminalStates)

IsIn(id, listing) == id.number \in listing /\ jobs[id.number].dest = id.dest

(* lpstat -p names the job as "now printing queue-10.", and the code looks *)
(* for "now printing queue-1" anywhere in it.                              *)
DecimalPrefix(m, n) == \E k \in 0 .. 4 : n \div (10 ^ k) = m

NowPrinting(id) == \E n \in Printing(id.dest) : DecimalPrefix(id.number, n)

(* Mutant: the words are not looked for.                                   *)
MutTerminalStatus(listing) == "completed"

(* The words "canceled", "aborted" and "stopped" are looked for in the     *)
(* whole listing.                                                          *)
TerminalStatus(listing) ==
  IF \E n \in listing : jobs[n].state = "canceled" THEN "canceled"
  ELSE IF \E n \in listing : jobs[n].state = "aborted" THEN "aborted"
  ELSE "completed"

-----------------------------------------------------------------------------
TrueState(id) ==
  IF jobs[id.number].state = "free" \/ jobs[id.number].dest # id.dest
    THEN "free" ELSE jobs[id.number].state

(* The states a job has from the moment a request about it comes in to the *)
(* moment it is answered.                                                  *)
Watch(reset) ==
  seen' = [q \in Pollers |->
             IF q \in reset THEN {TrueState(asked[q])'}
             ELSE IF pc[q] = "idle" THEN seen[q]
             ELSE seen[q] \cup {TrueState(asked[q])'}]

Init ==
  /\ CupsInit
  /\ pc = [q \in Pollers |-> "idle"]
  /\ asked \in [Pollers -> JobIds]
  /\ answer = [q \in Pollers |-> "none"]
  /\ failed = [q \in Pollers |-> FALSE]
  /\ seen = [q \in Pollers |-> {"free"}]
  /\ toldOver = [q \in Pollers |-> FALSE]

Go(q, from, to) == pc[q] = from /\ pc' = [pc EXCEPT ![q] = to]

Answer(q, from, status) ==
  /\ Go(q, from, "idle")
  /\ answer' = [answer EXCEPT ![q] = status]
  /\ toldOver' = [toldOver EXCEPT ![q] = @ \/ status \in TerminalStates]

NobodyIsTold == UNCHANGED << answer, toldOver >>

(* One lpstat command, which may fail.                                     *)
LpstatRuns(q)  == failed' = failed
LpstatFails(q) == LpstatFaults /\ failed' = [failed EXCEPT ![q] = TRUE]

(* GetPrintJob up to the first lpstat.                                     *)
GetPrintJob(q) ==
  /\ IF asked[q].dest \in Configured
       THEN Go(q, "idle", "active") /\ NobodyIsTold
       ELSE Answer(q, "idle", "unknown")
  /\ failed' = [failed EXCEPT ![q] = FALSE]
  /\ UNCHANGED << jobs, asked >>
  /\ Watch({q})

(* Mutant: a job that is not active is taken to be unknown.                *)
MutReadActive(q) ==
  /\ \/ IsIn(asked[q], NotCompleted) /\ Go(q, "active", "printer") /\ NobodyIsTold
     \/ ~ IsIn(asked[q], NotCompleted) /\ Answer(q, "active", "unknown")
  /\ LpstatRuns(q)
  /\ UNCHANGED << jobs, asked >>
  /\ Watch({})

(* lpstat -W not-completed -o                                              *)
ReadActive(q) ==
  /\ \/ LpstatRuns(q) /\ IsIn(asked[q], NotCompleted) /\ Go(q, "active", "printer")
     \/ LpstatRuns(q) /\ ~ IsIn(asked[q], NotCompleted) /\ Go(q, "active", "completed")
     \/ LpstatFails(q) /\ Go(q, "active", "completed")
  /\ UNCHANGED << jobs, asked >> /\ NobodyIsTold
  /\ Watch({})

(* lpstat -p: is the job the one that is printing?                         *)
ReadPrinter(q) ==
  /\ \/ LpstatRuns(q) /\ Answer(q, "printer",
                                IF NowPrinting(asked[q]) THEN "processing" ELSE "queued")
     \/ LpstatFails(q) /\ Answer(q, "printer", "queued")
  /\ UNCHANGED << jobs, asked >>
  /\ Watch({})

(* lpstat -W completed -l -o                                               *)
ReadCompleted(q) ==
  /\ \/ LpstatRuns(q) /\ Answer(q, "completed",
                                IF IsIn(asked[q], Completed)
                                  THEN TerminalStatus(Completed) ELSE "unknown")
     \/ LpstatFails(q) /\ Answer(q, "completed", "unknown")
  /\ UNCHANGED << jobs, asked >>
  /\ Watch({})

(* CUPS goes on: somebody prints, jobs start, end and are forgotten.       *)
CupsWorks ==
  /\ \/ \E n \in JobNumbers, d \in Dests : CreateJob(n, d, Anybody, "pending")
     \/ \E n \in JobNumbers :
          \/ StartJob(n) \/ FinishJob(n) \/ RequeueJob(n)
          \/ CancelJob(n) \/ AbortJob(n) \/ PurgeJob(n)
  /\ UNCHANGED << pc, asked, failed >> /\ NobodyIsTold
  /\ Watch({})

Poll(q) == GetPrintJob(q) \/ ReadActive(q) \/ ReadPrinter(q) \/ ReadCompleted(q)

Next == CupsWorks \/ \E q \in Pollers : Poll(q)

Spec == Init /\ [][Next]_vars

(* The client polls for ever, lpstat comes to an end.                      *)
PollingSpec == Spec /\ \A q \in Pollers : WF_vars(Poll(q))

-----------------------------------------------------------------------------
(* What a status says about the job: it is alive, over, or not in CUPS.    *)
Meaning(status) ==
  CASE status \in {"queued", "processing"} -> ActiveStates
    [] status \in TerminalStates           -> TerminalStates
    [] status = "unknown"                  -> {"free", "purged"}

Answered(q) == pc[q] = "idle" /\ answer[q] # "none"

(* The listings are read at different moments, in an order that makes the  *)
(* answer right all the same: the job was alive, over or not in CUPS, as   *)
(* the answer says, at some moment of the request.  In particular a job    *)
(* that ends during the request is not lost between the two listings.      *)
AnswerWasTrue ==
  \A q \in Pollers :
    Answered(q) /\ ~ failed[q] /\ asked[q].dest \in Configured =>
      seen[q] \cap Meaning(answer[q]) # {}

(* "completed" is never said of a job that was canceled or aborted, nor    *)
(* said too early: the power script cuts the printer's power on it.        *)
CompletedIsGenuine ==
  \A q \in Pollers :
    Answered(q) /\ answer[q] = "completed" => "completed" \in seen[q]

(* A client that was ever told its job is over is never afterwards told    *)
(* that it is queued or printing, whatever it was told in between: an      *)
(* "unknown", of a job CUPS forgot or when lpstat failed, changes nothing. *)
NeverRevives ==
  \A q \in Pollers : toldOver[q] => answer[q] \notin {"queued", "processing"}

(* A client that keeps asking learns that its job is over: it does not     *)
(* read queued or processing for ever.                                     *)
PollerLearns ==
  \A q \in Pollers :
    TrueState(asked[q]) \in TerminalStates \cup {"purged"}
      ~> answer[q] \notin {"queued", "processing"}

-----------------------------------------------------------------------------
(* Statements the program does not keep.                                   *)

(* api.go: "CUPS recorded the job as canceled".                            *)
CanceledIsGenuine ==
  \A q \in Pollers :
    Answered(q) /\ answer[q] = "canceled" => "canceled" \in seen[q]

(* api.go: "CUPS is processing the job".                                   *)
ProcessingIsGenuine ==
  \A q \in Pollers :
    Answered(q) /\ answer[q] = "processing" => "processing" \in seen[q]

=============================================================================
