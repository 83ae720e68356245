---------------------------- MODULE PowerWorkflow ---------------------------
(***************************************************************************)
(* scripts/print-with-power.sh: turn the printer on, wait until it is      *)
(* ready, print one document, wait until its job is completed, turn the    *)
(* printer off.  The script is composed with the service and with CUPS:    *)
(* its polls of GET /jobs/{id} are the requests of JobStatus, read from    *)
(* one lpstat run after the other while CUPS goes on.  Of the other        *)
(* operations it sees what their modules promise: a ready printer had      *)
(* power (PrinterStatus!ReadyWasIdle, for a printer with an ipp_uri), and  *)
(* a 202 names the job of that request (PrintDocument!QueuedIsOwnJob).     *)
(*                                                                         *)
(* Several runs may be under way at once, each in a shell of its own.      *)
(* Time is counted in rounds of a loop: a poll and a sleep.                *)
(***************************************************************************)
EXTENDS JobStatus

CONSTANTS
  Printer,          \* the destination of $printer_id
  StartupTimeout,   \* rounds before startup_deadline
  JobTimeout        \* rounds before job_deadline

ASSUME PowerWorkflowAssumption ==
  Printer \in Configured /\ StartupTimeout \in Nat /\ JobTimeout \in Nat

Runs == Pollers

VARIABLES
  step,      \* where each run of the script is
  exit,      \* how it ended: "none", "done" (exit 0) or "gave_up"
  waited,    \* the rounds of the loop it is in
  command,   \* its request to switch-api: "none", "on", "off" or "done"
  post,      \* its POST /print: "none", "sent" or "taken"
  power,     \* of the printer
  owned,     \* history: the job CUPS was given for each run, 0 if none
  cut,       \* history: whether its "off" was carried out
  warm,      \* history: whether it has found the printer ready
  finished   \* history: the jobs CUPS has completed

script == << step, exit, waited, command, post >>
world  == << power, owned, cut, warm, finished >>
service == << pc, asked, answer, failed, seen, toldOver >>
powerVars == << vars, script, world >>

-----------------------------------------------------------------------------
NoJob == [dest |-> Printer, number |-> CHOOSE n \in JobNumbers : TRUE]

PowerInit ==
  /\ CupsInit
  /\ pc = [r \in Runs |-> "idle"] /\ asked = [r \in Runs |-> NoJob]
  /\ answer = [r \in Runs |-> "none"] /\ failed = [r \in Runs |-> FALSE]
  /\ seen = [r \in Runs |-> {"free"}] /\ toldOver = [r \in Runs |-> FALSE]
  /\ step = [r \in Runs |-> "start"] /\ exit = [r \in Runs |-> "none"]
  /\ waited = [r \in Runs |-> 0]
  /\ command = [r \in Runs |-> "none"] /\ post = [r \in Runs |-> "none"]
  /\ power = "off"
  /\ owned = [r \in Runs |-> 0] /\ finished = {}
  /\ cut = [r \in Runs |-> FALSE] /\ warm = [r \in Runs |-> FALSE]

Goto(r, from, to) == step[r] = from /\ step' = [step EXCEPT ![r] = to]

End(r, from, word) ==
  Goto(r, from, "ended") /\ exit' = [exit EXCEPT ![r] = word]

-----------------------------------------------------------------------------
(* switch_request.                                                         *)
Order(r, from, to, word) ==
  /\ Goto(r, from, to)
  /\ command' = [command EXCEPT ![r] = word]

SwitchOn(r) ==
  /\ Order(r, "start", "switching_on", "on")
  /\ UNCHANGED << vars, exit, waited, post, world >>

(* switch-api carries a command out, be its caller still there or not.     *)
SwitchRuns(r) ==
  /\ command[r] \in {"on", "off"}
  /\ command' = [command EXCEPT ![r] = "done"]
  /\ power' = command[r]
  /\ cut' = [cut EXCEPT ![r] = @ \/ command[r] = "off"]
  /\ UNCHANGED << vars, step, exit, waited, post, owned, warm, finished >>

SwitchedOn(r) ==
  /\ command[r] = "done"
  /\ Goto(r, "switching_on", "await_printer")
  /\ waited' = [waited EXCEPT ![r] = 0]
  /\ UNCHANGED << vars, exit, command, post, world >>

(* One round of the first loop.                                            *)
AskPrinter(r) ==
  /\ step[r] = "await_printer" /\ waited[r] < StartupTimeout
  /\ \/ /\ power = "on"
        /\ Goto(r, "await_printer", "submit")
        /\ warm' = [warm EXCEPT ![r] = TRUE]
        /\ UNCHANGED waited
     \/ /\ waited' = [waited EXCEPT ![r] = @ + 1]
        /\ UNCHANGED << step, warm >>
  /\ UNCHANGED << vars, exit, command, post, power, owned, cut, finished >>

(* Mutant: the state read last is not looked at after the loop.            *)
MutPrinterDeadline(r) ==
  /\ waited[r] >= StartupTimeout
  /\ Goto(r, "await_printer", "submit")
  /\ UNCHANGED << vars, exit, waited, command, post, world >>

PrinterDeadline(r) ==
  /\ waited[r] >= StartupTimeout
  /\ End(r, "await_printer", "gave_up")
  /\ UNCHANGED << vars, waited, command, post, world >>

(* print_request.                                                          *)
Submit(r) ==
  /\ Goto(r, "submit", "posting")
  /\ post' = [post EXCEPT ![r] = "sent"]
  /\ UNCHANGED << vars, exit, waited, command, world >>

(* The service gives the document to CUPS, which may be later than the     *)
(* client's limit of time.                                                 *)
PrintAccepted(r, n) ==
  /\ post[r] = "sent"
  /\ CreateJob(n, Printer, Anybody, "pending")
  /\ post' = [post EXCEPT ![r] = "taken"]
  /\ owned' = [owned EXCEPT ![r] = n]
  /\ UNCHANGED << pc, asked, failed, step, exit, waited, command, power, cut, warm,
                  finished >>
  /\ NobodyIsTold
  /\ Watch({})

Submitted(r) ==
  /\ post[r] = "taken"
  /\ Goto(r, "posting", "await_job")
  /\ asked' = [asked EXCEPT ![r] = [dest |-> Printer, number |-> owned[r]]]
  /\ waited' = [waited EXCEPT ![r] = 0]
  /\ UNCHANGED << jobs, pc, answer, toldOver, failed, seen, exit, command, post, world >>

(* One round of the second loop: job_status is answered by JobStatus.      *)
AskJob(r) ==
  /\ waited[r] < JobTimeout
  /\ Goto(r, "await_job", "polling")
  /\ GetPrintJob(r)
  /\ UNCHANGED << exit, waited, command, post, world >>

Serve(r) ==
  /\ step[r] = "polling"
  /\ ReadActive(r) \/ ReadPrinter(r) \/ ReadCompleted(r)
  /\ UNCHANGED << script, world >>

Heard(r, words) == step[r] = "polling" /\ pc[r] = "idle" /\ answer[r] \in words

(* Mutant: a job that is not in CUPS any more is taken for a completed one.*)
MutJobCompleted(r) ==
  /\ Heard(r, {"completed", "unknown"})
  /\ Order(r, "polling", "switching_off", "off")
  /\ UNCHANGED << vars, exit, waited, post, world >>

JobCompleted(r) ==
  /\ Heard(r, {"completed"})
  /\ Order(r, "polling", "switching_off", "off")
  /\ UNCHANGED << vars, exit, waited, post, world >>

(* Mutant: the rounds are not counted.                                     *)
MutJobGoesOn(r) ==
  /\ Heard(r, {"queued", "processing"})
  /\ Goto(r, "polling", "await_job")
  /\ UNCHANGED << vars, exit, waited, command, post, world >>

JobGoesOn(r) ==
  /\ Heard(r, {"queued", "processing"})
  /\ Goto(r, "polling", "await_job")
  /\ waited' = [waited EXCEPT ![r] = @ + 1]
  /\ UNCHANGED << vars, exit, command, post, world >>

JobFailed(r) ==
  /\ Heard(r, {"canceled", "aborted", "unknown"})
  /\ End(r, "polling", "gave_up")
  /\ UNCHANGED << vars, waited, command, post, world >>

JobDeadline(r) ==
  /\ waited[r] >= JobTimeout
  /\ End(r, "await_job", "gave_up")
  /\ UNCHANGED << vars, waited, command, post, world >>

SwitchedOff(r) ==
  /\ command[r] = "done"
  /\ End(r, "switching_off", "done")
  /\ UNCHANGED << vars, waited, command, post, world >>

(* "set -e" ends the script at any request that fails or takes too long;   *)
(* what was sent may be carried out all the same.                          *)
CurlFails(r) ==
  /\ \/ step[r] \in {"switching_on", "posting", "polling", "switching_off"}
     \/ step[r] = "await_printer" /\ waited[r] < StartupTimeout
  /\ End(r, step[r], "gave_up")
  /\ UNCHANGED << vars, waited, command, post, world >>

CupsGoesOn ==
  /\ CupsWorks
  /\ finished' = finished \cup { n \in JobNumbers : jobs'[n].state = "completed" }
  /\ UNCHANGED << script, power, owned, cut, warm >>

ScriptStep(r) ==
  \/ SwitchOn(r) \/ SwitchedOn(r) \/ AskPrinter(r) \/ PrinterDeadline(r)
  \/ Submit(r) \/ Submitted(r) \/ AskJob(r)
  \/ JobCompleted(r) \/ JobGoesOn(r) \/ JobFailed(r) \/ JobDeadline(r)
  \/ SwitchedOff(r) \/ CurlFails(r)

PowerNext ==
  \/ CupsGoesOn
  \/ \E r \in Runs :
       \/ ScriptStep(r) \/ SwitchRuns(r) \/ Serve(r)
       \/ \E n \in JobNumbers : PrintAccepted(r, n)

PowerSpec == PowerInit /\ [][PowerNext]_powerVars

(* Every request of the script has a limit of time (curl --max-time), so   *)
(* it always gets on; nothing is assumed of the service or of switch-api.  *)
FairPowerSpec == PowerSpec /\ \A r \in Runs : WF_powerVars(ScriptStep(r))

-----------------------------------------------------------------------------
(* "Safety policy: power is turned off only after a confirmed completed    *)
(* job.  A timeout, an unavailable printer, or an uncertain/failed job     *)
(* leaves power on": whatever is late, lost or wrong, the power is turned  *)
(* off for a run only when CUPS has completed that run's own job, of which *)
(* there is one at most, and exit 0 means that it was.                     *)
Policy == INSTANCE PowerPolicy

ImplementsPowerPolicy == Policy!Spec

(* Nothing is printed for a run that has not found the printer ready.      *)
PrintsOnReadyPrinter == \A r \in Runs : owned[r] # 0 => warm[r]

(* The loops are left at their deadlines: no run goes on for ever, even    *)
(* when the printer never comes up or its job never ends.                  *)
ScriptEnds == \A r \in Runs : step[r] # "start" ~> step[r] = "ended"

=============================================================================
