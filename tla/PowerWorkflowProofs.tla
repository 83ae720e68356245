------------------------ MODULE PowerWorkflowProofs -------------------------
(***************************************************************************)
(* Safety of GET /jobs/{id}, and of print-with-power.sh, which polls it.   *)
(*                                                                         *)
(* GET /jobs/{id}: for any number of jobs, destinations and clients, and   *)
(* with or without failures of lpstat, what a client is told was true      *)
(* while it asked, and stays true of a job that is over.                   *)
(*                                                                         *)
(* The script: for any number of runs and any deadlines it keeps the       *)
(* policy written at its head, and prints only on a printer it has found   *)
(* ready.  What has to be known of a run is what it has in flight: a POST  *)
(* or a switch command outlives the run that sent it, and is carried out   *)
(* at any later moment.                                                    *)
(***************************************************************************)
EXTENDS PowerWorkflow, TLAPS

-----------------------------------------------------------------------------
(* JobStatus: what makes the answers of GET /jobs/{id} right is that jobs  *)
(* only go forward: a job that was not listed as active and has ever been  *)
(* in CUPS is over, and stays over while the second listing is read.       *)

(* CUPS keeps well-formed jobs when one is created.                        *)
LEMMA CreateJobType ==
  ASSUME CupsTypeOK, NEW n \in JobNumbers, NEW d \in Dests, NEW o \in Owners,
         NEW s \in JobStates \ {"free"}, CreateJob(n, d, o, s)
  PROVE  /\ CupsTypeOK'
         /\ jobs[n].state = "free"
         /\ jobs'[n] = [state |-> s, dest |-> d, owner |-> o]
         /\ \A m \in JobNumbers \ {n} : jobs'[m] = jobs[m]
BY DEF CupsTypeOK, CreateJob, JobRecords, IsNext, Exists

(* CUPS keeps well-formed jobs when one changes its state.                 *)
LEMMA MoveType ==
  ASSUME CupsTypeOK, NEW n \in JobNumbers,
         NEW from \in SUBSET (JobStates \ {"free"}),
         NEW to \in JobStates \ {"free"}, Move(n, from, to)
  PROVE  /\ CupsTypeOK'
         /\ jobs[n] \in [state : JobStates \ {"free"}, dest : Dests, owner : Owners]
         /\ jobs'[n].state = to
         /\ jobs'[n].owner = jobs[n].owner
         /\ jobs'[n].dest = jobs[n].dest
         /\ \A m \in JobNumbers \ {n} : jobs'[m] = jobs[m]
<1>1. jobs[n] \in [state : JobStates \ {"free"}, dest : Dests, owner : Owners]
  BY DEF CupsTypeOK, Move, JobRecords, NoJobYet
<1>2. jobs' = [jobs EXCEPT ![n] = [jobs[n] EXCEPT !.state = to]]
  BY DEF Move
<1>3. [jobs[n] EXCEPT !.state = to]
        \in [state : JobStates \ {"free"}, dest : Dests, owner : Owners]
  BY <1>1
<1>4. CupsTypeOK'
  BY <1>2, <1>3 DEF CupsTypeOK, JobRecords
<1> QED
  BY <1>1, <1>2, <1>4 DEF CupsTypeOK

Over == TerminalStates \cup {"purged"}

TypeOK ==
  /\ CupsTypeOK
  /\ pc \in [Pollers -> {"idle", "active", "printer", "completed"}]
  /\ asked \in [Pollers -> JobIds]
  /\ answer \in [Pollers -> Statuses \cup {"none"}]
  /\ failed \in [Pollers -> BOOLEAN]
  /\ seen \in [Pollers -> SUBSET JobStates]
  /\ toldOver \in [Pollers -> BOOLEAN]

(* What is known of a request: its history is up to date; the job of one   *)
(* that reads the printer was active during the request; the job of one    *)
(* that reads the finished jobs is over, or was not in CUPS; and the job   *)
(* of a client that was ever told so is over, which nothing undoes.        *)
RequestInv(q) ==
  /\ pc[q] # "idle" =>
       asked[q].dest \in Configured /\ TrueState(asked[q]) \in seen[q]
  /\ pc[q] = "printer" =>
       seen[q] \cap ActiveStates # {} /\ ~ toldOver[q]
  /\ pc[q] = "completed" /\ ~ failed[q] =>
       TrueState(asked[q]) \in Over \/ seen[q] \cap {"free", "purged"} # {}
  /\ toldOver[q] => TrueState(asked[q]) \in Over
  /\ toldOver[q] => answer[q] \notin {"queued", "processing"}

TrueAnswer(q) ==
  Answered(q) /\ ~ failed[q] /\ asked[q].dest \in Configured =>
    seen[q] \cap Meaning(answer[q]) # {}

GenuineAnswer(q) ==
  Answered(q) /\ answer[q] = "completed" => "completed" \in seen[q]

IInv ==
  /\ TypeOK
  /\ \A q \in Pollers : RequestInv(q) /\ TrueAnswer(q) /\ GenuineAnswer(q)

-----------------------------------------------------------------------------
(* Jobs go forward: none vanishes or changes its destination, and one that *)
(* is over stays over.                                                     *)
Forward ==
  \A n \in JobNumbers :
    /\ jobs[n].state # "free" =>
         jobs'[n].state # "free" /\ jobs'[n].dest = jobs[n].dest
    /\ jobs[n].state \in Over => jobs'[n].state \in Over

(* A job that moves goes forward, unless it is over and would come back.   *)
LEMMA MoveForward ==
  ASSUME CupsTypeOK, NEW n \in JobNumbers,
         NEW from \in SUBSET (JobStates \ {"free"}),
         NEW to \in JobStates \ {"free"}, Move(n, from, to),
         from \cap Over # {} => to \in Over
  PROVE  CupsTypeOK' /\ Forward
<1>1. jobs[n].state \in from
  BY DEF Move
<1> QED
  BY <1>1, MoveType DEF Forward

(* No step of CUPS brings a job back.                                      *)
LEMMA CupsForward == CupsTypeOK /\ CupsWorks => CupsTypeOK' /\ Forward
<1> SUFFICES ASSUME CupsTypeOK, CupsWorks PROVE CupsTypeOK' /\ Forward
  OBVIOUS
<1> USE DEF JobStates, ActiveStates, TerminalStates, Over
<1>1. ASSUME NEW n \in JobNumbers, NEW d \in Dests, CreateJob(n, d, Anybody, "pending")
      PROVE  CupsTypeOK' /\ Forward
  <2>1. Anybody \in Owners
    BY JobStatusAssumption
  <2> QED
    BY <1>1, <2>1, CreateJobType DEF Forward
<1>2. ASSUME NEW n \in JobNumbers, StartJob(n) PROVE CupsTypeOK' /\ Forward
  BY <1>2, MoveForward DEF StartJob
<1>3. ASSUME NEW n \in JobNumbers, FinishJob(n) PROVE CupsTypeOK' /\ Forward
  BY <1>3, MoveForward DEF FinishJob
<1>4. ASSUME NEW n \in JobNumbers, RequeueJob(n) PROVE CupsTypeOK' /\ Forward
  BY <1>4, MoveForward DEF RequeueJob
<1>5. ASSUME NEW n \in JobNumbers, CancelJob(n) PROVE CupsTypeOK' /\ Forward
  BY <1>5, MoveForward DEF CancelJob
<1>6. ASSUME NEW n \in JobNumbers, AbortJob(n) PROVE CupsTypeOK' /\ Forward
  BY <1>6, MoveForward DEF AbortJob
<1>7. ASSUME NEW n \in JobNumbers, PurgeJob(n) PROVE CupsTypeOK' /\ Forward
  BY <1>7, MoveForward DEF PurgeJob
<1> QED
  BY <1>1, <1>2, <1>3, <1>4, <1>5, <1>6, <1>7 DEF CupsWorks

-----------------------------------------------------------------------------
(* Every job has a state, seen from the identifier a client asks with.     *)
LEMMA StateType ==
  ASSUME CupsTypeOK, NEW id \in JobIds
  PROVE  TrueState(id) \in JobStates
BY DEF CupsTypeOK, JobIds, TrueState, JobRecords, NoJobYet, JobStates

(* Before the first request nothing is known of any job.                   *)
LEMMA InvInit == Init => IInv
<1> SUFFICES ASSUME Init PROVE IInv
  OBVIOUS
<1>1. TypeOK
  BY DEF Init, TypeOK, CupsInit, CupsTypeOK, JobRecords, JobStates, Statuses
<1> QED
  BY <1>1 DEF Init, IInv, RequestInv, TrueAnswer, GenuineAnswer, Answered,
              TerminalStates

(* The parts of the invariant about client p hold after a step that leaves *)
(* its request alone: the history grows, or the request is over.           *)
LEMMA OthersKeep ==
  ASSUME IInv, TypeOK', Forward, NEW p \in Pollers,
         pc'[p] = pc[p], asked' = asked, answer'[p] = answer[p],
         toldOver'[p] = toldOver[p],
         failed'[p] = failed[p],
         seen'[p] = IF pc[p] = "idle" THEN seen[p]
                    ELSE seen[p] \cup {TrueState(asked[p])'}
  PROVE  RequestInv(p)' /\ TrueAnswer(p)' /\ GenuineAnswer(p)'
<1>1. TrueState(asked[p]) \in Over => TrueState(asked[p])' \in Over
  BY DEF Forward, TrueState, IInv, TypeOK, JobIds, Over, TerminalStates
<1>2. RequestInv(p)'
  BY <1>1 DEF IInv, RequestInv, Over, TypeOK
<1>3. TrueAnswer(p)'
  BY DEF IInv, TrueAnswer, Answered, TypeOK
<1>4. GenuineAnswer(p)'
  BY DEF IInv, GenuineAnswer, Answered, TypeOK
<1> QED
  BY <1>2, <1>3, <1>4

(* A step of one client's request leaves the jobs and the others alone.    *)
LEMMA OnlyOwn ==
  ASSUME IInv, TypeOK', NEW q \in Pollers, UNCHANGED << jobs, asked >>,
         \A p \in Pollers \ {q} :
           /\ pc'[p] = pc[p] /\ failed'[p] = failed[p]
        /\ answer'[p] = answer[p] /\ toldOver'[p] = toldOver[p],
         Watch({}) \/ Watch({q}),
         RequestInv(q)' /\ TrueAnswer(q)' /\ GenuineAnswer(q)'
  PROVE  IInv'
<1>1. Forward
  BY DEF Forward
<1>2. ASSUME NEW p \in Pollers \ {q}
      PROVE  RequestInv(p)' /\ TrueAnswer(p)' /\ GenuineAnswer(p)'
  <2>1. seen'[p] = IF pc[p] = "idle" THEN seen[p]
                   ELSE seen[p] \cup {TrueState(asked[p])'}
    BY DEF Watch
  <2> QED
    BY <1>1, <1>2, <2>1, OthersKeep
<1> QED
  BY <1>2 DEF IInv

(* A request comes in.                                                     *)
LEMMA GetStep ==
  ASSUME IInv, NEW q \in Pollers, GetPrintJob(q)
  PROVE  IInv'
<1>1. TrueState(asked[q]) \in JobStates /\ TrueState(asked[q])' = TrueState(asked[q])
  BY StateType DEF IInv, TypeOK, GetPrintJob, TrueState
<1>2. seen'[q] = {TrueState(asked[q])}
  BY <1>1 DEF GetPrintJob, Watch
<1>3. TypeOK'
  <2>1. \A p \in Pollers : TrueState(asked[p])' \in JobStates
    BY StateType DEF IInv, TypeOK, GetPrintJob, TrueState
  <2>2. seen' \in [Pollers -> SUBSET JobStates]
    BY <2>1 DEF IInv, TypeOK, GetPrintJob, Watch
  <2> QED
    BY <2>2 DEF IInv, TypeOK, GetPrintJob, Go, Answer, NobodyIsTold, CupsTypeOK,
                Statuses
<1>4. RequestInv(q)' /\ TrueAnswer(q)' /\ GenuineAnswer(q)'
  <2>1. /\ toldOver'[q] = toldOver[q] /\ asked' = asked
        /\ \/ pc'[q] = "active" /\ answer'[q] = answer[q]
              /\ asked[q].dest \in Configured
           \/ pc'[q] = "idle" /\ answer'[q] = "unknown"
              /\ asked[q].dest \notin Configured
    BY DEF IInv, TypeOK, GetPrintJob, Go, Answer, NobodyIsTold, TerminalStates
  <2>2. RequestInv(q)
    BY DEF IInv
  <2>3. RequestInv(q)'
    BY <1>1, <1>2, <2>1, <2>2 DEF RequestInv
  <2> QED
    BY <1>1, <1>2, <2>1, <2>3 DEF TrueAnswer, GenuineAnswer, Answered
<1>5. \A p \in Pollers \ {q} :
        /\ pc'[p] = pc[p] /\ failed'[p] = failed[p]
        /\ answer'[p] = answer[p] /\ toldOver'[p] = toldOver[p]
  BY DEF IInv, TypeOK, GetPrintJob, Go, Answer, NobodyIsTold
<1> QED
  BY <1>3, <1>4, <1>5, OnlyOwn DEF GetPrintJob

(* What an lpstat run leaves alone, and how it extends the history.        *)
LEMMA Reading ==
  ASSUME IInv, NEW q \in Pollers, pc[q] # "idle", UNCHANGED << jobs, asked >>,
         Watch({})
  PROVE  /\ TrueState(asked[q]) \in JobStates
         /\ TrueState(asked[q])' = TrueState(asked[q])
         /\ TrueState(asked[q]) \in seen[q]
         /\ seen'[q] = seen[q]
         /\ seen' \in [Pollers -> SUBSET JobStates]
<1>1. \A p \in Pollers : /\ TrueState(asked[p]) \in JobStates
                         /\ TrueState(asked[p])' = TrueState(asked[p])
  BY StateType DEF IInv, TypeOK, TrueState
<1>2. TrueState(asked[q]) \in seen[q]
  BY DEF IInv, RequestInv
<1>3. seen'[q] = seen[q] \cup {TrueState(asked[q])'}
  BY DEF Watch
<1>4. seen' \in [Pollers -> SUBSET JobStates]
  BY <1>1 DEF IInv, TypeOK, Watch
<1> QED
  BY <1>1, <1>2, <1>3, <1>4

(* lpstat lists exactly the jobs in a state it is asked for.               *)
LEMMA IsListed ==
  ASSUME TypeOK, NEW q \in Pollers, NEW states \in SUBSET (JobStates \ {"free"})
  PROVE  IsIn(asked[q], Listed(states)) <=> TrueState(asked[q]) \in states
BY DEF IsIn, Listed, TrueState, TypeOK, JobIds

(* The first listing: the job is found active, or it is over or was not in *)
(* CUPS, unless lpstat failed.                                             *)
LEMMA ActiveStep ==
  ASSUME IInv, NEW q \in Pollers, ReadActive(q)
  PROVE  IInv'
<1>1. pc[q] = "active" /\ UNCHANGED << jobs, asked, answer, toldOver >> /\ Watch({})
  BY DEF ReadActive, Go, NobodyIsTold
<1>2. /\ TrueState(asked[q]) \in JobStates
      /\ TrueState(asked[q])' = TrueState(asked[q])
      /\ TrueState(asked[q]) \in seen[q]
      /\ seen'[q] = seen[q]
      /\ seen' \in [Pollers -> SUBSET JobStates]
  BY <1>1, Reading
<1>3. IsIn(asked[q], NotCompleted) <=> TrueState(asked[q]) \in ActiveStates
  BY IsListed DEF NotCompleted, IInv, JobStates, ActiveStates
<1>4. TypeOK'
  BY <1>1, <1>2
     DEF IInv, TypeOK, ReadActive, Go, LpstatRuns, LpstatFails, CupsTypeOK
<1>5. RequestInv(q)' /\ TrueAnswer(q)' /\ GenuineAnswer(q)'
  <2>1. RequestInv(q) /\ q \in DOMAIN pc /\ q \in DOMAIN failed
    BY DEF IInv, TypeOK
  <2>2. pc'[q] \in {"printer", "completed"}
    BY <2>1 DEF ReadActive, Go
  <2>3. pc'[q] = "printer" => TrueState(asked[q]) \in ActiveStates
    BY <1>3, <2>1 DEF ReadActive, Go
  <2>4. pc'[q] = "completed" /\ ~ failed'[q] => TrueState(asked[q]) \notin ActiveStates
    BY <1>3, <2>1 DEF ReadActive, Go, LpstatFails
  <2>5. RequestInv(q)'
    BY <1>1, <1>2, <2>1, <2>2, <2>3, <2>4
       DEF RequestInv, Over, JobStates, ActiveStates, TerminalStates
  <2> QED
    BY <2>2, <2>5 DEF TrueAnswer, GenuineAnswer, Answered
<1>6. \A p \in Pollers \ {q} :
        /\ pc'[p] = pc[p] /\ failed'[p] = failed[p]
        /\ answer'[p] = answer[p] /\ toldOver'[p] = toldOver[p]
  BY <1>1 DEF IInv, TypeOK, ReadActive, Go, LpstatRuns, LpstatFails
<1> QED
  BY <1>1, <1>4, <1>5, <1>6, OnlyOwn

(* The printer is read for a job that was active in this request only, so  *)
(* its client has never been told that it is over.                         *)
LEMMA PrinterStep ==
  ASSUME IInv, NEW q \in Pollers, ReadPrinter(q)
  PROVE  IInv'
<1>1. /\ pc[q] = "printer" /\ pc'[q] = "idle"
      /\ answer'[q] \in {"processing", "queued"}
      /\ UNCHANGED << jobs, asked >> /\ Watch({})
  BY DEF IInv, TypeOK, ReadPrinter, Go, Answer
<1>2. /\ TrueState(asked[q]) \in JobStates
      /\ TrueState(asked[q])' = TrueState(asked[q])
      /\ TrueState(asked[q]) \in seen[q]
      /\ seen'[q] = seen[q]
      /\ seen' \in [Pollers -> SUBSET JobStates]
  BY <1>1, Reading
<1>3. TypeOK'
  BY <1>1, <1>2, ZenonT(60)
     DEF IInv, TypeOK, ReadPrinter, Go, Answer, LpstatRuns, LpstatFails,
         CupsTypeOK, Statuses
<1>4. RequestInv(q) /\ toldOver'[q] = toldOver[q]
  BY DEF IInv, TypeOK, ReadPrinter, Answer, TerminalStates
<1>5. RequestInv(q)' /\ TrueAnswer(q)' /\ GenuineAnswer(q)'
  BY <1>1, <1>2, <1>4
     DEF RequestInv, TrueAnswer, GenuineAnswer, Answered, Meaning,
         TerminalStates
<1>6. \A p \in Pollers \ {q} :
        /\ pc'[p] = pc[p] /\ failed'[p] = failed[p]
        /\ answer'[p] = answer[p] /\ toldOver'[p] = toldOver[p]
  BY <1>1 DEF IInv, TypeOK, ReadPrinter, Go, Answer, LpstatRuns, LpstatFails
<1> QED
  BY <1>1, <1>3, <1>5, <1>6, OnlyOwn

(* The second listing: a job in it is over; one that is in neither was not *)
(* in CUPS at some moment of the request.                                  *)
LEMMA CompletedStep ==
  ASSUME IInv, NEW q \in Pollers, ReadCompleted(q)
  PROVE  IInv'
<1>1. /\ pc[q] = "completed" /\ pc'[q] = "idle"
      /\ UNCHANGED << jobs, asked >> /\ Watch({})
  BY DEF IInv, TypeOK, ReadCompleted, Go, Answer
<1>2. /\ TrueState(asked[q]) \in JobStates
      /\ TrueState(asked[q])' = TrueState(asked[q])
      /\ TrueState(asked[q]) \in seen[q]
      /\ seen'[q] = seen[q]
      /\ seen' \in [Pollers -> SUBSET JobStates]
  BY <1>1, Reading
<1>3. IsIn(asked[q], Completed) <=> TrueState(asked[q]) \in TerminalStates
  BY IsListed DEF Completed, IInv, JobStates, TerminalStates
<1>4. TerminalStatus(Completed) \in TerminalStates
  BY DEF TerminalStatus, TerminalStates
<1>5. IsIn(asked[q], Completed) /\ TerminalStatus(Completed) = "completed"
        => TrueState(asked[q]) = "completed"
  <2> SUFFICES ASSUME IsIn(asked[q], Completed), TerminalStatus(Completed) = "completed"
               PROVE  TrueState(asked[q]) = "completed"
    OBVIOUS
  <2>1. asked[q].number \in Completed /\ jobs[asked[q].number].dest = asked[q].dest
    BY DEF IsIn
  <2>2. jobs[asked[q].number].state \notin {"canceled", "aborted"}
    BY <2>1 DEF TerminalStatus
  <2> QED
    BY <1>3, <2>1, <2>2 DEF TrueState, TerminalStates
<1>6. \/ failed'[q] = failed[q] /\ answer'[q] =
             (IF IsIn(asked[q], Completed) THEN TerminalStatus(Completed) ELSE "unknown")
      \/ failed'[q] = TRUE /\ answer'[q] = "unknown"
  BY DEF IInv, TypeOK, ReadCompleted, LpstatRuns, LpstatFails, Answer
<1>7. TypeOK'
  <2>1. TerminalStatus(Completed) \in Statuses
    BY <1>4 DEF TerminalStates, Statuses
  <2> QED
    BY <1>1, <1>2, <2>1, ZenonT(60)
       DEF IInv, TypeOK, ReadCompleted, Go, Answer, LpstatRuns, LpstatFails,
           CupsTypeOK, Statuses
<1>8. RequestInv(q)'
  <2>1. RequestInv(q) /\ toldOver'[q] = (toldOver[q] \/ answer'[q] \in TerminalStates)
    BY DEF IInv, TypeOK, ReadCompleted, Answer
  <2>2. /\ answer'[q] \in TerminalStates \cup {"unknown"}
        /\ answer'[q] \in TerminalStates => TrueState(asked[q]) \in TerminalStates
    BY <1>3, <1>4, <1>6 DEF TerminalStates
  <2> QED
    BY <1>1, <1>2, <2>1, <2>2 DEF RequestInv, Over, TerminalStates
<1>9. TrueAnswer(q)'
  <2>1. CASE /\ ~ IsIn(asked[q], Completed)
             /\ answer'[q] = "unknown" /\ failed'[q] = failed[q]
    <3>1. ~ failed[q] => seen[q] \cap {"free", "purged"} # {}
      BY <1>1, <1>2, <1>3, <2>1 DEF IInv, RequestInv, Over
    <3> QED
      BY <1>2, <2>1, <3>1 DEF TrueAnswer, Meaning, TerminalStates
  <2>2. CASE IsIn(asked[q], Completed) /\ answer'[q] = TerminalStatus(Completed)
    BY <1>2, <1>3, <1>4, <2>2 DEF TrueAnswer, Meaning, TerminalStates
  <2>3. CASE failed'[q] = TRUE
    BY <2>3 DEF TrueAnswer
  <2> QED
    BY <1>6, <2>1, <2>2, <2>3
<1>10. GenuineAnswer(q)'
  BY <1>2, <1>5, <1>6 DEF GenuineAnswer
<1>11. \A p \in Pollers \ {q} :
        /\ pc'[p] = pc[p] /\ failed'[p] = failed[p]
        /\ answer'[p] = answer[p] /\ toldOver'[p] = toldOver[p]
  BY <1>1 DEF IInv, TypeOK, ReadCompleted, Go, Answer, LpstatRuns, LpstatFails
<1> QED
  BY <1>1, <1>7, <1>8, <1>9, <1>10, <1>11, OnlyOwn

(* CUPS goes on: no request is disturbed.                                  *)
LEMMA CupsStep ==
  ASSUME IInv, CupsWorks
  PROVE  IInv'
<1>1. CupsTypeOK' /\ Forward
  BY CupsForward DEF IInv, TypeOK
<1>2. UNCHANGED << pc, asked, answer, toldOver, failed >> /\ Watch({})
  BY DEF CupsWorks, NobodyIsTold
<1>3. \A p \in Pollers : TrueState(asked[p])' \in JobStates
  BY <1>1, <1>2 DEF IInv, TypeOK, CupsTypeOK, JobIds, TrueState, JobRecords,
                    NoJobYet, JobStates
<1>4. TypeOK'
  BY <1>1, <1>2, <1>3 DEF IInv, TypeOK, Watch
<1>5. ASSUME NEW p \in Pollers
      PROVE  RequestInv(p)' /\ TrueAnswer(p)' /\ GenuineAnswer(p)'
  <2>1. seen'[p] = IF pc[p] = "idle" THEN seen[p]
                   ELSE seen[p] \cup {TrueState(asked[p])'}
    BY <1>2 DEF Watch
  <2> QED
    BY <1>1, <1>2, <1>4, <2>1, OthersKeep
<1> QED
  BY <1>4, <1>5 DEF IInv

(* Every step keeps the invariant.                                         *)
LEMMA InvStep == IInv /\ [Next]_vars => IInv'
<1> SUFFICES ASSUME IInv, [Next]_vars PROVE IInv'
  OBVIOUS
<1>1. CASE CupsWorks
  BY <1>1, CupsStep
<1>2. ASSUME NEW q \in Pollers, Poll(q) PROVE IInv'
  BY <1>2, GetStep, ActiveStep, PrinterStep, CompletedStep DEF Poll
<1>3. CASE UNCHANGED vars
  BY <1>3 DEF vars, IInv, TypeOK, CupsTypeOK, RequestInv, TrueAnswer,
              GenuineAnswer, Answered, TrueState
<1> QED
  BY <1>1, <1>2, <1>3 DEF Next

-----------------------------------------------------------------------------
(* The inductive invariant: what the service knows of each request and of  *)
(* its job, while CUPS goes on.                                            *)
THEOREM Invariance == Spec => []IInv
<1> QED
  BY InvInit, InvStep, PTL DEF Spec

(* Every answer of GET /jobs/{id} was true at some moment of its request,  *)
(* although it is put together from listings of different moments.         *)
THEOREM AnswersAreTrue == Spec => []AnswerWasTrue
<1>1. IInv => AnswerWasTrue
  BY DEF IInv, TrueAnswer, AnswerWasTrue
<1> QED
  BY Invariance, <1>1, PTL

(* "completed" is said only of a job that CUPS had completed.              *)
THEOREM CompletedIsTrue == Spec => []CompletedIsGenuine
<1>1. IInv => CompletedIsGenuine
  BY DEF IInv, GenuineAnswer, CompletedIsGenuine
<1> QED
  BY Invariance, <1>1, PTL

(* No client that was ever told its job is over is afterwards told that it *)
(* is queued or printing: such an answer is given of a job that was active *)
(* during the request, and a job that is over never is again.              *)
THEOREM JobsDoNotRevive == Spec => []NeverRevives
<1>1. IInv => NeverRevives
  BY DEF IInv, RequestInv, NeverRevives
<1> QED
  BY Invariance, <1>1, PTL

-----------------------------------------------------------------------------
(* PowerWorkflow.                                                          *)

Ordering   == {"switching_off", "ended"}
BeforePost == {"start", "switching_on", "await_printer", "submit"}
AfterPost  == {"await_job", "polling", "switching_off"}
Steps      == BeforePost \cup {"posting"} \cup AfterPost \cup {"ended"}

(* The history of JobStatus is not looked at by the script.                *)
PowerTypeOK ==
  /\ CupsTypeOK
  /\ pc \in [Runs -> {"idle", "active", "printer", "completed"}]
  /\ asked \in [Runs -> [dest : {Printer}, number : JobNumbers \cup {NoJob.number}]]
  /\ answer \in [Runs -> Statuses \cup {"none"}]
  /\ failed \in [Runs -> BOOLEAN]
  /\ step \in [Runs -> Steps]
  /\ exit \in [Runs -> {"none", "done", "gave_up"}]
  /\ waited \in [Runs -> Nat]
  /\ command \in [Runs -> {"none", "on", "off", "done"}]
  /\ post \in [Runs -> {"none", "sent", "taken"}]
  /\ power \in {"on", "off"}
  /\ owned \in [Runs -> JobNumbers \cup {0}]
  /\ cut \in [Runs -> BOOLEAN]
  /\ warm \in [Runs -> BOOLEAN]
  /\ finished \subseteq JobNumbers

(* The POST of a run: sent once, after the printer was found ready, and    *)
(* waited for until the service has given the document to CUPS.            *)
PostInv(r) ==
  /\ step[r] \in BeforePost => post[r] = "none"
  /\ step[r] \in AfterPost => post[r] = "taken"
  /\ step[r] = "submit" \/ post[r] # "none" => warm[r]
  /\ post[r] = "taken" <=> owned[r] # 0
  /\ owned[r] # 0 => Exists(owned[r])

(* Its polls: they ask about the run's own job, and "completed" is read    *)
(* when CUPS has completed that job.                                       *)
PollInv(r) ==
  /\ step[r] \in {"await_job", "polling"} => asked[r].number = owned[r]
  /\ step[r] = "polling" /\ pc[r] = "idle" /\ answer[r] = "completed" =>
       owned[r] \in finished

(* Its orders to switch-api: an "off" is on its way, or was carried out,   *)
(* only after that.                                                        *)
SwitchInv(r) ==
  /\ command[r] = "off" \/ cut[r] => step[r] \in Ordering /\ owned[r] \in finished
  /\ command[r] = "off" => ~ cut[r]
  /\ step[r] = "switching_off" =>
       command[r] = "off" \/ (command[r] = "done" /\ cut[r])
  /\ exit[r] = "none" <=> step[r] # "ended"
  /\ exit[r] = "done" => cut[r]

FinishedInv ==
  \A n \in JobNumbers : jobs[n].state = "completed" => n \in finished

PowerInv ==
  /\ PowerTypeOK
  /\ FinishedInv
  /\ \A r \in Runs : PostInv(r) /\ PollInv(r) /\ SwitchInv(r)

-----------------------------------------------------------------------------
(* No run has begun.                                                       *)
LEMMA PowerInvInit == PowerInit => PowerInv
<1> SUFFICES ASSUME PowerInit PROVE PowerInv
  OBVIOUS
<1>1. PowerTypeOK
  BY DEF PowerInit, PowerTypeOK, Steps, BeforePost, CupsInit, CupsTypeOK,
         JobRecords, NoJob
<1>2. FinishedInv
  BY DEF PowerInit, FinishedInv, CupsInit, NoJobYet
<1> QED
  BY <1>1, <1>2
     DEF PowerInit, PowerInv, PostInv, PollInv, SwitchInv, BeforePost,
         AfterPost

(* What a step leaves of a run that it is not about.                       *)
Same(p) ==
  /\ step'[p] = step[p] /\ exit'[p] = exit[p] /\ command'[p] = command[p]
  /\ post'[p] = post[p] /\ owned'[p] = owned[p] /\ cut'[p] = cut[p]
  /\ warm'[p] = warm[p]
  /\ pc'[p] = pc[p] /\ asked'[p] = asked[p] /\ answer'[p] = answer[p]

RunInv(r) == PostInv(r) /\ PollInv(r) /\ SwitchInv(r)

(* A run is not disturbed by what the others, CUPS and the service do: no  *)
(* job vanishes, and none is taken out of the completed ones.              *)
LEMMA UndisturbedRun ==
  ASSUME PowerInv, NEW p \in Runs, Same(p), finished \subseteq finished',
         \A n \in JobNumbers : Exists(n) => Exists(n)'
  PROVE  RunInv(p)'
<1>1. PostInv(p)'
  BY DEF PowerInv, PowerTypeOK, PostInv, Same
<1>2. PollInv(p)'
  BY DEF PowerInv, PollInv, Same
<1>3. SwitchInv(p)'
  BY DEF PowerInv, SwitchInv, Same
<1> QED
  BY <1>1, <1>2, <1>3 DEF RunInv

(* A step of one run leaves the others alone.                              *)
LEMMA OnlyThisRun ==
  ASSUME PowerInv, NEW r \in Runs, PowerTypeOK', UNCHANGED << jobs, finished >>,
         \A p \in Runs \ {r} : Same(p), RunInv(r)'
  PROVE  PowerInv'
<1>1. \A p \in Runs \ {r} : RunInv(p)'
  BY UndisturbedRun DEF Exists
<1>2. FinishedInv'
  BY DEF PowerInv, FinishedInv
<1> QED
  BY <1>1, <1>2 DEF PowerInv, RunInv

-----------------------------------------------------------------------------
(* The steps of the script: those that change its place, its requests in   *)
(* flight and nothing of CUPS or of the service.                           *)
LEMMA ScriptKeeps ==
  ASSUME PowerInv, NEW r \in Runs, ScriptStep(r), ~ AskJob(r), ~ Submitted(r)
  PROVE  PowerInv'
<1> USE DEF Runs
<1>1. UNCHANGED << vars, owned, cut, finished, power >>
  BY DEF ScriptStep, SwitchOn, SwitchedOn, AskPrinter, PrinterDeadline, Submit,
         JobCompleted, JobGoesOn, JobFailed, JobDeadline, SwitchedOff,
         CurlFails, world
<1>2. UNCHANGED << jobs, pc, asked, answer, failed >>
  BY <1>1 DEF vars
<1>3. CupsTypeOK'
  BY <1>2 DEF PowerInv, PowerTypeOK, CupsTypeOK
<1> DEFINE Kept ==
             /\ step' \in [Runs -> Steps]
             /\ exit' \in [Runs -> {"none", "done", "gave_up"}]
             /\ waited' \in [Runs -> Nat]
             /\ command' \in [Runs -> {"none", "on", "off", "done"}]
             /\ post' \in [Runs -> {"none", "sent", "taken"}]
             /\ warm' \in [Runs -> BOOLEAN]
           Others == \A p \in Runs \ {r} :
             /\ step'[p] = step[p] /\ exit'[p] = exit[p]
             /\ command'[p] = command[p] /\ post'[p] = post[p]
             /\ warm'[p] = warm[p]
<1>4. ASSUME Kept, Others, RunInv(r)' PROVE PowerInv'
  <2>1. PowerTypeOK'
    BY <1>1, <1>2, <1>3, <1>4 DEF PowerInv, PowerTypeOK, NoJob
  <2>2. \A p \in Runs \ {r} : Same(p)
    BY <1>1, <1>2, <1>4 DEF Same
  <2> QED
    BY <1>1, <1>2, <1>4, <2>1, <2>2, OnlyThisRun
<1> DEFINE Good == Kept /\ Others /\ RunInv(r)'
<1>5. PowerTypeOK /\ RunInv(r)
  BY DEF PowerInv, RunInv
<1>6. CASE SwitchOn(r)
  <2>1. Kept /\ Others
    BY <1>5, <1>6 DEF SwitchOn, Order, Goto, PowerTypeOK, Steps, BeforePost,
       AfterPost, world
  <2>2. RunInv(r)'
    BY <1>1, <1>2, <1>5, <1>6
       DEF SwitchOn, Order, Goto, PowerTypeOK, BeforePost, AfterPost, Ordering,
           RunInv, PostInv, PollInv, SwitchInv, Exists, world
  <2> QED
    BY <1>4, <2>1, <2>2
<1>7. CASE SwitchedOn(r)
  <2>1. Kept /\ Others
    BY <1>5, <1>7 DEF SwitchedOn, Goto, PowerTypeOK, Steps, BeforePost, AfterPost, world
  <2>2. RunInv(r)'
    BY <1>1, <1>2, <1>5, <1>7
       DEF SwitchedOn, Goto, PowerTypeOK, BeforePost, AfterPost, Ordering,
           RunInv, PostInv, PollInv, SwitchInv, Exists, world
  <2> QED
    BY <1>4, <2>1, <2>2
<1>8. CASE AskPrinter(r)
  <2>1. Kept /\ Others
    <3>1. waited[r] + 1 \in Nat
      BY <1>5 DEF PowerTypeOK
    <3>2. CASE /\ Goto(r, "await_printer", "submit") /\ UNCHANGED waited
               /\ warm' = [warm EXCEPT ![r] = TRUE]
      BY <1>5, <1>8, <3>2
         DEF AskPrinter, Goto, PowerTypeOK, Steps, BeforePost, AfterPost
    <3>3. CASE /\ waited' = [waited EXCEPT ![r] = @ + 1]
               /\ UNCHANGED << step, warm >>
      BY <1>5, <1>8, <3>1, <3>3 DEF AskPrinter, PowerTypeOK
    <3> QED
      BY <1>8, <3>2, <3>3 DEF AskPrinter
  <2>2. RunInv(r)'
    BY <1>1, <1>2, <1>5, <1>8
       DEF AskPrinter, Goto, PowerTypeOK, BeforePost, AfterPost, Ordering,
           RunInv, PostInv, PollInv, SwitchInv, Exists, world
  <2> QED
    BY <1>4, <2>1, <2>2
<1>9. CASE PrinterDeadline(r)
  <2>1. Kept /\ Others
    BY <1>5, <1>9 DEF PrinterDeadline, End, Goto, PowerTypeOK, Steps, BeforePost,
       AfterPost, world
  <2>2. RunInv(r)'
    BY <1>1, <1>2, <1>5, <1>9
       DEF PrinterDeadline, End, Goto, PowerTypeOK, BeforePost, AfterPost, Ordering,
           RunInv, PostInv, PollInv, SwitchInv, Exists, world
  <2> QED
    BY <1>4, <2>1, <2>2
<1>10. CASE Submit(r)
  <2>1. Kept /\ Others
    BY <1>5, <1>10 DEF Submit, Goto, PowerTypeOK, Steps, BeforePost, AfterPost, world
  <2>2. RunInv(r)'
    BY <1>1, <1>2, <1>5, <1>10
       DEF Submit, Goto, PowerTypeOK, BeforePost, AfterPost, Ordering,
           RunInv, PostInv, PollInv, SwitchInv, Exists, world
  <2> QED
    BY <1>4, <2>1, <2>2
<1>11. CASE JobCompleted(r)
  <2>1. Kept /\ Others
    BY <1>5, <1>11 DEF JobCompleted, Order, Heard, Goto, PowerTypeOK, Steps,
       BeforePost, AfterPost, world
  <2>2. RunInv(r)'
    BY <1>1, <1>2, <1>5, <1>11
       DEF JobCompleted, Order, Heard, Goto, PowerTypeOK, BeforePost, AfterPost, Ordering,
           RunInv, PostInv, PollInv, SwitchInv, Exists, world
  <2> QED
    BY <1>4, <2>1, <2>2
<1>12. CASE JobGoesOn(r)
  <2>1. Kept /\ Others
    BY <1>5, <1>12 DEF JobGoesOn, Heard, Goto, PowerTypeOK, Steps, BeforePost,
       AfterPost, world
  <2>2. RunInv(r)'
    BY <1>1, <1>2, <1>5, <1>12
       DEF JobGoesOn, Heard, Goto, PowerTypeOK, BeforePost, AfterPost, Ordering,
           RunInv, PostInv, PollInv, SwitchInv, Exists, world
  <2> QED
    BY <1>4, <2>1, <2>2
<1>13. CASE JobFailed(r)
  <2>1. Kept /\ Others
    BY <1>5, <1>13 DEF JobFailed, Heard, End, Goto, PowerTypeOK, Steps, BeforePost,
       AfterPost, world
  <2>2. RunInv(r)'
    BY <1>1, <1>2, <1>5, <1>13
       DEF JobFailed, Heard, End, Goto, PowerTypeOK, BeforePost, AfterPost, Ordering,
           RunInv, PostInv, PollInv, SwitchInv, Exists, world
  <2> QED
    BY <1>4, <2>1, <2>2
<1>14. CASE JobDeadline(r)
  <2>1. Kept /\ Others
    BY <1>5, <1>14 DEF JobDeadline, End, Goto, PowerTypeOK, Steps, BeforePost,
       AfterPost, world
  <2>2. RunInv(r)'
    BY <1>1, <1>2, <1>5, <1>14
       DEF JobDeadline, End, Goto, PowerTypeOK, BeforePost, AfterPost, Ordering,
           RunInv, PostInv, PollInv, SwitchInv, Exists, world
  <2> QED
    BY <1>4, <2>1, <2>2
<1>15. CASE SwitchedOff(r)
  <2>1. Kept /\ Others
    BY <1>5, <1>15 DEF SwitchedOff, End, Goto, PowerTypeOK, Steps, BeforePost,
       AfterPost, world
  <2>2. RunInv(r)'
    BY <1>1, <1>2, <1>5, <1>15
       DEF SwitchedOff, End, Goto, PowerTypeOK, BeforePost, AfterPost, Ordering,
           RunInv, PostInv, PollInv, SwitchInv, Exists, world
  <2> QED
    BY <1>4, <2>1, <2>2
<1>16. CASE CurlFails(r)
  <2>1. Kept /\ Others
    BY <1>5, <1>16 DEF CurlFails, End, Goto, PowerTypeOK, Steps, BeforePost,
       AfterPost, world
  <2>2. RunInv(r)'
    BY <1>1, <1>2, <1>5, <1>16
       DEF CurlFails, End, Goto, PowerTypeOK, BeforePost, AfterPost, Ordering,
           RunInv, PostInv, PollInv, SwitchInv, Exists, world
  <2> QED
    BY <1>4, <2>1, <2>2
<1> QED
  BY <1>6, <1>7, <1>8, <1>9, <1>10, <1>11, <1>12, <1>13, <1>14, <1>15, <1>16
     DEF ScriptStep

(* The 202 is read, and the polls begin.                                   *)
LEMMA SubmittedKeeps ==
  ASSUME PowerInv, NEW r \in Runs, Submitted(r)
  PROVE  PowerInv'
<1> USE DEF Runs
<1>1. PowerTypeOK /\ RunInv(r)
  BY DEF PowerInv, RunInv
<1>2. owned[r] \in JobNumbers
  BY <1>1 DEF PowerTypeOK, RunInv, PostInv, Submitted
<1>3. PowerTypeOK'
  <2>1. [dest |-> Printer, number |-> owned[r]]
          \in [dest : {Printer}, number : JobNumbers \cup {NoJob.number}]
    BY <1>2
  <2> QED
    BY <1>1, <2>1
       DEF PowerTypeOK, CupsTypeOK, Submitted, Goto, Steps, AfterPost, world,
           NoJob
<1>4. RunInv(r)'
  BY <1>1
     DEF PowerTypeOK, Submitted, Goto, RunInv, PostInv, PollInv, SwitchInv,
         BeforePost, AfterPost, Ordering, Exists, world
<1>5. \A p \in Runs \ {r} : Same(p)
  BY <1>1 DEF PowerTypeOK, Submitted, Goto, Same, world
<1> QED
  BY <1>3, <1>4, <1>5, OnlyThisRun DEF Submitted, world

(* A poll is sent: its answer is yet to come.                              *)
LEMMA AskJobKeeps ==
  ASSUME PowerInv, NEW r \in Runs, AskJob(r)
  PROVE  PowerInv'
<1> USE DEF Runs
<1>1. PowerTypeOK /\ RunInv(r)
  BY DEF PowerInv, RunInv
<1>2. /\ UNCHANGED << jobs, asked >>
      /\ failed' = [failed EXCEPT ![r] = FALSE]
      /\ \/ pc' = [pc EXCEPT ![r] = "active"] /\ UNCHANGED answer
         \/ UNCHANGED pc /\ answer' = [answer EXCEPT ![r] = "unknown"]
  BY <1>1 DEF PowerTypeOK, AskJob, GetPrintJob, Go, Answer, NobodyIsTold
<1>3. PowerTypeOK'
  BY <1>1, <1>2
     DEF PowerTypeOK, CupsTypeOK, AskJob, Goto, Steps, AfterPost, world, NoJob,
         Statuses
<1>4. RunInv(r)'
  <2>1. pc'[r] # "idle" \/ answer'[r] # "completed"
    BY <1>1, <1>2 DEF PowerTypeOK
  <2> QED
    BY <1>1, <1>2, <2>1
       DEF PowerTypeOK, AskJob, Goto, RunInv, PostInv, PollInv, SwitchInv,
           BeforePost, AfterPost, Ordering, Exists, world
<1>5. \A p \in Runs \ {r} : Same(p)
  BY <1>1, <1>2 DEF PowerTypeOK, AskJob, Goto, Same, world
<1> QED
  BY <1>2, <1>3, <1>4, <1>5, OnlyThisRun DEF AskJob, world

-----------------------------------------------------------------------------
(* The service reads a listing for a poll: it answers "completed" when the *)
(* run's job is one of the completed ones it lists.                        *)
LEMMA ServeKeeps ==
  ASSUME PowerInv, NEW r \in Runs, Serve(r)
  PROVE  PowerInv'
<1> USE DEF Runs
<1>1. PowerTypeOK /\ RunInv(r) /\ FinishedInv
  BY DEF PowerInv, RunInv
<1>2. /\ UNCHANGED << jobs, asked, script, world >>
      /\ \E v \in BOOLEAN : failed' = [failed EXCEPT ![r] = v]
  <2>1. failed' = failed => failed' = [failed EXCEPT ![r] = failed[r]]
    BY <1>1 DEF PowerTypeOK
  <2> QED
    BY <1>1, <2>1
       DEF PowerTypeOK, Serve, ReadActive, ReadPrinter, ReadCompleted,
           LpstatRuns, LpstatFails
<1>3. \/ \E to \in {"printer", "completed"} :
           pc' = [pc EXCEPT ![r] = to] /\ UNCHANGED answer
      \/ \E word \in Statuses :
           /\ pc' = [pc EXCEPT ![r] = "idle"]
           /\ answer' = [answer EXCEPT ![r] = word]
           /\ word = "completed" =>
                /\ IsIn(asked[r], Completed)
                /\ TerminalStatus(Completed) = "completed"
  <2>1. CASE ReadActive(r)
    BY <2>1 DEF ReadActive, Go, NobodyIsTold
  <2>2. CASE ReadPrinter(r)
    BY <2>2 DEF ReadPrinter, Answer, Go, Statuses
  <2>3. CASE ReadCompleted(r)
    <3>1. TerminalStatus(Completed) \in Statuses
      BY DEF TerminalStatus, Statuses
    <3> QED
      BY <2>3, <3>1 DEF ReadCompleted, Answer, Go, Statuses
  <2> QED
    BY <2>1, <2>2, <2>3 DEF Serve
<1>4. ASSUME IsIn(asked[r], Completed), TerminalStatus(Completed) = "completed"
      PROVE  owned[r] \in finished
  <2>1. owned[r] \in Completed
    BY <1>1, <1>4 DEF IsIn, RunInv, PollInv, Serve
  <2>2. owned[r] \in JobNumbers /\ jobs[owned[r]].state \in TerminalStates
    BY <2>1 DEF Completed, Listed
  <2>3. jobs[owned[r]].state \notin {"canceled", "aborted"}
    BY <1>4, <2>1 DEF TerminalStatus
  <2> QED
    BY <1>1, <2>2, <2>3 DEF FinishedInv, TerminalStates
<1>5. PowerTypeOK'
  <2>1. /\ pc' \in [Runs -> {"idle", "active", "printer", "completed"}]
        /\ answer' \in [Runs -> Statuses \cup {"none"}]
        /\ failed' \in [Runs -> BOOLEAN]
    <3>1. pc' \in [Runs -> {"idle", "active", "printer", "completed"}]
      BY <1>1, <1>3 DEF PowerTypeOK
    <3>2. answer' \in [Runs -> Statuses \cup {"none"}]
      BY <1>1, <1>3 DEF PowerTypeOK
    <3>3. failed' \in [Runs -> BOOLEAN]
      BY <1>1, <1>2 DEF PowerTypeOK
    <3> QED
      BY <3>1, <3>2, <3>3
  <2> QED
    BY <1>1, <1>2, <2>1 DEF PowerTypeOK, CupsTypeOK, script, world, NoJob
<1>6. RunInv(r)'
  <2>1. PollInv(r)'
    BY <1>1, <1>2, <1>3, <1>4 DEF PowerTypeOK, RunInv, PollInv, script, world
  <2> QED
    BY <1>1, <1>2, <2>1
       DEF RunInv, PostInv, SwitchInv, Exists, script, world
<1>7. \A p \in Runs \ {r} : Same(p)
  BY <1>1, <1>2, <1>3 DEF PowerTypeOK, Same, script, world
<1> QED
  BY <1>2, <1>5, <1>6, <1>7, OnlyThisRun DEF world

-----------------------------------------------------------------------------
(* The service gives the document of a run to CUPS, the run being still    *)
(* there or not: the job is a new one.                                     *)
LEMMA AcceptedKeeps ==
  ASSUME PowerInv, NEW r \in Runs, NEW n \in JobNumbers, PrintAccepted(r, n)
  PROVE  /\ PowerInv'
         /\ n # 0 /\ \A p \in Runs : owned[p] # n
<1> USE DEF Runs
<1>1. PowerTypeOK /\ RunInv(r) /\ FinishedInv
  BY DEF PowerInv, RunInv
<1>2. /\ CupsTypeOK'
      /\ jobs[n].state = "free"
      /\ jobs'[n] = [state |-> "pending", dest |-> Printer, owner |-> Anybody]
      /\ \A m \in JobNumbers \ {n} : jobs'[m] = jobs[m]
  BY <1>1, CreateJobType, PowerWorkflowAssumption, JobStatusAssumption
     DEF PowerTypeOK, PrintAccepted, JobStates, ActiveStates
<1>3. \A m \in JobNumbers : Exists(m) => Exists(m)'
  BY <1>2 DEF Exists
<1>4. n # 0 /\ \A p \in Runs : owned[p] # n
  BY <1>2, CupsAssumption DEF PowerInv, PostInv, Exists
<1>5. PowerTypeOK'
  BY <1>1, <1>2 DEF PowerTypeOK, PrintAccepted, NobodyIsTold, NoJob
<1>6. RunInv(r)'
  <2>1. /\ owned[r] = 0 /\ warm[r]
        /\ step[r] \notin BeforePost \cup AfterPost
    BY <1>1 DEF PrintAccepted, RunInv, PostInv
  <2>2. command[r] # "off" /\ ~ cut[r]
    BY <1>1, <2>1, CupsAssumption DEF PowerTypeOK, RunInv, SwitchInv
  <2>3. owned'[r] = n /\ post'[r] = "taken" /\ jobs'[n].state # "free"
    BY <1>1, <1>2 DEF PowerTypeOK, PrintAccepted
  <2> QED
    BY <1>1, <1>4, <2>1, <2>2, <2>3
       DEF PrintAccepted, NobodyIsTold, RunInv, PostInv, PollInv, SwitchInv,
           BeforePost, AfterPost, Exists
<1>7. \A p \in Runs \ {r} : RunInv(p)'
  <2>1. \A p \in Runs \ {r} : Same(p)
    BY <1>1 DEF PowerTypeOK, PrintAccepted, NobodyIsTold, Same
  <2> QED
    BY <1>3, <2>1, UndisturbedRun DEF PrintAccepted
<1>8. FinishedInv'
  BY <1>1, <1>2 DEF FinishedInv, PrintAccepted
<1> QED
  BY <1>4, <1>5, <1>6, <1>7, <1>8 DEF PowerInv, RunInv

(* switch-api carries an order out.                                        *)
LEMMA SwitchKeeps ==
  ASSUME PowerInv, NEW r \in Runs, SwitchRuns(r)
  PROVE  PowerInv'
<1> USE DEF Runs
<1>1. PowerTypeOK /\ RunInv(r)
  BY DEF PowerInv, RunInv
<1>2. UNCHANGED << jobs, pc, asked, answer, failed >>
  BY DEF SwitchRuns, vars
<1>3. (cut[r] \/ command[r] = "off") \in BOOLEAN
  BY <1>1 DEF PowerTypeOK
<1>4. PowerTypeOK'
  BY <1>1, <1>2, <1>3 DEF PowerTypeOK, CupsTypeOK, SwitchRuns, NoJob
<1>5. RunInv(r)'
  BY <1>1, <1>2
     DEF PowerTypeOK, SwitchRuns, RunInv, PostInv, PollInv, SwitchInv,
         BeforePost, AfterPost, Ordering, Exists
<1>6. \A p \in Runs \ {r} : Same(p)
  BY <1>1, <1>2 DEF PowerTypeOK, SwitchRuns, Same
<1> QED
  BY <1>2, <1>4, <1>5, <1>6, OnlyThisRun DEF SwitchRuns

(* CUPS moves one job at a time.                                           *)
LEMMA OneJobMoves ==
  ASSUME CupsTypeOK, CupsWorks
  PROVE  \E n \in JobNumbers : \A m \in JobNumbers \ {n} : jobs'[m] = jobs[m]
<1>1. \/ \E n \in JobNumbers, d \in Dests : CreateJob(n, d, Anybody, "pending")
      \/ \E n \in JobNumbers, from \in SUBSET JobStates, to \in JobStates :
           Move(n, from, to)
  BY DEF CupsWorks, StartJob, FinishJob, RequeueJob, CancelJob, AbortJob,
         PurgeJob, JobStates, ActiveStates, TerminalStates
<1> QED
  BY <1>1 DEF CupsTypeOK, CreateJob, Move

(* CUPS goes on: a job that it completes is recorded, and nothing else     *)
(* that a run has to know of changes.                                      *)
LEMMA CupsGoesOnKeeps ==
  ASSUME PowerInv, CupsGoesOn
  PROVE  /\ PowerInv'
         /\ \E n \in JobNumbers : finished' = finished \/ finished' = finished \cup {n}
<1> USE DEF Runs
<1>1. PowerTypeOK /\ FinishedInv /\ CupsWorks
  BY DEF PowerInv, CupsGoesOn
<1>2. CupsTypeOK' /\ Forward
  BY <1>1, CupsForward DEF PowerTypeOK
<1>3. PICK n \in JobNumbers : \A m \in JobNumbers \ {n} : jobs'[m] = jobs[m]
  BY <1>1, OneJobMoves DEF PowerTypeOK
<1>4. finished' = finished \/ finished' = finished \cup {n}
  BY <1>1, <1>3 DEF FinishedInv, CupsGoesOn
<1>5. UNCHANGED << pc, asked, answer, failed, script, power, owned, cut, warm >>
  BY <1>1 DEF CupsWorks, CupsGoesOn, NobodyIsTold
<1>6. PowerTypeOK'
  BY <1>1, <1>2, <1>4, <1>5 DEF PowerTypeOK, script, NoJob
<1>7. FinishedInv'
  BY DEF CupsGoesOn, FinishedInv
<1>8. \A p \in Runs : RunInv(p)'
  <2>1. \A p \in Runs : Same(p)
    BY <1>5 DEF Same, script
  <2>2. \A m \in JobNumbers : Exists(m) => Exists(m)'
    BY <1>2 DEF Forward, Exists
  <2> QED
    BY <1>4, <2>1, <2>2, UndisturbedRun
<1> QED
  BY <1>4, <1>6, <1>7, <1>8 DEF PowerInv, RunInv

(* Every step keeps the invariant.                                         *)
LEMMA PowerInvStep == PowerInv /\ [PowerNext]_powerVars => PowerInv'
<1> SUFFICES ASSUME PowerInv, [PowerNext]_powerVars PROVE PowerInv'
  OBVIOUS
<1>1. CASE CupsGoesOn
  BY <1>1, CupsGoesOnKeeps
<1>2. ASSUME NEW r \in Runs, ScriptStep(r) PROVE PowerInv'
  BY <1>2, ScriptKeeps, SubmittedKeeps, AskJobKeeps
<1>3. ASSUME NEW r \in Runs, SwitchRuns(r) PROVE PowerInv'
  BY <1>3, SwitchKeeps
<1>4. ASSUME NEW r \in Runs, Serve(r) PROVE PowerInv'
  BY <1>4, ServeKeeps
<1>5. ASSUME NEW r \in Runs, NEW n \in JobNumbers, PrintAccepted(r, n)
      PROVE  PowerInv'
  BY <1>5, AcceptedKeeps
<1>6. CASE UNCHANGED powerVars
  BY <1>6
     DEF powerVars, vars, script, world, PowerInv, PowerTypeOK, CupsTypeOK,
         FinishedInv, PostInv, PollInv, SwitchInv, Exists, NoJob
<1> QED
  BY <1>1, <1>2, <1>3, <1>4, <1>5, <1>6 DEF PowerNext

-----------------------------------------------------------------------------
(* Each step of the script is a step of the policy, or none that it sees.  *)
LEMMA PolicyStep ==
  PowerInv /\ [PowerNext]_powerVars => [Policy!Next]_(Policy!vars)
<1> SUFFICES ASSUME PowerInv, [PowerNext]_powerVars
             PROVE  Policy!Next \/ UNCHANGED Policy!vars
  OBVIOUS
<1> USE DEF Policy!vars
<1>1. ASSUME NEW r \in Runs, ScriptStep(r)
      PROVE  Policy!Next \/ UNCHANGED Policy!vars
  <2>1. UNCHANGED << power, owned, finished, cut >>
    BY <1>1
       DEF ScriptStep, SwitchOn, SwitchedOn, AskPrinter, PrinterDeadline,
           Submit, Submitted, AskJob, JobCompleted, JobGoesOn, JobFailed,
           JobDeadline, SwitchedOff, CurlFails, world
  <2>2. SwitchInv(r)
    BY DEF PowerInv
  <2>3. CASE SwitchedOff(r)
    <3>1. Policy!End(r, "done")
      BY <2>1, <2>2, <2>3 DEF SwitchedOff, End, Goto, SwitchInv, Policy!End
    <3> QED
      BY <3>1 DEF Policy!Next
  <2>4. CASE PrinterDeadline(r) \/ JobFailed(r) \/ JobDeadline(r) \/ CurlFails(r)
    <3>1. Policy!End(r, "gave_up")
      BY <2>1, <2>2, <2>4
         DEF PrinterDeadline, JobFailed, JobDeadline, CurlFails, End, Goto,
             SwitchInv, Policy!End
    <3> QED
      BY <3>1 DEF Policy!Next
  <2>5. CASE UNCHANGED exit
    BY <2>1, <2>5
  <2> QED
    BY <1>1, <2>3, <2>4, <2>5
       DEF ScriptStep, SwitchOn, SwitchedOn, AskPrinter, Submit, Submitted,
           AskJob, JobCompleted, JobGoesOn
<1>2. ASSUME NEW r \in Runs, SwitchRuns(r)
      PROVE  Policy!Next \/ UNCHANGED Policy!vars
  <2>1. SwitchInv(r) /\ PowerTypeOK
    BY DEF PowerInv
  <2>2. CASE command[r] = "on"
    <3>1. cut' = cut
      BY <1>2, <2>1, <2>2 DEF SwitchRuns, PowerTypeOK
    <3>2. Policy!TurnOn
      BY <1>2, <2>2, <3>1 DEF SwitchRuns, Policy!TurnOn
    <3> QED
      BY <3>2 DEF Policy!Next
  <2>3. CASE command[r] = "off"
    <3>1. cut' = [cut EXCEPT ![r] = TRUE]
      BY <1>2, <2>1, <2>3 DEF SwitchRuns, PowerTypeOK
    <3>2. Policy!TurnOff(r)
      BY <1>2, <2>1, <2>3, <3>1 DEF SwitchRuns, SwitchInv, Policy!TurnOff
    <3> QED
      BY <3>2 DEF Policy!Next
  <2> QED
    BY <1>2, <2>2, <2>3 DEF SwitchRuns
<1>3. ASSUME NEW r \in Runs, NEW n \in JobNumbers, PrintAccepted(r, n)
      PROVE  Policy!Next
  <2>1. PostInv(r) /\ SwitchInv(r) /\ PowerTypeOK
    BY DEF PowerInv
  <2>2. owned[r] = 0 /\ exit[r] # "done"
    BY <1>3, <2>1, CupsAssumption
       DEF PrintAccepted, PostInv, SwitchInv, PowerTypeOK
  <2>3. \A p \in Runs : owned[p] # n
    BY <1>3, AcceptedKeeps
  <2>4. Policy!TakeJob(r, n)
    BY <1>3, <2>2, <2>3 DEF PrintAccepted, Policy!TakeJob
  <2> QED
    BY <2>4 DEF Policy!Next
<1>4. CASE CupsGoesOn
  <2>1. PICK n \in JobNumbers : finished' = finished \/ finished' = finished \cup {n}
    BY <1>4, CupsGoesOnKeeps
  <2>2. UNCHANGED << power, owned, cut, exit >>
    BY <1>4 DEF CupsGoesOn, script
  <2>3. finished' = finished \/ Policy!Complete(n)
    BY <2>1, <2>2 DEF Policy!Complete
  <2> QED
    BY <2>2, <2>3 DEF Policy!Next
<1>5. ASSUME NEW r \in Runs, Serve(r) PROVE UNCHANGED Policy!vars
  BY <1>5 DEF Serve, script, world
<1>6. CASE UNCHANGED powerVars
  BY <1>6 DEF powerVars, script, world
<1> QED
  BY <1>1, <1>2, <1>3, <1>4, <1>5, <1>6 DEF PowerNext

-----------------------------------------------------------------------------
(* The inductive invariant: what each run has in flight, and what it knows *)
(* of the job it owns.                                                     *)
THEOREM PowerInvariance == PowerSpec => []PowerInv
<1> QED
  BY PowerInvInit, PowerInvStep, PTL DEF PowerSpec

(* The script keeps the policy written at its head: however late, lost or  *)
(* wrong an answer is, and whatever the other runs do, the power is cut    *)
(* for a run only after CUPS has completed that run's own job.             *)
THEOREM PolicyImplemented == PowerSpec => ImplementsPowerPolicy
<1>1. PowerInit => Policy!Init
  BY DEF PowerInit, Policy!Init
<1> QED
  BY PowerInvariance, PolicyStep, <1>1, PTL
     DEF PowerSpec, ImplementsPowerPolicy, Policy!Spec

(* No document is given to CUPS for a run that has not found the printer   *)
(* ready.                                                                  *)
THEOREM PrintsWhenReady == PowerSpec => []PrintsOnReadyPrinter
<1>1. PowerInv => PrintsOnReadyPrinter
  BY DEF PowerInv, PostInv, PrintsOnReadyPrinter
<1> QED
  BY PowerInvariance, <1>1, PTL

(* Exit 0 means that the run's own job was printed to its end, and that    *)
(* the power was cut after that.                                           *)
THEOREM SuccessIsPrinted ==
  PowerSpec => [](\A r \in Runs : exit[r] = "done" => cut[r] /\ owned[r] \in finished)
<1>1. PowerInv => \A r \in Runs : exit[r] = "done" => cut[r] /\ owned[r] \in finished
  BY DEF PowerInv, SwitchInv
<1> QED
  BY PowerInvariance, <1>1, PTL

=============================================================================
