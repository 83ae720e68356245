------------------------ MODULE PrintDocumentProofs -------------------------
(***************************************************************************)
(* Safety of PrintDocument for any number of requests, documents, names,   *)
(* destinations and jobs, any limit, and with or without each fault.       *)
(*                                                                         *)
(* IInv has one part about the control of the handlers, one about the      *)
(* temporary files and one about the jobs.  Each part is preserved by      *)
(* every step given the parts before it; each lemma below is one part.     *)
(***************************************************************************)
EXTENDS PrintDocument, FiniteSetTheorems, TLAPS

(* CUPS keeps well-formed jobs when one is created.                        *)
LEMMA CreateJobType ==
  ASSUME CupsTypeOK, NEW n \in JobNumbers, NEW d \in Dests, NEW o \in Owners,
         NEW s \in JobStates \ {"free"}, CreateJob(n, d, o, s)
  PROVE  /\ CupsTypeOK'
         /\ jobs[n].state = "free"
         /\ jobs'[n] = [state |-> s, dest |-> d, owner |-> o]
         /\ \A m \in JobNumbers \ {n} : jobs'[m] = jobs[m]
BY DEF CupsTypeOK, CreateJob, JobRecords, IsNext, Exists

(* CUPS keeps well-formed jobs when one changes its state.                 *)
LEMMA MoveType ==
  ASSUME CupsTypeOK, NEW n \in JobNumbers,
         NEW from \in SUBSET (JobStates \ {"free"}),
         NEW to \in JobStates \ {"free"}, Move(n, from, to)
  PROVE  /\ CupsTypeOK'
         /\ jobs[n] \in [state : JobStates \ {"free"}, dest : Dests, owner : Owners]
         /\ jobs'[n].state = to
         /\ jobs'[n].owner = jobs[n].owner
         /\ jobs'[n].dest = jobs[n].dest
         /\ \A m \in JobNumbers \ {n} : jobs'[m] = jobs[m]
<1>1. jobs[n] \in [state : JobStates \ {"free"}, dest : Dests, owner : Owners]
  BY DEF CupsTypeOK, Move, JobRecords, NoJobYet
<1>2. jobs' = [jobs EXCEPT ![n] = [jobs[n] EXCEPT !.state = to]]
  BY DEF Move
<1>3. [jobs[n] EXCEPT !.state = to]
        \in [state : JobStates \ {"free"}, dest : Dests, owner : Owners]
  BY <1>1
<1>4. CupsTypeOK'
  BY <1>2, <1>3 DEF CupsTypeOK, JobRecords
<1> QED
  BY <1>1, <1>2, <1>4 DEF CupsTypeOK

-----------------------------------------------------------------------------
LEMMA TypeInit == Init => TypeOK
BY PrintDocumentAssumption
   DEF Init, TypeOK, NotYet, Answers, CupsInit, CupsTypeOK, JobRecords

(* Types are kept; only a job that exists is ever moved.                   *)
LEMMA TypeStep == IInv /\ [Next]_vars => TypeOK'
<1> SUFFICES ASSUME IInv, [Next]_vars PROVE TypeOK'
  OBVIOUS
<1> USE PrintDocumentAssumption DEF IInv
<1>1. ASSUME NEW h \in Handlers, Receive(h) PROVE TypeOK'
  BY <1>1 DEF TypeOK, Receive, Go, Answer, lpVars, CupsTypeOK, Answers
<1>2. ASSUME NEW h \in Handlers, CheckRequest(h) PROVE TypeOK'
  BY <1>2
     DEF TypeOK, CheckRequest, Go, Answer, lpVars, CupsTypeOK, Answers,
         Codes400
<1>3. ASSUME NEW h \in Handlers, CreateTemp(h) PROVE TypeOK'
  BY <1>3 DEF TypeOK, CreateTemp, Go, Answer, lpVars, CupsTypeOK, Answers
<1>4. ASSUME NEW h \in Handlers, CopyPrintFile(h) PROVE TypeOK'
  BY <1>4
     DEF TypeOK, CopyPrintFile, Go, lpVars, CupsTypeOK, CopyOutcome, Outcomes
<1>5. ASSUME NEW h \in Handlers, CloseTemp(h) PROVE TypeOK'
  BY <1>5
     DEF TypeOK, ControlInv, CloseTemp, Go, Answer, Remove, lpVars,
         CupsTypeOK,
           Answers, Codes400, Outcomes
<1>6. ASSUME NEW h \in Handlers, StartLp(h) PROVE TypeOK'
  BY <1>6 DEF TypeOK, StartLp, Go, CupsTypeOK
<1>7. ASSUME NEW h \in Handlers, FinishPrint(h) PROVE TypeOK'
  BY <1>7
     DEF TypeOK, FinishPrint, Go, Answer, Remove, lpVars, CupsTypeOK, Answers
<1>8. ASSUME NEW h \in Handlers, Respond(h) PROVE TypeOK'
  BY <1>8 DEF TypeOK, Respond, Go, lpVars, CupsTypeOK, Answers
<1>9. ASSUME NEW h \in Handlers, LpCreateJob(h) PROVE TypeOK'
  <2>1. PICK n \in JobNumbers : /\ CreateJob(n, doc[h].dest, h, "incoming")
                                /\ jobOf' = [jobOf EXCEPT ![h] = n]
    BY <1>9 DEF LpCreateJob
  <2>2. doc[h].dest \in Dests
    BY <1>9 DEF ControlInv, LpCreateJob, LpAlive, Working
  <2>3. CupsTypeOK'
    BY <2>1, <2>2, CreateJobType DEF TypeOK, JobStates, ActiveStates
  <2> QED
    BY <1>9, <2>1, <2>3 DEF TypeOK, LpCreateJob, handlerVars
<1>10. ASSUME NEW h \in Handlers, LpSendDocument(h) PROVE TypeOK'
  <2>1. jobOf[h] \in JobNumbers
    BY <1>10 DEF TypeOK, JobInv, LpSendDocument
  <2>2. path[h] \in Paths
    BY <1>10 DEF ControlInv, LpSendDocument, LpAlive, Working
  <2>3. CupsTypeOK'
    BY <1>10, <2>1, MoveType DEF TypeOK, LpSendDocument, JobStates, ActiveStates
  <2> QED
    BY <1>10, <2>1, <2>2, <2>3 DEF TypeOK, LpSendDocument, handlerVars
<1>11. ASSUME NEW h \in Handlers, LpExit(h) PROVE TypeOK'
  BY <1>11 DEF TypeOK, LpExit, LpFails, handlerVars, CupsTypeOK
<1>12. ASSUME NEW h \in Handlers, LpFail(h) PROVE TypeOK'
  BY <1>12 DEF TypeOK, LpFail, LpFails, handlerVars, CupsTypeOK
<1>13. ASSUME NEW h \in Handlers, KillLp(h) PROVE TypeOK'
  BY <1>13 DEF TypeOK, KillLp, LpFails, handlerVars, CupsTypeOK
<1>14. ASSUME NEW h \in Handlers, Disconnect(h) PROVE TypeOK'
  BY <1>14 DEF TypeOK, Disconnect, handlerVars, lpVars, CupsTypeOK
<1>15. ASSUME Crash PROVE TypeOK'
  BY <1>15 DEF TypeOK, Crash, CupsTypeOK, Answers
<1>16. ASSUME NEW d \in Dests, ForeignJob(d) PROVE TypeOK'
  <2>1. CupsTypeOK'
    BY <1>16, CreateJobType DEF TypeOK, ForeignJob, JobStates, ActiveStates
  <2> QED
    BY <1>16, <2>1 DEF TypeOK, ForeignJob, handlerVars, lpVars
<1>17. ASSUME NEW n \in JobNumbers, EndIncomingJob(n) PROVE TypeOK'
  <2>1. CupsTypeOK'
    BY <1>17, MoveType
      
         DEF TypeOK, EndIncomingJob, CancelJob, AbortJob, JobStates,
             ActiveStates, TerminalStates
  <2> QED
    BY <1>17, <2>1 DEF TypeOK, EndIncomingJob, handlerVars, lpVars
<1>18. CASE UNCHANGED vars
  BY <1>18 DEF vars, handlerVars, lpVars, TypeOK, CupsTypeOK
<1> QED
  BY <1>1, <1>2, <1>3, <1>4, <1>5, <1>6, <1>7, <1>8, <1>9, <1>10, <1>11, <1>12,
     <1>13, <1>14, <1>15, <1>16, <1>17, <1>18 DEF Next, Handler, Lp

(* What is known of a handler at each of its steps.                        *)
LEMMA ControlStep == IInv /\ [Next]_vars => ControlInv'
<1> SUFFICES ASSUME IInv, [Next]_vars PROVE ControlInv'
  OBVIOUS
<1> USE PrintDocumentAssumption DEF IInv
<1>1. ASSUME NEW h \in Handlers, Receive(h) PROVE ControlInv'
  BY <1>1
     DEF TypeOK, ControlInv, Working, LpAlive, Refused, Codes400, Receive, Go,
         Answer, lpVars
<1>2. ASSUME NEW h \in Handlers, CheckRequest(h) PROVE ControlInv'
  BY <1>2
     DEF TypeOK, ControlInv, Working, LpAlive, Refused, Codes400,
         CheckRequest, Go, Answer, lpVars
<1>3. ASSUME NEW h \in Handlers, CreateTemp(h) PROVE ControlInv'
  BY <1>3
     DEF TypeOK, ControlInv, Working, LpAlive, Refused, Codes400, CreateTemp,
         Go, Answer, lpVars
<1>4. ASSUME NEW h \in Handlers, CopyPrintFile(h) PROVE ControlInv'
  BY <1>4
     DEF TypeOK, ControlInv, Working, LpAlive, Refused, Codes400,
         CopyPrintFile, Go, lpVars,
           CopyOutcome, Outcomes
<1>5. ASSUME NEW h \in Handlers, CloseTemp(h) PROVE ControlInv'
  BY <1>5
     DEF TypeOK, ControlInv, Working, LpAlive, Refused, Codes400, CloseTemp,
         Go, Answer, Outcomes, lpVars
<1>6. ASSUME NEW h \in Handlers, StartLp(h) PROVE ControlInv'
  BY <1>6
     DEF TypeOK, ControlInv, Working, LpAlive, Refused, Codes400, StartLp, Go
<1>7. ASSUME NEW h \in Handlers, FinishPrint(h) PROVE ControlInv'
  BY <1>7
     DEF TypeOK, ControlInv, Working, LpAlive, Refused, Codes400, FinishPrint,
         Go, Answer, lpVars
<1>8. ASSUME NEW h \in Handlers, Respond(h) PROVE ControlInv'
  BY <1>8
     DEF TypeOK, ControlInv, Working, LpAlive, Refused, Codes400, Respond, Go,
         lpVars
<1>9. ASSUME NEW h \in Handlers, LpCreateJob(h) PROVE ControlInv'
  BY <1>9
     DEF TypeOK, ControlInv, Working, LpAlive, Refused, Codes400, LpCreateJob,
         handlerVars
<1>10. ASSUME NEW h \in Handlers, LpSendDocument(h) PROVE ControlInv'
  BY <1>10
     DEF TypeOK, ControlInv, Working, LpAlive, Refused, Codes400,
         LpSendDocument, handlerVars
<1>11. ASSUME NEW h \in Handlers, LpExit(h) PROVE ControlInv'
  BY <1>11
     DEF TypeOK, ControlInv, Working, LpAlive, Refused, Codes400, LpExit,
         handlerVars
<1>12. ASSUME NEW h \in Handlers, LpFail(h) PROVE ControlInv'
  BY <1>12
     DEF TypeOK, ControlInv, Working, LpAlive, Refused, Codes400, LpFail,
         LpFails, handlerVars
<1>13. ASSUME NEW h \in Handlers, KillLp(h) PROVE ControlInv'
  BY <1>13
     DEF TypeOK, ControlInv, Working, LpAlive, Refused, Codes400, KillLp,
         LpFails, handlerVars
<1>14. ASSUME NEW h \in Handlers, Disconnect(h) PROVE ControlInv'
  BY <1>14
     DEF TypeOK, ControlInv, Working, LpAlive, Refused, Codes400, Disconnect,
         handlerVars, lpVars
<1>15. ASSUME Crash PROVE ControlInv'
  BY <1>15
     DEF TypeOK, ControlInv, Working, LpAlive, Refused, Codes400, Crash,
         InFlight
<1>16. ASSUME NEW d \in Dests, ForeignJob(d) PROVE ControlInv'
  BY <1>16
     DEF TypeOK, ControlInv, Working, LpAlive, Refused, Codes400, ForeignJob,
         handlerVars, lpVars
<1>17. ASSUME NEW n \in JobNumbers, EndIncomingJob(n) PROVE ControlInv'
  BY <1>17
     DEF TypeOK, ControlInv, Working, LpAlive, Refused, Codes400,
         EndIncomingJob, handlerVars, lpVars
<1>18. CASE UNCHANGED vars
  BY <1>18
     DEF vars, handlerVars, lpVars, TypeOK, ControlInv, Working, LpAlive,
         Refused, Codes400
<1> QED
  BY <1>1, <1>2, <1>3, <1>4, <1>5, <1>6, <1>7, <1>8, <1>9, <1>10, <1>11, <1>12,
     <1>13, <1>14, <1>15, <1>16, <1>17, <1>18 DEF Next, Handler, Lp

(* Files: only their handler creates or removes them.                      *)
LEMMA FileStep == IInv /\ [Next]_vars => FileInv'
<1> SUFFICES ASSUME IInv, [Next]_vars PROVE FileInv'
  OBVIOUS
<1> USE PrintDocumentAssumption DEF IInv
<1>1. ASSUME NEW h \in Handlers, Receive(h) PROVE FileInv'
  BY <1>1 DEF TypeOK, ControlInv, FileInv, TempFileIsOwn,
           PrintedFilesRemoved, Working, Receive, Go, Answer, lpVars
<1>2. ASSUME NEW h \in Handlers, CheckRequest(h) PROVE FileInv'
  BY <1>2 DEF TypeOK, ControlInv, FileInv, TempFileIsOwn,
           PrintedFilesRemoved, Working, CheckRequest, Go, Answer, lpVars
<1>3. ASSUME NEW h \in Handlers, CreateTemp(h) PROVE FileInv'
  BY <1>3 DEF TypeOK, ControlInv, FileInv, TempFileIsOwn,
           PrintedFilesRemoved, Working, CreateTemp, Go, Answer, lpVars
<1>4. ASSUME NEW h \in Handlers, CopyPrintFile(h) PROVE FileInv'
  BY <1>4 DEF TypeOK, ControlInv, FileInv, TempFileIsOwn,
           PrintedFilesRemoved, Working, CopyPrintFile, Go, lpVars,
           CopyOutcome, Outcomes
<1>5. ASSUME NEW h \in Handlers, CloseTemp(h) PROVE FileInv'
  BY <1>5 DEF TypeOK, ControlInv, FileInv, TempFileIsOwn,
           PrintedFilesRemoved, Working, CloseTemp, Go, Answer, Outcomes, lpVars, Remove
<1>6. ASSUME NEW h \in Handlers, StartLp(h) PROVE FileInv'
  BY <1>6 DEF TypeOK, ControlInv, FileInv, TempFileIsOwn,
           PrintedFilesRemoved, Working, StartLp, Go
<1>7. ASSUME NEW h \in Handlers, FinishPrint(h) PROVE FileInv'
  BY <1>7 DEF TypeOK, ControlInv, FileInv, TempFileIsOwn,
           PrintedFilesRemoved, Working, FinishPrint, Go, Answer, lpVars, Remove
<1>8. ASSUME NEW h \in Handlers, Respond(h) PROVE FileInv'
  BY <1>8 DEF TypeOK, ControlInv, FileInv, TempFileIsOwn,
           PrintedFilesRemoved, Working, Respond, Go, lpVars
<1>9. ASSUME NEW h \in Handlers, LpCreateJob(h) PROVE FileInv'
  BY <1>9 DEF TypeOK, ControlInv, FileInv, TempFileIsOwn,
           PrintedFilesRemoved, Working, LpCreateJob, handlerVars
<1>10. ASSUME NEW h \in Handlers, LpSendDocument(h) PROVE FileInv'
  BY <1>10 DEF TypeOK, ControlInv, FileInv, TempFileIsOwn,
           PrintedFilesRemoved, Working, LpSendDocument, handlerVars
<1>11. ASSUME NEW h \in Handlers, LpExit(h) PROVE FileInv'
  BY <1>11 DEF TypeOK, ControlInv, FileInv, TempFileIsOwn,
           PrintedFilesRemoved, Working, LpExit, handlerVars
<1>12. ASSUME NEW h \in Handlers, LpFail(h) PROVE FileInv'
  BY <1>12 DEF TypeOK, ControlInv, FileInv, TempFileIsOwn,
           PrintedFilesRemoved, Working, LpFail, LpFails, handlerVars
<1>13. ASSUME NEW h \in Handlers, KillLp(h) PROVE FileInv'
  BY <1>13 DEF TypeOK, ControlInv, FileInv, TempFileIsOwn,
           PrintedFilesRemoved, Working, KillLp, LpFails, handlerVars
<1>14. ASSUME NEW h \in Handlers, Disconnect(h) PROVE FileInv'
  BY <1>14 DEF TypeOK, ControlInv, FileInv, TempFileIsOwn,
           PrintedFilesRemoved, Working, Disconnect, handlerVars, lpVars
<1>15. ASSUME Crash PROVE FileInv'
  BY <1>15 DEF TypeOK, ControlInv, FileInv, TempFileIsOwn,
           PrintedFilesRemoved, Working, Crash, InFlight
<1>16. ASSUME NEW d \in Dests, ForeignJob(d) PROVE FileInv'
  BY <1>16 DEF TypeOK, ControlInv, FileInv, TempFileIsOwn,
           PrintedFilesRemoved, Working, ForeignJob, handlerVars, lpVars
<1>17. ASSUME NEW n \in JobNumbers, EndIncomingJob(n) PROVE FileInv'
  BY <1>17 DEF TypeOK, ControlInv, FileInv, TempFileIsOwn,
           PrintedFilesRemoved, Working, EndIncomingJob, handlerVars, lpVars
<1>18. CASE UNCHANGED vars
  BY <1>18
     DEF vars, handlerVars, lpVars, TypeOK, ControlInv, FileInv,
         TempFileIsOwn,
           PrintedFilesRemoved, Working
<1> QED
  BY <1>1, <1>2, <1>3, <1>4, <1>5, <1>6, <1>7, <1>8, <1>9, <1>10, <1>11, <1>12,
     <1>13, <1>14, <1>15, <1>16, <1>17, <1>18 DEF Next, Handler, Lp

(* Jobs: only the lp process of a handler creates jobs in its name.        *)
LEMMA JobStep == IInv /\ [Next]_vars => JobInv'
<1> SUFFICES ASSUME IInv, [Next]_vars PROVE JobInv'
  OBVIOUS
<1> USE PrintDocumentAssumption DEF IInv
<1>1. ASSUME NEW h \in Handlers, Receive(h) PROVE JobInv'
  BY <1>1 DEF TypeOK, ControlInv, JobInv, Exists, Working, LpAlive,
           Receive, Go, Answer, lpVars
<1>2. ASSUME NEW h \in Handlers, CheckRequest(h) PROVE JobInv'
  BY <1>2 DEF TypeOK, ControlInv, JobInv, Exists, Working, LpAlive,
           CheckRequest, Go, Answer, lpVars
<1>3. ASSUME NEW h \in Handlers, CreateTemp(h) PROVE JobInv'
  BY <1>3 DEF TypeOK, ControlInv, JobInv, Exists, Working, LpAlive,
           CreateTemp, Go, Answer, lpVars
<1>4. ASSUME NEW h \in Handlers, CopyPrintFile(h) PROVE JobInv'
  BY <1>4 DEF TypeOK, ControlInv, JobInv, Exists, Working, LpAlive,
           CopyPrintFile, Go, lpVars,
           CopyOutcome, Outcomes
<1>5. ASSUME NEW h \in Handlers, CloseTemp(h) PROVE JobInv'
  BY <1>5 DEF TypeOK, ControlInv, JobInv, Exists, Working, LpAlive,
           CloseTemp, Go, Answer, Outcomes, lpVars
<1>6. ASSUME NEW h \in Handlers, StartLp(h) PROVE JobInv'
  BY <1>6 DEF TypeOK, ControlInv, JobInv, Exists, Working, LpAlive,
           StartLp, Go
<1>7. ASSUME NEW h \in Handlers, FinishPrint(h) PROVE JobInv'
  BY <1>7 DEF TypeOK, ControlInv, JobInv, Exists, Working, LpAlive,
           FinishPrint, Go, Answer, lpVars
<1>8. ASSUME NEW h \in Handlers, Respond(h) PROVE JobInv'
  BY <1>8 DEF TypeOK, ControlInv, JobInv, Exists, Working, LpAlive,
           Respond, Go, lpVars
<1>9. ASSUME NEW h \in Handlers, LpCreateJob(h) PROVE JobInv'
  <2>1. PICK n \in JobNumbers : /\ CreateJob(n, doc[h].dest, h, "incoming")
                                /\ jobOf' = [jobOf EXCEPT ![h] = n]
    BY <1>9 DEF LpCreateJob
  <2>2. doc[h].dest \in Dests
    BY <1>9 DEF ControlInv, LpCreateJob, LpAlive, Working
  <2>3. /\ ~ Exists(n)
        /\ jobs'[n] = [state |-> "incoming", dest |-> doc[h].dest, owner |-> h]
        /\ \A m \in JobNumbers \ {n} : jobs'[m] = jobs[m]
    BY <2>1, <2>2, CreateJobType DEF TypeOK, JobStates, ActiveStates, Exists
  <2>4. /\ jobOf[h] = None /\ lp' = [lp EXCEPT ![h] = "created"]
        /\ UNCHANGED << doc, spooled >>
    BY <1>9 DEF LpCreateJob, JobInv, handlerVars
  <2> QED
    BY <2>1, <2>3, <2>4, SMTT(30) DEF TypeOK, JobInv, Exists
<1>10. ASSUME NEW h \in Handlers, LpSendDocument(h) PROVE JobInv'
  <2> DEFINE n == jobOf[h]
  <2>1. n \in JobNumbers /\ jobs[n].owner = h
    BY <1>10 DEF TypeOK, JobInv, LpSendDocument
  <2>2. files[path[h]] = h
    BY <1>10
       DEF ControlInv, FileInv, TempFileIsOwn, LpSendDocument, LpAlive,
           Working
  <2>3. /\ jobs'[n].state = "pending" /\ jobs'[n].owner = jobs[n].owner
        /\ jobs'[n].dest = jobs[n].dest
        /\ \A m \in JobNumbers \ {n} : jobs'[m] = jobs[m]
    <3>1. Move(n, {"incoming"}, "pending")
      BY <1>10 DEF LpSendDocument
    <3>2. /\ CupsTypeOK
          /\ {"incoming"} \in SUBSET (JobStates \ {"free"})
          /\ "pending" \in JobStates \ {"free"}
      BY DEF TypeOK, JobStates, ActiveStates
    <3> HIDE DEF n
    <3> QED
      BY <2>1, <3>1, <3>2, MoveType
  <2>4. Exists(n)
    BY <2>1 DEF JobInv
  <2> QED
    BY <1>10, <2>1, <2>2, <2>3, <2>4
       DEF TypeOK, JobInv, Exists, LpSendDocument, handlerVars
<1>11. ASSUME NEW h \in Handlers, LpExit(h) PROVE JobInv'
  BY <1>11 DEF TypeOK, ControlInv, JobInv, Exists, Working, LpAlive,
           LpExit, handlerVars
<1>12. ASSUME NEW h \in Handlers, LpFail(h) PROVE JobInv'
  BY <1>12 DEF TypeOK, ControlInv, JobInv, Exists, Working, LpAlive,
           LpFail, LpFails, handlerVars
<1>13. ASSUME NEW h \in Handlers, KillLp(h) PROVE JobInv'
  BY <1>13 DEF TypeOK, ControlInv, JobInv, Exists, Working, LpAlive,
           KillLp, LpFails, handlerVars
<1>14. ASSUME NEW h \in Handlers, Disconnect(h) PROVE JobInv'
  BY <1>14 DEF TypeOK, ControlInv, JobInv, Exists, Working, LpAlive,
           Disconnect, handlerVars, lpVars
<1>15. ASSUME Crash PROVE JobInv'
  BY <1>15 DEF TypeOK, ControlInv, JobInv, Exists, Working, LpAlive,
           Crash, InFlight
<1>16. ASSUME NEW d \in Dests, ForeignJob(d) PROVE JobInv'
  <2>1. PICK n \in JobNumbers : CreateJob(n, d, Foreign, "pending")
    BY <1>16 DEF ForeignJob
  <2>2. /\ ~ Exists(n)
        /\ jobs'[n] = [state |-> "pending", dest |-> d, owner |-> Foreign]
        /\ \A m \in JobNumbers \ {n} : jobs'[m] = jobs[m]
    BY <2>1, CreateJobType DEF TypeOK, JobStates, ActiveStates, Exists
  <2> QED
    BY <1>16, <2>2 DEF TypeOK, JobInv, Exists, ForeignJob, handlerVars, lpVars
<1>17. ASSUME NEW n \in JobNumbers, EndIncomingJob(n) PROVE JobInv'
  <2>1. /\ jobs'[n].state \in {"canceled", "aborted"}
        /\ jobs'[n].owner = jobs[n].owner /\ jobs'[n].dest = jobs[n].dest
        /\ \A m \in JobNumbers \ {n} : jobs'[m] = jobs[m]
    <3>1. CupsTypeOK
      BY DEF TypeOK
    <3>2. CASE CancelJob(n)
      <4>1. /\ ActiveStates \in SUBSET (JobStates \ {"free"})
            /\ "canceled" \in JobStates \ {"free"}
        BY DEF JobStates, ActiveStates, TerminalStates
      <4> QED
        BY <3>1, <3>2, <4>1, MoveType DEF CancelJob
    <3>3. CASE AbortJob(n)
      <4>1. /\ {"incoming", "processing"} \in SUBSET (JobStates \ {"free"})
            /\ "aborted" \in JobStates \ {"free"}
        BY DEF JobStates, ActiveStates, TerminalStates
      <4> QED
        BY <3>1, <3>3, <4>1, MoveType DEF AbortJob
    <3> QED
      BY <1>17, <3>2, <3>3 DEF EndIncomingJob
  <2>2. Exists(n)
    BY <1>17 DEF EndIncomingJob, Exists
  <2> QED
    BY <1>17, <2>1, <2>2, SMTT(30)
       DEF TypeOK, JobInv, Exists, EndIncomingJob, handlerVars, lpVars
<1>18. CASE UNCHANGED vars
  BY <1>18
     DEF vars, handlerVars, lpVars, TypeOK, ControlInv, JobInv, Exists,
         Working, LpAlive
<1> QED
  BY <1>1, <1>2, <1>3, <1>4, <1>5, <1>6, <1>7, <1>8, <1>9, <1>10, <1>11, <1>12,
     <1>13, <1>14, <1>15, <1>16, <1>17, <1>18 DEF Next, Handler, Lp

-----------------------------------------------------------------------------
LEMMA InvInit == Init => IInv
<1> SUFFICES ASSUME Init PROVE IInv
  OBVIOUS
<1> USE PrintDocumentAssumption DEF Init, NotYet, CupsInit, NoJobYet
<1>1. ControlInv
  BY DEF ControlInv, Working, LpAlive, Refused, Codes400
<1>2. FileInv
  BY DEF FileInv, TempFileIsOwn, PrintedFilesRemoved, Working
<1>3. JobInv
  BY DEF JobInv, Exists
<1> QED
  BY <1>1, <1>2, <1>3, TypeInit DEF IInv

(* The inductive invariant: what PrintDocument knows of its handlers, of   *)
(* its files and of the jobs of lp holds in every state.                   *)
THEOREM Invariance == Spec => []IInv
<1>1. IInv /\ [Next]_vars => IInv'
  BY TypeStep, ControlStep, FileStep, JobStep DEF IInv
<1> QED
  BY InvInit, <1>1, PTL DEF Spec

(* Every variable keeps its type.                                          *)
THEOREM TypeCorrect == Spec => []TypeOK
<1>1. IInv => TypeOK
  BY DEF IInv
<1> QED
  BY Invariance, <1>1, PTL

(* No two requests ever share a temporary file, and none loses its file    *)
(* while it still works on it, however the requests interleave.            *)
THEOREM TempFilesAreSafe == Spec => []TempFileIsOwn
<1>1. IInv => TempFileIsOwn
  BY DEF IInv, FileInv
<1> QED
  BY Invariance, <1>1, PTL

(* A document given to lp never stays in /tmp, unless a crash leaves it.   *)
THEOREM FilesAreRemoved == Spec => []PrintedFilesRemoved
<1>1. IInv => PrintedFilesRemoved
  BY DEF IInv, FileInv
<1> QED
  BY Invariance, <1>1, PTL

(* A 202 names the request's own job, with its document, where it asked.   *)
THEOREM QueuedIsTrue == Spec => []QueuedIsOwnJob
<1>1. IInv => QueuedIsOwnJob
  BY PrintDocumentAssumption
     DEF IInv, TypeOK, ControlInv, JobInv, QueuedIsOwnJob, Exists
<1> QED
  BY Invariance, <1>1, PTL

(* Documents of different requests are never mixed up in CUPS.             *)
THEOREM DocumentsAreNotMixedUp == Spec => []NoMixUp
<1>1. IInv => NoMixUp
  BY DEF IInv, JobInv, NoMixUp
<1> QED
  BY Invariance, <1>1, PTL

(* No lp process outlives its request.                                     *)
THEOREM LpEndsWithRequest == Spec => []NoLpOutlivesRequest
<1>1. IInv => NoLpOutlivesRequest
  BY DEF IInv, ControlInv, NoLpOutlivesRequest
<1> QED
  BY Invariance, <1>1, PTL

-----------------------------------------------------------------------------
(* A request has at most one job in CUPS: the one its lp process created.  *)
JobCount ==
  Submissions = [h \in Handlers |-> IF jobOf[h] = None THEN 0 ELSE 1]

LEMMA OneJob == IInv => JobCount
<1> SUFFICES ASSUME IInv, NEW h \in Handlers
             PROVE  Cardinality(JobsOf(h)) = IF jobOf[h] = None THEN 0 ELSE 1
  BY DEF Submissions, JobCount
<1>1. \A n \in JobsOf(h) : n \in JobNumbers /\ jobOf[h] = n
  BY PrintDocumentAssumption DEF IInv, JobInv, JobsOf
<1>2. jobOf[h] # None => jobOf[h] \in JobsOf(h)
  BY DEF IInv, TypeOK, JobInv, JobsOf
<1>3. CASE jobOf[h] = None
  <2>1. JobsOf(h) = {}
    BY <1>1, <1>3, PrintDocumentAssumption
  <2> QED
    BY <1>3, <2>1, FS_EmptySet
<1>4. CASE jobOf[h] # None
  <2>1. JobsOf(h) = {jobOf[h]}
    BY <1>1, <1>2, <1>4
  <2>2. Cardinality({jobOf[h]}) = 1
    BY FS_Singleton
  <2> QED
    BY <1>4, <2>1, <2>2
<1> QED
  BY <1>3, <1>4

(* The same of the next state.                                             *)
LEMMA OneJobNext == IInv' => JobCount'
BY OneJob, PTL

(* The initial states of PrintDocument are initial states of PrintOnce.    *)
LEMMA ContractInit == Init => Contract!Init
<1> SUFFICES ASSUME Init PROVE Contract!Init
  OBVIOUS
<1>1. Submissions = [h \in Handlers |-> 0]
  <2>1. \A h \in Handlers : jobOf[h] = None
    BY DEF Init, NotYet
  <2> QED
    BY <2>1, InvInit, OneJob DEF JobCount
<1>2. Replies = [h \in Handlers |-> "none"]
  BY DEF Init, Replies, Reply
<1> QED
  BY <1>1, <1>2 DEF Contract!Init

(* A step that creates no job and ends no request is invisible.            *)
LEMMA Invisible ==
  ASSUME IInv, IInv', UNCHANGED jobOf,
         \A h \in Handlers : /\ pc[h] = "done" <=> pc'[h] = "done"
                             /\ pc[h] = "done" => answer'[h] = answer[h]
  PROVE  UNCHANGED << Submissions, Replies >>
<1>1. Submissions' = Submissions
  BY OneJob, OneJobNext DEF JobCount
<1>2. Replies' = Replies
  BY DEF Replies, Reply, Refused
<1> QED
  BY <1>1, <1>2

(* Every step of PrintDocument is a step of PrintOnce or none of its.      *)
LEMMA ContractStep ==
  IInv /\ IInv' /\ [Next]_vars => [Contract!Next]_<< Submissions, Replies >>
<1> SUFFICES ASSUME IInv, IInv', [Next]_vars,
                    ~ UNCHANGED << Submissions, Replies >>
             PROVE  Contract!Next
  OBVIOUS
<1>types. /\ jobOf \in [Handlers -> JobNumbers \cup {None}]
          /\ pc \in [Handlers -> {"idle", "check", "create", "copy", "close",
                                  "submit", "wait", "respond", "done"}]
          /\ answer \in [Handlers -> Answers]
  BY DEF IInv, TypeOK
<1>1. ASSUME NEW h \in Handlers, LpCreateJob(h) PROVE Contract!Submit(h)
  <2>1. /\ lp[h] = "running" /\ jobOf[h] = None
        /\ pc[h] = "wait" /\ UNCHANGED << pc, answer >>
    BY <1>1 DEF IInv, ControlInv, JobInv, LpCreateJob, LpAlive, handlerVars
  <2>2. PICK n \in JobNumbers : jobOf' = [jobOf EXCEPT ![h] = n]
    BY <1>1 DEF LpCreateJob
  <2>3. n # None
    BY PrintDocumentAssumption
  <2>4. Submissions' = [Submissions EXCEPT ![h] = 1] /\ Submissions[h] = 0
    BY <1>types, <2>1, <2>2, <2>3, OneJob, OneJobNext DEF JobCount
  <2>5. Replies' = Replies /\ Replies[h] = "none"
    BY <2>1 DEF Replies, Reply, Refused
  <2> QED
    BY <2>4, <2>5 DEF Contract!Submit
<1>2. ASSUME NEW h \in Handlers, Respond(h)
      PROVE  Contract!Queue(h) \/ Contract!Refuse(h) \/ Contract!Fail({h})
  <2>1. /\ pc[h] = "respond" /\ pc' = [pc EXCEPT ![h] = "done"]
        /\ UNCHANGED jobOf
        /\ \/ answer' = answer
           \/ answer' = [answer EXCEPT ![h] = "lost"]
    BY <1>2 DEF Respond, Go, lpVars
  <2>2. Submissions' = Submissions
    BY <2>1, OneJob, OneJobNext DEF JobCount
  <2>3. /\ Replies[h] = "none"
        /\ Replies' = [Replies EXCEPT ![h] = Reply(h)']
    BY <1>types, <2>1, ZenonT(60) DEF Replies, Reply, Refused
  <2>4. CASE Reply(h)' = "queued"
    <3>1. answer[h] = "queued"
      BY <1>types, <2>1, <2>4 DEF Reply
    <3>2. Submissions[h] = 1
      BY <3>1, OneJob DEF JobCount, IInv, ControlInv, JobInv
    <3> QED
      BY <2>2, <2>3, <2>4, <3>2 DEF Contract!Queue, Contract!Tell
  <2>5. CASE Reply(h)' = "refused"
    <3>1. Refused(h)
      BY <1>types, <2>1, <2>5 DEF Reply, Refused, Codes400
    <3>2. Submissions[h] = 0
      BY <3>1, OneJob DEF JobCount, IInv, ControlInv, JobInv
    <3> QED
      BY <2>2, <2>3, <2>5, <3>2 DEF Contract!Refuse, Contract!Tell
  <2>6. CASE Reply(h)' = "failed"
    BY <2>2, <2>3, <2>6 DEF Contract!Fail, Replies
  <2> QED
    BY <1>types, <2>1, <2>4, <2>5, <2>6 DEF Reply
<1>3. ASSUME Crash
      PROVE  \E cs \in (SUBSET Handlers) \ {{}} : Contract!Fail(cs)
  <2> DEFINE cs == { h \in Handlers : InFlight(h) }
  <2>1. cs \in (SUBSET Handlers) \ {{}}
    BY <1>3 DEF Crash
  <2>2. Submissions' = Submissions
    BY <1>3, OneJob, OneJobNext DEF JobCount, Crash
  <2>3. \A h \in cs : Replies[h] = "none"
    BY DEF InFlight, Replies, Reply
  <2>4. \A h \in Handlers :
          Reply(h)' = IF h \in cs THEN "failed" ELSE Reply(h)
    BY <1>3, <1>types DEF Crash, InFlight, Reply, Refused, Codes400
  <2>5. Contract!Fail(cs)
    BY <2>2, <2>3, <2>4 DEF Contract!Fail, Replies
  <2> QED
    BY <2>1, <2>5
<1>4. ASSUME NEW h \in Handlers,
             \/ Receive(h) \/ CheckRequest(h) \/ CreateTemp(h)
             \/ CopyPrintFile(h) \/ CloseTemp(h) \/ StartLp(h)
             \/ FinishPrint(h)
      PROVE  FALSE
  <2>1. UNCHANGED jobOf
    BY <1>4 DEF Receive, CheckRequest, CreateTemp, CopyPrintFile, CloseTemp,
         StartLp, FinishPrint, lpVars
  <2>2. /\ pc[h] # "done" /\ pc'[h] # "done"
        /\ \A i \in Handlers \ {h} : pc'[i] = pc[i] /\ answer'[i] = answer[i]
    BY <1>4, <1>types DEF Receive, CheckRequest, CreateTemp, CopyPrintFile,
         CloseTemp, StartLp, FinishPrint, Go, Answer
  <2> QED
    BY <2>1, <2>2, Invisible
<1>5. ASSUME NEW h \in Handlers,
             \/ LpSendDocument(h) \/ LpExit(h) \/ LpFail(h)
             \/ KillLp(h) \/ Disconnect(h)
      PROVE  FALSE
  <2>1. UNCHANGED << pc, answer, jobOf >>
    BY <1>5 DEF LpSendDocument, LpExit, LpFail, KillLp, Disconnect,
         handlerVars, lpVars
  <2> QED
    BY <2>1, Invisible
<1>6. ASSUME \/ \E d \in Dests : ForeignJob(d)
             \/ \E n \in JobNumbers : EndIncomingJob(n)
             \/ UNCHANGED vars
      PROVE  FALSE
  <2>1. UNCHANGED << pc, answer, jobOf >>
    BY <1>6 DEF ForeignJob, EndIncomingJob, vars, handlerVars, lpVars
  <2> QED
    BY <2>1, Invisible
<1>7. \/ \E h \in Handlers : LpCreateJob(h) \/ Respond(h)
      \/ Crash
  BY <1>4, <1>5, <1>6 DEF Next, Handler, Lp
<1>8. CASE \E h \in Handlers : LpCreateJob(h)
  BY <1>1, <1>8 DEF Contract!Next
<1>9. CASE \E h \in Handlers : Respond(h)
  <2>1. PICK h \in Handlers : Respond(h)
    BY <1>9
  <2>2. {h} \in (SUBSET Handlers) \ {{}}
    OBVIOUS
  <2> QED
    BY <1>2, <2>1, <2>2 DEF Contract!Next
<1>10. CASE Crash
  BY <1>3, <1>10 DEF Contract!Next
<1> QED
  BY <1>7, <1>8, <1>9, <1>10

(* POST /print keeps its contract: whatever the handlers, the lp           *)
(* processes, the clients, CUPS and crashes do, a request makes one job at *)
(* most, and no refused request and no request after its end makes any.    *)
THEOREM PrintsOnce == Spec => ImplementsPrintOnce
<1>1. Init => Contract!Init
  BY ContractInit
<1>2. IInv /\ IInv' /\ [Next]_vars => [Contract!Next]_<< Submissions, Replies >>
  BY ContractStep
<1> QED
  BY <1>1, <1>2, Invariance, PTL DEF Spec, ImplementsPrintOnce, Contract!Spec

-----------------------------------------------------------------------------
(* What the sizes of a document have to do with its outcome and its        *)
(* answer: both come from the sizes and from nothing else, but for a       *)
(* failure to store it.                                                    *)
SizeInv ==
  \A h \in Handlers :
    /\ pc[h] \in {"idle", "check", "create", "copy"} => outcome[h] = None
    /\ pc[h] \in {"check", "create"} \cup Working => FitsBody(doc[h])
    /\ outcome[h] # None =>
         outcome[h] \in {CopyOutcome(doc[h]), "store_document"} /\ FitsBody(doc[h])
    /\ answer[h] = "file_too_large" =>
         \/ ~ FitsBody(doc[h])
         \/ doc[h].size > MaxUploadBytes
         \/ CopyOutcome(doc[h]) = "file_too_large"
    /\ answer[h] = "empty_document" => CopyOutcome(doc[h]) = "empty_document"
    /\ answer[h] = "queued" => outcome[h] = "ok"

(* Every step of a handler keeps it; the other steps do not look at sizes. *)
LEMMA SizeStep == IInv /\ SizeInv /\ [Next]_vars => SizeInv'
<1> SUFFICES ASSUME IInv, SizeInv, [Next]_vars PROVE SizeInv'
  OBVIOUS
<1> USE DEF IInv
<1>1. ASSUME NEW h \in Handlers, Receive(h) PROVE SizeInv'
  <2>1. answer[h] = "none" /\ outcome[h] = None
    BY <1>1 DEF ControlInv, SizeInv, Receive, Go, Answer
  <2> QED
    BY <1>1, <2>1, PrintDocumentAssumption
       DEF TypeOK, SizeInv, Receive, Go, Answer, Working
<1>2. ASSUME NEW h \in Handlers, CheckRequest(h) PROVE SizeInv'
  BY <1>2 DEF TypeOK, SizeInv, CheckRequest, Go, Answer, Working
<1>3. ASSUME NEW h \in Handlers, CreateTemp(h) PROVE SizeInv'
  BY <1>3 DEF TypeOK, SizeInv, CreateTemp, Go, Answer, Working
<1>4. ASSUME NEW h \in Handlers, CopyPrintFile(h) PROVE SizeInv'
  <2>1. answer[h] = "none" /\ FitsBody(doc[h])
    BY <1>4 DEF ControlInv, SizeInv, CopyPrintFile, Go, Working
  <2> QED
    BY <1>4, <2>1 DEF TypeOK, SizeInv, CopyPrintFile, Go, Working
<1>5. ASSUME NEW h \in Handlers, CloseTemp(h) PROVE SizeInv'
  <2>1. outcome[h] # None
    BY <1>5 DEF ControlInv, CloseTemp, Go, Answer
  <2> QED
    BY <1>5, <2>1, PrintDocumentAssumption
       DEF TypeOK, SizeInv, CloseTemp, Go, Answer, Working, Outcomes
<1>6. ASSUME NEW h \in Handlers, StartLp(h) PROVE SizeInv'
  BY <1>6 DEF TypeOK, SizeInv, StartLp, Go, Working
<1>7. ASSUME NEW h \in Handlers, FinishPrint(h) PROVE SizeInv'
  <2>1. outcome[h] = "ok"
    BY <1>7 DEF ControlInv, FinishPrint, Go, Answer
  <2> QED
    BY <1>7, <2>1 DEF TypeOK, SizeInv, FinishPrint, Go, Answer, Working
<1>8. ASSUME NEW h \in Handlers, Respond(h) PROVE SizeInv'
  BY <1>8 DEF TypeOK, SizeInv, Respond, Go, Working
<1>9. ASSUME Crash PROVE SizeInv'
  BY <1>9 DEF TypeOK, SizeInv, Crash, InFlight, Working
<1>10. CASE UNCHANGED << pc, doc, outcome, answer >>
  BY <1>10 DEF SizeInv
<1>11. ASSUME NEW h \in Handlers, Lp(h) \/ KillLp(h) \/ Disconnect(h)
       PROVE  UNCHANGED << pc, doc, outcome, answer >>
  BY <1>11
     DEF Lp, LpCreateJob, LpSendDocument, LpExit, LpFail, KillLp, Disconnect,
         handlerVars
<1>12. ASSUME \/ \E d \in Dests : ForeignJob(d)
              \/ \E n \in JobNumbers : EndIncomingJob(n)
              \/ UNCHANGED vars
       PROVE  UNCHANGED << pc, doc, outcome, answer >>
  BY <1>12 DEF ForeignJob, EndIncomingJob, vars, handlerVars
<1> QED
  BY <1>1, <1>2, <1>3, <1>4, <1>5, <1>6, <1>7, <1>8, <1>9, <1>10, <1>11, <1>12
     DEF Next, Handler

(* Sizes and answers agree in every behaviour.                             *)
LEMMA SizeInvariance == Spec => []SizeInv
<1>1. Init => SizeInv
  BY PrintDocumentAssumption DEF Init, SizeInv, NotYet, Working
<1> QED
  BY <1>1, SizeStep, Invariance, PTL DEF Spec

(* A document within the limit is not refused for its size, at the exact   *)
(* limit too, unless the limit of the body is beyond an int64.             *)
THEOREM WithinLimit ==
  ASSUME MaxUploadBytes + FormRoom <= MaxInt
  PROVE  Spec => []WithinLimitAccepted
<1>1. BodyLimit = MaxUploadBytes + FormRoom
  BY PrintDocumentAssumption DEF BodyLimit, Wrap, AtLeastZero
<1>2. ASSUME NEW d \in Documents, d.size \in HeaderLen .. MaxUploadBytes,
             d.form <= FormRoom
      PROVE  /\ FitsBody(d) /\ d.size <= MaxUploadBytes
             /\ CopyOutcome(d) \notin {"file_too_large", "empty_document"}
  <2>1. d.size \in Nat /\ d.form \in Nat
    BY PrintDocumentAssumption
  <2>2. Written(d) = d.size
    BY <1>2, <2>1, PrintDocumentAssumption DEF Written, Wrap, AtLeastZero
  <2>3. FitsBody(d)
    BY <1>1, <1>2, <2>1, PrintDocumentAssumption DEF FitsBody
  <2>4. ~ (d.size > MaxUploadBytes) /\ d.size # 0 /\ d.size <= MaxUploadBytes
    BY <1>2, <2>1, PrintDocumentAssumption
  <2> QED
    BY <2>2, <2>3, <2>4 DEF CopyOutcome
<1>3. IInv /\ SizeInv => WithinLimitAccepted
  <2> SUFFICES ASSUME IInv, SizeInv, NEW h \in Handlers, doc[h] # None,
                      doc[h].size \in HeaderLen .. MaxUploadBytes,
                      doc[h].form <= FormRoom
               PROVE  answer[h] \notin {"file_too_large", "empty_document"}
    BY DEF WithinLimitAccepted
  <2>1. doc[h] \in Documents
    BY DEF IInv, TypeOK
  <2>2. ~ (doc[h].size > MaxUploadBytes)
    BY <2>1, PrintDocumentAssumption
  <2> QED
    BY <1>2, <2>1, <2>2 DEF SizeInv
<1> QED
  BY <1>3, Invariance, SizeInvariance, PTL

(* Beyond that the sum of limitPrintBody wraps, and nothing can be printed *)
(* any more: the service starts with such a configuration and refuses      *)
(* every document.                                                         *)
THEOREM HugeLimitRefusesAll ==
  ASSUME MaxUploadBytes + FormRoom > MaxInt
  PROVE  Spec => [](\A h \in Handlers : answer[h] # "queued")
<1>1. BodyLimit = 0
  BY PrintDocumentAssumption DEF BodyLimit, Wrap, AtLeastZero
<1>2. ASSUME NEW d \in Documents, FitsBody(d) PROVE CopyOutcome(d) # "ok"
  <2>1. d.size = 0
    BY <1>1, <1>2, PrintDocumentAssumption DEF FitsBody
  <2>2. Written(d) = 0
    BY <2>1, PrintDocumentAssumption DEF Written, Wrap, AtLeastZero
  <2> QED
    BY <2>2 DEF CopyOutcome
<1>3. IInv /\ SizeInv => \A h \in Handlers : answer[h] # "queued"
  <2> SUFFICES ASSUME IInv, SizeInv, NEW h \in Handlers, answer[h] = "queued"
               PROVE  FALSE
    OBVIOUS
  <2>1. outcome[h] = "ok" /\ outcome[h] # None
    BY PrintDocumentAssumption DEF SizeInv, Outcomes
  <2>2. CopyOutcome(doc[h]) = "ok" /\ FitsBody(doc[h])
    BY <2>1 DEF SizeInv
  <2>3. doc[h] \in Documents
    BY DEF IInv, ControlInv
  <2> QED
    BY <1>2, <2>2, <2>3
<1> QED
  BY <1>3, Invariance, SizeInvariance, PTL

=============================================================================
