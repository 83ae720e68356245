--------------------------- MODULE PrintDocument ----------------------------
(***************************************************************************)
(* POST /print: the whole path of a request, from the body limit of        *)
(* main.go through the handler of api.go to the lp process and CUPS, for   *)
(* any number of requests at once.  Each request is served by a goroutine  *)
(* (a "handler") and by the lp process it starts; the steps below are the  *)
(* ones at which handlers, lp processes, clients, CUPS and a crash of the  *)
(* service interleave.                                                     *)
(*                                                                         *)
(* What a request's fields mean is module PrintOptions: here a request     *)
(* either resolves to a destination or, Unsupported, to a 400.             *)
(***************************************************************************)
EXTENDS Cups, Integers

CONSTANTS
  Handlers,        \* the requests of one behaviour, each with its goroutine
  Documents,       \* what clients send: [size, pdf, form, dest]
  Unsupported,     \* the dest of a request whose options are refused
  Paths,           \* the names os.CreateTemp may choose
  Foreign,         \* the owner of jobs the service did not create
  None,            \* no file, no path, no job, no document
  MaxUploadBytes,  \* config.MaxUploadBytes
  FormRoom,        \* the 1 MiB that limitPrintBody adds for the other fields
  MaxInt,          \* math.MaxInt64
  HeaderLen,       \* len("%PDF-")
  PrivateTmp,      \* print-api.service: /tmp is discarded with the process
  StoreFaults,     \* whether creating or writing a temporary file may fail
  CloseFaults,     \* whether closing it may fail
  LpFaults,        \* whether lp may fail by itself
  MaxCrashes,      \* bound on the crashes of the service
  MaxForeignJobs   \* bound on the jobs of others

Outcomes == {"ok", "file_too_large", "empty_document", "invalid_document",
             "store_document"}

ASSUME PrintDocumentAssumption ==
  /\ Owners = Handlers \cup {Foreign} /\ Foreign \notin Handlers
  /\ Unsupported \notin Dests
  /\ None \notin Handlers \cup Paths /\ None \notin JobNumbers /\ None \notin Outcomes
  /\ Documents \subseteq
       [size : Nat, pdf : BOOLEAN, form : Nat, dest : Dests \cup {Unsupported}]
  /\ MaxInt \in Nat \ {0} /\ MaxUploadBytes \in 1 .. MaxInt
  /\ FormRoom \in 1 .. MaxInt /\ HeaderLen \in Nat \ {0}
  /\ {PrivateTmp, StoreFaults, CloseFaults, LpFaults} \subseteq BOOLEAN
  /\ MaxCrashes \in Nat /\ MaxForeignJobs \in Nat

VARIABLES
  pc,        \* where each handler is
  doc,       \* the request each handler serves
  path,      \* filePath
  outcome,   \* what copyPrintFile has found, before its deferred Close
  answer,    \* what each handler has decided to answer
  conn,      \* "up", or "gone" when the client is (its context is cancelled)
  files,     \* whose document each temporary file holds
  lp,        \* the lp process of each handler
  jobOf,     \* the job lp created: lp prints its identifier
  spooled,   \* whose document CUPS holds for each job
  crashes    \* number of crashes so far

handlerVars == << pc, doc, path, outcome, answer >>
lpVars      == << lp, jobOf >>
vars == << handlerVars, conn, files, lpVars, spooled, crashes, jobs >>

Codes400 == {"unsupported_option", "empty_document", "invalid_document"}
Answers  == Codes400 \cup
              {"none", "queued", "file_too_large", "store_document", "cups_error", "lost"}

-----------------------------------------------------------------------------
(* int64 addition.                                                         *)
Wrap(x) == IF x > MaxInt THEN x - 2 * (MaxInt + 1) ELSE x

AtLeastZero(x) == IF x < 0 THEN 0 ELSE x

(* http.MaxBytesReader takes a negative limit for 0.                       *)
BodyLimit == AtLeastZero(Wrap(MaxUploadBytes + FormRoom))

(* Mutant: the room for the other fields is forgotten.                     *)
MutFitsBody(d) == d.size + d.form <= MaxUploadBytes

FitsBody(d) == d.size + d.form <= BodyLimit

(* What io.Copy reads through io.LimitReader, which takes a negative limit *)
(* for 0.                                                                  *)
Written(d) ==
  LET limit == AtLeastZero(Wrap(MaxUploadBytes + 1))
  IN  IF d.size <= limit THEN d.size ELSE limit

(* copyPrintFile, once nothing fails.                                      *)
CopyOutcome(d) ==
  IF Written(d) > MaxUploadBytes                     THEN "file_too_large"
  ELSE IF Written(d) = 0                             THEN "empty_document"
  ELSE IF Written(d) < HeaderLen \/ ~ d.pdf          THEN "invalid_document"
  ELSE "ok"

NotYet == [h \in Handlers |-> None]

Init ==
  /\ pc      = [h \in Handlers |-> "idle"]
  /\ doc     = NotYet
  /\ path    = NotYet
  /\ outcome = NotYet
  /\ answer  = [h \in Handlers |-> "none"]
  /\ conn    = [h \in Handlers |-> "up"]
  /\ files   = [p \in Paths |-> None]
  /\ lp      = [h \in Handlers |-> "none"]
  /\ jobOf   = NotYet
  /\ spooled = [n \in JobNumbers |-> None]
  /\ crashes = 0
  /\ CupsInit

Go(h, from, to) == pc[h] = from /\ pc' = [pc EXCEPT ![h] = to]

Answer(h, from, code) ==
  /\ Go(h, from, "respond")
  /\ answer' = [answer EXCEPT ![h] = code]

-----------------------------------------------------------------------------
(* limitPrintBody and the generated decoder: the body is read whole before *)
(* the handler runs.                                                       *)
Receive(h) ==
  /\ \E d \in Documents :
       /\ doc' = [doc EXCEPT ![h] = d]
       /\ IF FitsBody(d) THEN Go(h, "idle", "check") /\ UNCHANGED answer
                         ELSE Answer(h, "idle", "file_too_large")
  /\ UNCHANGED << path, outcome, conn, files, lpVars, spooled, crashes, jobs >>

(* PrintDocument up to the size check.                                     *)
CheckRequest(h) ==
  /\ pc[h] = "check"
  /\ IF doc[h].dest = Unsupported
       THEN Answer(h, "check", "unsupported_option")
     ELSE IF doc[h].size > MaxUploadBytes
       THEN Answer(h, "check", "file_too_large")
     ELSE Go(h, "check", "create") /\ UNCHANGED answer
  /\ UNCHANGED << doc, path, outcome, conn, files, lpVars, spooled, crashes, jobs >>

(* Mutant: a name that is already taken may be chosen.                     *)
MutCreateTemp(h) ==
  /\ Go(h, "create", "copy")
  /\ \E p \in Paths : /\ path' = [path EXCEPT ![h] = p]
                      /\ files' = [files EXCEPT ![p] = h]
  /\ UNCHANGED << doc, outcome, answer, conn, lpVars, spooled, crashes, jobs >>

(* os.CreateTemp opens a new file exclusively, under a name nobody has.    *)
CreateTemp(h) ==
  /\ \/ /\ Go(h, "create", "copy")
        /\ \E p \in Paths : /\ files[p] = None
                            /\ path' = [path EXCEPT ![h] = p]
                            /\ files' = [files EXCEPT ![p] = h]
        /\ UNCHANGED answer
     \/ /\ StoreFaults
        /\ Answer(h, "create", "store_document")
        /\ UNCHANGED << path, files >>
  /\ UNCHANGED << doc, outcome, conn, lpVars, spooled, crashes, jobs >>

(* The body of copyPrintFile: copy, measure, look at the header.  path is  *)
(* the named result of the function: `return "", err` empties it before    *)
(* the deferred function runs.                                             *)
CopyPrintFile(h) ==
  /\ Go(h, "copy", "close")
  /\ \E o \in {CopyOutcome(doc[h])} \cup
              (IF StoreFaults THEN {"store_document"} ELSE {}) :
       /\ outcome' = [outcome EXCEPT ![h] = o]
       /\ path' = [path EXCEPT ![h] = IF o = "ok" THEN @ ELSE None]
  /\ UNCHANGED << doc, answer, conn, files, lpVars, spooled, crashes, jobs >>

(* os.Remove(path); there is no file "".                                   *)
Remove(h) == [p \in Paths |-> IF p = path[h] THEN None ELSE files[p]]

(* Mutant: the deferred function removes the file of a good copy too.      *)
MutCloseTemp(h) ==
  /\ IF outcome[h] = "ok" THEN Go(h, "close", "submit") /\ UNCHANGED answer
                          ELSE Answer(h, "close", outcome[h])
  /\ files' = Remove(h)
  /\ UNCHANGED << doc, path, outcome, conn, lpVars, spooled, crashes, jobs >>

(* Mutant: the error of Close is lost, the failure is answered.            *)
MutCloseLosesError(h) ==
  /\ \/ outcome[h] = "ok" /\ Go(h, "close", "submit") /\ UNCHANGED << answer, files >>
     \/ CloseFaults /\ Answer(h, "close", outcome[h]) /\ files' = Remove(h)
  /\ UNCHANGED << doc, path, outcome, conn, lpVars, spooled, crashes, jobs >>

(* Its deferred function: close, and remove the file unless it is kept.    *)
(* After a bad copy path is "" by now, so the file stays.  After a good    *)
(* one an error of Close is returned, but keep is TRUE and the caller,     *)
(* which has an error, removes nothing either.                             *)
CloseTemp(h) ==
  /\ \/ /\ outcome[h] = "ok"
        /\ Go(h, "close", "submit")
        /\ UNCHANGED << answer, files >>
     \/ /\ outcome[h] = "ok"
        /\ CloseFaults
        /\ Answer(h, "close", "store_document")
        /\ UNCHANGED files
     \/ /\ outcome[h] # "ok"
        /\ Answer(h, "close", outcome[h])
        /\ files' = Remove(h)
  /\ UNCHANGED << doc, path, outcome, conn, lpVars, spooled, crashes, jobs >>

(* runLP starts the process, unless the context is cancelled already.      *)
StartLp(h) ==
  /\ Go(h, "submit", "wait")
  /\ lp' = [lp EXCEPT ![h] = IF conn[h] = "up" THEN "running" ELSE "failed"]
  /\ UNCHANGED << doc, path, outcome, answer, conn, files, jobOf, spooled,
                  crashes, jobs >>

(* Mutant: the file is removed on the path of success only.                *)
MutFinishKeeps(h) ==
  /\ \/ lp[h] = "exited" /\ Answer(h, "wait", "queued") /\ files' = Remove(h)
     \/ lp[h] = "failed" /\ Answer(h, "wait", "cups_error") /\ UNCHANGED files
  /\ UNCHANGED << doc, path, outcome, conn, lpVars, spooled, crashes, jobs >>

(* Mutant: an lp process that failed counts as success.                    *)
MutFinishPrint(h) ==
  /\ lp[h] \in {"exited", "failed"}
  /\ Answer(h, "wait", "queued")
  /\ files' = Remove(h)
  /\ UNCHANGED << doc, path, outcome, conn, lpVars, spooled, crashes, jobs >>

(* Mutant: the handler does not wait for an lp it has cancelled.           *)
MutFinishEarly(h) ==
  /\ \/ lp[h] = "exited" /\ Answer(h, "wait", "queued")
     \/ (lp[h] = "failed" \/ conn[h] = "gone") /\ lp[h] # "exited"
          /\ Answer(h, "wait", "cups_error")
  /\ files' = Remove(h)
  /\ UNCHANGED << doc, path, outcome, conn, lpVars, spooled, crashes, jobs >>

(* Mutant: a failed lp is tried again.                                     *)
MutRetryLp(h) ==
  /\ \/ lp[h] = "exited" /\ Answer(h, "wait", "queued") /\ files' = Remove(h)
     \/ lp[h] = "failed" /\ Go(h, "wait", "submit") /\ UNCHANGED << answer, files >>
  /\ UNCHANGED << doc, path, outcome, conn, lpVars, spooled, crashes, jobs >>

(* Mutant: an error of lp ends in no answer.                               *)
MutFinishSuccess(h) ==
  /\ lp[h] = "exited" /\ Answer(h, "wait", "queued")
  /\ files' = Remove(h)
  /\ UNCHANGED << doc, path, outcome, conn, lpVars, spooled, crashes, jobs >>

(* runLP has returned: read the identifier of the job, or give up; the     *)
(* deferred os.Remove runs before the answer is written.                   *)
FinishPrint(h) ==
  /\ \/ lp[h] = "exited" /\ Answer(h, "wait", "queued")
     \/ lp[h] = "failed" /\ Answer(h, "wait", "cups_error")
  /\ files' = Remove(h)
  /\ UNCHANGED << doc, path, outcome, conn, lpVars, spooled, crashes, jobs >>

(* The generated encoder writes the answer.  It is lost when the client is *)
(* gone, or when the WriteTimeout of the server has passed meanwhile.      *)
Respond(h) ==
  /\ Go(h, "respond", "done")
  /\ \/ conn[h] = "up" /\ UNCHANGED answer
     \/ answer' = [answer EXCEPT ![h] = "lost"]
  /\ UNCHANGED << doc, path, outcome, conn, files, lpVars, spooled, crashes, jobs >>

-----------------------------------------------------------------------------
(* The lp process: create the job, send the document, exit 0.              *)
LpAlive(h) == lp[h] \in {"running", "created", "sent"}

LpCreateJob(h) ==
  /\ lp[h] = "running"
  /\ files[path[h]] # None
  /\ \E n \in JobNumbers :
       /\ CreateJob(n, doc[h].dest, h, "incoming")
       /\ jobOf' = [jobOf EXCEPT ![h] = n]
  /\ lp' = [lp EXCEPT ![h] = "created"]
  /\ UNCHANGED << handlerVars, conn, files, spooled, crashes >>

LpSendDocument(h) ==
  /\ lp[h] = "created"
  /\ files[path[h]] # None
  /\ Move(jobOf[h], {"incoming"}, "pending")
  /\ spooled' = [spooled EXCEPT ![jobOf[h]] = files[path[h]]]
  /\ lp' = [lp EXCEPT ![h] = "sent"]
  /\ UNCHANGED << handlerVars, conn, files, jobOf, crashes >>

LpExit(h) ==
  /\ lp[h] = "sent"
  /\ lp' = [lp EXCEPT ![h] = "exited"]
  /\ UNCHANGED << handlerVars, conn, files, jobOf, spooled, crashes, jobs >>

LpFails(h) == lp' = [lp EXCEPT ![h] = "failed"]

(* lp fails: it cannot reach CUPS, CUPS refuses or aborts the job, or an   *)
(* answer of CUPS is lost after the job was made.                          *)
LpFail(h) ==
  /\ LpAlive(h)
  /\ \/ LpFaults
     \/ files[path[h]] = None
     \/ lp[h] = "created" /\ jobs[jobOf[h]].state # "incoming"
  /\ LpFails(h)
  /\ UNCHANGED << handlerVars, conn, files, jobOf, spooled, crashes, jobs >>

(* Mutant: exec.Command, without the context of the request.               *)
MutKillLp(h) == FALSE

(* exec.CommandContext kills lp when the client has gone away.             *)
KillLp(h) ==
  /\ LpAlive(h) /\ conn[h] = "gone"
  /\ LpFails(h)
  /\ UNCHANGED << handlerVars, conn, files, jobOf, spooled, crashes, jobs >>

-----------------------------------------------------------------------------
InFlight(h) == pc[h] \notin {"idle", "done"}

Disconnect(h) ==
  /\ InFlight(h) /\ conn[h] = "up"
  /\ conn' = [conn EXCEPT ![h] = "gone"]
  /\ UNCHANGED << handlerVars, files, lpVars, spooled, crashes, jobs >>

(* The service dies and systemd starts it again: every request is cut off, *)
(* the lp processes of the unit die with it, and so does its private /tmp. *)
Crash ==
  /\ crashes < MaxCrashes
  /\ \E h \in Handlers : InFlight(h)
  /\ crashes' = crashes + 1
  /\ pc'     = [h \in Handlers |-> IF InFlight(h) THEN "done" ELSE pc[h]]
  /\ answer' = [h \in Handlers |-> IF InFlight(h) THEN "lost" ELSE answer[h]]
  /\ conn'   = [h \in Handlers |-> IF InFlight(h) THEN "gone" ELSE conn[h]]
  /\ lp'     = [h \in Handlers |-> IF LpAlive(h) THEN "failed" ELSE lp[h]]
  /\ files'  = IF PrivateTmp THEN [p \in Paths |-> None] ELSE files
  /\ UNCHANGED << doc, path, outcome, jobOf, spooled, jobs >>

ForeignJobs == { n \in JobNumbers : Exists(n) /\ jobs[n].owner = Foreign }

ForeignJob(dest) ==
  /\ Cardinality(ForeignJobs) < MaxForeignJobs
  /\ \E n \in JobNumbers : CreateJob(n, dest, Foreign, "pending")
  /\ UNCHANGED << handlerVars, conn, files, lpVars, spooled, crashes >>

(* A job may be ended before its document has arrived.  What becomes of a  *)
(* job CUPS has in full is of no concern to POST; module JobStatus has it. *)
EndIncomingJob(n) ==
  /\ jobs[n].state = "incoming"
  /\ CancelJob(n) \/ AbortJob(n)
  /\ UNCHANGED << handlerVars, conn, files, lpVars, spooled, crashes >>

Handler(h) ==
  \/ Receive(h) \/ CheckRequest(h) \/ CreateTemp(h) \/ CopyPrintFile(h)
  \/ CloseTemp(h) \/ StartLp(h) \/ FinishPrint(h) \/ Respond(h)

Lp(h) == LpCreateJob(h) \/ LpSendDocument(h) \/ LpExit(h) \/ LpFail(h)

Next ==
  \/ \E h \in Handlers : Handler(h) \/ Lp(h) \/ KillLp(h) \/ Disconnect(h)
  \/ Crash
  \/ \E d \in Dests : ForeignJob(d)
  \/ \E n \in JobNumbers : EndIncomingJob(n)

Spec == Init /\ [][Next]_vars

(* The scheduler of Go runs every goroutine that can run, and os/exec kills*)
(* the process of a cancelled context.  No client is obliged to send, and  *)
(* no lp to come to an end: nothing in the service limits its time.        *)
Progress(h) ==
  \/ CheckRequest(h) \/ CreateTemp(h) \/ CopyPrintFile(h) \/ CloseTemp(h)
  \/ StartLp(h) \/ FinishPrint(h) \/ Respond(h) \/ KillLp(h)

FairSpec == Spec /\ \A h \in Handlers : WF_vars(Progress(h))

-----------------------------------------------------------------------------
(* A handler has its temporary file at these steps.                        *)
Working == {"copy", "close", "submit", "wait"}

TypeOK ==
  /\ pc \in [Handlers -> {"idle", "check", "create", "copy", "close", "submit",
                          "wait", "respond", "done"}]
  /\ doc \in [Handlers -> Documents \cup {None}]
  /\ path \in [Handlers -> Paths \cup {None}]
  /\ outcome \in [Handlers -> Outcomes \cup {None}]
  /\ answer \in [Handlers -> Answers]
  /\ conn \in [Handlers -> {"up", "gone"}]
  /\ files \in [Paths -> Handlers \cup {None}]
  /\ lp \in [Handlers -> {"none", "running", "created", "sent", "exited", "failed"}]
  /\ jobOf \in [Handlers -> JobNumbers \cup {None}]
  /\ spooled \in [JobNumbers -> Handlers \cup {None}]
  /\ crashes \in 0 .. MaxCrashes
  /\ CupsTypeOK

(* While copyPrintFile and PrintDocument have the name of a temporary file *)
(* they still need, the file exists and holds this request's document: no  *)
(* other request writes to it, reads it to the printer, or deletes it.     *)
TempFileIsOwn ==
  \A h \in Handlers :
    pc[h] \in Working /\ path[h] # None => files[path[h]] = h

(* A document that was given to lp is gone from /tmp before the request is *)
(* answered.  The files that outlive the work on their request are those   *)
(* of rejected documents, of a failed copy or Close, and of a crash that   *)
(* kept /tmp.                                                              *)
PrintedFilesRemoved ==
  \A p \in Paths : \A h \in Handlers :
    files[p] = h =>
      \/ pc[h] \in Working
      \/ outcome[h] # "ok"
      \/ CloseFaults /\ lp[h] = "none"
      \/ ~ PrivateTmp /\ crashes > 0

(* A 202 tells the truth: its identifier is the one job CUPS made for this *)
(* request, on the destination the options resolved to, and CUPS holds the *)
(* whole document, which is this client's and nobody else's.               *)
QueuedIsOwnJob ==
  \A h \in Handlers :
    answer[h] = "queued" =>
      /\ jobOf[h] # None
      /\ jobs[jobOf[h]].state \notin {"free", "incoming"}
      /\ spooled[jobOf[h]] = h
      /\ jobs[jobOf[h]].owner = h /\ jobs[jobOf[h]].dest = doc[h].dest

(* CUPS never holds the document of one request in the job of another.     *)
NoMixUp ==
  \A n \in JobNumbers : spooled[n] # None => jobs[n].owner = spooled[n]

(* No lp process outlives the request that started it, whether the request *)
(* ended by an answer, a lost client or a crash.                           *)
NoLpOutlivesRequest == \A h \in Handlers : LpAlive(h) => pc[h] = "wait"

(* A PDF within the configured limit is never refused for its size, at the *)
(* exact limit too, if its other fields fit the room kept for them.  (For a*)
(* limit so near MaxInt that BodyLimit wraps, every document is refused.)  *)
WithinLimitAccepted ==
  \A h \in Handlers :
    ( /\ doc[h] # None
      /\ doc[h].size \in HeaderLen .. MaxUploadBytes
      /\ doc[h].form <= FormRoom )
    => answer[h] \notin {"file_too_large", "empty_document"}

JobsOf(h) == { n \in JobNumbers : Exists(n) /\ jobs[n].owner = h }

Refused(h) == answer[h] \in Codes400 \cup {"file_too_large"}

Reply(h) ==
  IF pc[h] # "done" THEN "none"
  ELSE IF answer[h] = "queued" THEN "queued"
  ELSE IF Refused(h) THEN "refused"
  ELSE "failed"

Submissions == [h \in Handlers |-> Cardinality(JobsOf(h))]

Replies == [h \in Handlers |-> Reply(h)]

(* The handlers, the lp processes, crashes and all implement PrintOnce.    *)
Contract == INSTANCE PrintOnce
              WITH Clients <- Handlers, submitted <- Submissions, reply <- Replies

ImplementsPrintOnce == Contract!Spec

(* A request whose client has gone away is let go, even if lp or CUPS hang *)
(* for ever: the cancelled context kills lp.                               *)
AbandonedIsReleased ==
  \A h \in Handlers : conn[h] = "gone" ~> pc[h] = "done"

(* Every request that was received is answered, unless its lp process      *)
(* hangs for ever.                                                         *)
EveryRequestAnswered ==
  \A h \in Handlers :
    []<>(~ LpAlive(h)) => (pc[h] # "idle" ~> pc[h] = "done")

-----------------------------------------------------------------------------
(* The inductive invariant of module PrintDocumentProofs.  What is known   *)
(* of a handler at each of its steps:                                      *)
ControlInv ==
  \A h \in Handlers :
    /\ pc[h] # "idle" => doc[h] \in Documents
    /\ pc[h] \in {"create"} \cup Working => doc[h].dest \in Dests
    /\ pc[h] \in {"idle", "check", "create"} => path[h] = None
    /\ pc[h] \in {"copy", "submit", "wait"} => path[h] \in Paths
    /\ pc[h] = "close" =>
         outcome[h] # None /\ (path[h] = None <=> outcome[h] # "ok")
    /\ pc[h] \in {"submit", "wait"} => outcome[h] = "ok"
    /\ pc[h] \notin {"wait", "respond", "done"} => lp[h] = "none"
    /\ pc[h] \notin {"respond", "done"} => answer[h] = "none"
    /\ LpAlive(h) => pc[h] = "wait"
    /\ answer[h] = "queued" => lp[h] = "exited"
    /\ Refused(h) => lp[h] = "none"

(* Who owns which file:                                                    *)
FileInv ==
  /\ \A p \in Paths : \A h \in Handlers :
       files[p] = h => path[h] \in {p, None} /\ pc[h] \notin {"idle", "check", "create"}
  /\ TempFileIsOwn
  /\ PrintedFilesRemoved

(* Who owns which job:                                                     *)
JobInv ==
  /\ \A h \in Handlers :
       /\ lp[h] \in {"none", "running"} => jobOf[h] = None
       /\ lp[h] \in {"created", "sent", "exited"} => jobOf[h] # None
       /\ jobOf[h] # None =>
            /\ Exists(jobOf[h])
            /\ jobs[jobOf[h]].owner = h /\ jobs[jobOf[h]].dest = doc[h].dest
       /\ lp[h] \in {"sent", "exited"} =>
            spooled[jobOf[h]] = h /\ jobs[jobOf[h]].state # "incoming"
  /\ \A n \in JobNumbers :
       /\ Exists(n) /\ jobs[n].owner # Foreign => jobOf[jobs[n].owner] = n
       /\ spooled[n] # None => Exists(n) /\ jobs[n].owner = spooled[n]

(* Every step of a handler, of lp, of CUPS and every crash keeps what is   *)
(* known of handlers, files and jobs: the safety properties follow.        *)
IInv == TypeOK /\ ControlInv /\ FileInv /\ JobInv

-----------------------------------------------------------------------------
(* A statement the program does not keep.                                  *)

(* copyPrintFile removes the file of a document it rejects.                *)
NoOrphanFiles ==
  \A p \in Paths : \A h \in Handlers : files[p] = h => InFlight(h)

=============================================================================
