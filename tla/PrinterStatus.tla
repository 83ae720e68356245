--------------------------- MODULE PrinterStatus ----------------------------
(***************************************************************************)
(* GET /printers/{id}/status: one lpstat run, then, for a printer with an  *)
(* ipp_uri, one IPP request to the device, which may take five seconds.    *)
(* The destination and the device change meanwhile, each on its own, so    *)
(* the status combines two moments.                                        *)
(***************************************************************************)
EXTENDS IppReply

CONSTANTS
  PrinterStates, \* of the device: [state, accepting, queued, reasons]
  Replies,       \* what devices may send: [header, items]
  MaxChanges     \* bound on the changes of destination and device, and on
                 \* the failures of lpstat

ASSUME PrinterStatusAssumption ==
  /\ PrinterStates \subseteq
       [state : 3 .. 5, accepting : BOOLEAN, queued : Nat, reasons : Seq(STRING)]
  /\ \A r \in Replies : IsReply(r)
  /\ MaxChanges \in Nat

VARIABLES
  hasURI,    \* whether the configuration gives the printer an ipp_uri
  cups,      \* what lpstat -p would say of the destination
  device,    \* how the device would take an IPP request
  changes,   \* number of changes and failures so far
  pc,        \* "idle", "lpstat" or "probe": what the request does next
  sampled,   \* the CUPS status read by this request
  result,    \* the last answer: [status, cups, responsive, told]; told: what
             \* it says of the device, queued_jobs (a set: none or one), reasons
  seen       \* history: cups and device since the request came in

vars == << hasURI, cups, device, changes, pc, sampled, result, seen >>

-----------------------------------------------------------------------------
(* CUPS and the device, outside the program.                               *)
CupsReports == {"idle", "printing", "disabled", "rejecting", "other"}

Unreachable == {"refused", "no_answer"}

(* No usable answer: TLS trouble, a body that stops in the middle, an HTTP *)
(* error, something that is not IPP, an answer to nothing we asked.        *)
NoIpp == {"broken_connection", "stalled_body", "http_error", "not_ipp"}

(* An IPP header and a status, or attributes that cannot be used.          *)
BadIpp == {"ipp_error", "malformed"}

Conditions == Unreachable \cup NoIpp \cup BadIpp

Devices == [condition : Conditions] \cup [condition : {"answers"}, attrs : PrinterStates]

(* The bodies of the 200 replies a device in this condition may send.      *)
RepliesOf(d) ==
  CASE d.condition = "answers"   -> { r \in Replies : Tells(r, d.attrs) }
    [] d.condition = "not_ipp"   -> { r \in Replies : r.header = "not_ours" }
    [] d.condition = "ipp_error" -> { r \in Replies : r.header = "fault" }
    [] d.condition = "malformed" -> { r \in Replies : r.header = "ok" /\ ~ Readable(r) }
    [] OTHER                     -> {}

(* What readPrinterState may return, with the device it has asked.         *)
ProbeResults ==
  { <<d, [responsive |-> FALSE, error |-> "unreachable"]>> :
      d \in [condition : Unreachable] }
  \cup { <<d, Failed(FALSE)>> : d \in [condition : NoIpp] }
  \cup { <<sent[1], ParsePrinterState(sent[2])>> :
           sent \in UNION { {d} \X RepliesOf(d) : d \in Devices } }

-----------------------------------------------------------------------------
(* Mutant: "is idle" is looked for before "disabled".                      *)
MutClassifyCUPSStatus(report) ==
  CASE report \in {"idle", "disabled"} -> "ready"
    [] report = "rejecting"            -> "unavailable"
    [] report = "printing"             -> "busy"
    [] OTHER                           -> "unknown"

ClassifyCUPSStatus(report) ==
  CASE report \in {"failed", "disabled", "rejecting"} -> "unavailable"
    [] report = "printing"                            -> "busy"
    [] report = "idle"                                -> "ready"
    [] OTHER                                          -> "unknown"

(* Mutant: >= for >.                                                       *)
MutQueueNeverEmpty(attrs, status) ==
  IF attrs.state = 5 \/ ~ attrs.accepting                         THEN "error"
  ELSE IF attrs.state = 4 \/ attrs.queued >= 0 \/ status = "busy" THEN "busy"
  ELSE "starting"

(* classifyPrinterReadiness of an answer that was parsed.                  *)
ClassifyPrinterReadiness(attrs, status) ==
  IF attrs.state = 5 \/ ~ attrs.accepting                        THEN "error"
  ELSE IF attrs.state = 4 \/ attrs.queued > 0 \/ status = "busy" THEN "busy"
  ELSE IF status = "ready"                                       THEN "ready"
  ELSE "starting"

(* Mutant: a device that answers with an error is not told apart from one  *)
(* that answers with its state: the CUPS status is kept.                   *)
MutStatusAfterProbe(probe, status) ==
  CASE probe.error = "unreachable" -> "starting"
    [] probe.error = "other"       -> status
    [] probe.error = "none"        -> ClassifyPrinterReadiness(probe.attrs, status)

StatusAfterProbe(probe, status) ==
  CASE probe.error = "unreachable" -> "starting"
    [] probe.error = "other"       -> "error"
    [] probe.error = "none"        -> ClassifyPrinterReadiness(probe.attrs, status)

-----------------------------------------------------------------------------
(* Without an answer of the device no queued_jobs and no reasons of it.    *)
NotTold == [queued |-> {}, reasons |-> << >>]

Watch(reset) ==
  seen' = [cups   |-> (IF reset THEN {} ELSE seen.cups) \cup {cups'},
           device |-> (IF reset THEN {} ELSE seen.device) \cup {device'}]

Init ==
  /\ hasURI \in BOOLEAN
  /\ cups \in CupsReports
  /\ device \in Devices
  /\ changes = 0
  /\ pc = "idle"
  /\ sampled = "none"
  /\ result = [status |-> "none", cups |-> "none", responsive |-> "omitted",
               told |-> NotTold]
  /\ seen = [cups |-> {cups}, device |-> {device}]

(* A request for a configured printer.  (For any other ID the answer is    *)
(* unavailable at once; nothing is read.)                                  *)
GetPrinterStatus ==
  /\ pc = "idle" /\ pc' = "lpstat"
  /\ UNCHANGED << hasURI, cups, device, changes, sampled, result >>
  /\ Watch(TRUE)

(* lpstat -p <destination> -l, which may fail.                             *)
LpstatSays(report) ==
  \/ report = cups /\ UNCHANGED changes
  \/ report = "failed" /\ changes < MaxChanges /\ changes' = changes + 1

ReadCups ==
  /\ pc = "lpstat"
  /\ \E report \in CupsReports \cup {"failed"} :
       /\ LpstatSays(report)
       /\ LET status == ClassifyCUPSStatus(report) IN
          IF hasURI
            THEN pc' = "probe" /\ sampled' = status /\ UNCHANGED result
            ELSE /\ pc' = "idle" /\ UNCHANGED sampled
                 /\ result' = [status |-> status, cups |-> status,
                               responsive |-> "omitted", told |-> NotTold]
  /\ UNCHANGED << hasURI, cups, device >>
  /\ Watch(FALSE)

(* readPrinterState, and the rest of the handler.                          *)
Probe ==
  /\ pc = "probe" /\ pc' = "idle"
  /\ \E asked \in ProbeResults :
       LET probe == asked[2] IN
       /\ asked[1] = device
       /\ result' = [status     |-> StatusAfterProbe(probe, sampled),
                     cups       |-> sampled,
                     responsive |-> IF probe.responsive THEN "yes" ELSE "no",
                     told       |-> IF probe.error = "none"
                                      THEN [queued  |-> {probe.attrs.queued},
                                            reasons |-> probe.attrs.reasons]
                                      ELSE NotTold]
  /\ UNCHANGED << hasURI, cups, device, changes, sampled >>
  /\ Watch(FALSE)

Change ==
  /\ changes < MaxChanges
  /\ changes' = changes + 1
  /\ \/ cups' \in CupsReports \ {cups} /\ UNCHANGED device
     \/ device' \in Devices \ {device} /\ UNCHANGED cups
  /\ UNCHANGED << hasURI, pc, sampled, result >>
  /\ Watch(FALSE)

Poll == GetPrinterStatus \/ ReadCups \/ Probe

Next == Poll \/ Change

Spec == Init /\ [][Next]_vars

(* The client polls for ever; lpstat and the probe come to an end.         *)
PollingSpec == Spec /\ WF_vars(Poll)

-----------------------------------------------------------------------------
Answered == pc = "idle" /\ result.status # "none"

IdleDevices ==
  { d \in Devices : d.condition = "answers" /\ d.attrs.state = 3
                      /\ d.attrs.accepting /\ d.attrs.queued = 0 }

(* README: "A responsive idle printer and enabled idle CUPS destination    *)
(* are required for ready": each was so at some moment of the request, so  *)
(* a queue that is busy all the time never looks ready.                    *)
ReadyWasIdle ==
  Answered /\ result.status = "ready" =>
    /\ "idle" \in seen.cups
    /\ hasURI => seen.device \cap IdleDevices # {}

(* While the device could not give its state, or was stopped or refusing   *)
(* jobs, no request says ready or busy, whatever CUPS says: a client that  *)
(* prints on ready does not print on a device in trouble.                  *)
TroubleNeverReady ==
  Answered /\ hasURI
    /\ (\A d \in seen.device :
          d.condition = "answers" => d.attrs.state = 5 \/ ~ d.attrs.accepting)
    => result.status \in {"starting", "error"}

(* What is said of the queue and of the reasons, and that the printer is   *)
(* stopped, is what one reply of the device said, never put together from  *)
(* a spoilt one; and however a device that answers orders its attributes,  *)
(* repeats the request's or pads its reply, it is understood.              *)
DeviceReadAsItSaid ==
  Answered /\ hasURI =>
    /\ result.told # NotTold =>
         \E d \in seen.device :
           /\ d.condition = "answers"
           /\ result.told = [queued |-> {d.attrs.queued}, reasons |-> d.attrs.reasons]
           /\ (result.status = "error") = (d.attrs.state = 5 \/ ~ d.attrs.accepting)
    /\ (\A d \in seen.device : d.condition = "answers") => result.told # NotTold

(* The power script starts the printer and waits for ready: when the       *)
(* device and the destination have come up and stay idle, and lpstat fails  *)
(* no more, a client that keeps asking reads ready, and goes on reading it.*)
ReadyInTheEnd ==
  <>[](cups = "idle" /\ device \in IdleDevices) => <>[](result.status = "ready")

=============================================================================
