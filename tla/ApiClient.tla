----------------------------- MODULE ApiClient ------------------------------
(***************************************************************************)
(* One call of the client ogen generates for the interface, from the       *)
(* caller's Go value over the wire to the handler, and back: how paths and *)
(* forms are written and read, what the handlers of api.go answer for a    *)
(* configuration, how the answer is written, and which answers the client  *)
(* believes.  The caller may give up at any time; the service then may     *)
(* still carry the call out.  A proxy or a newer service may alter the     *)
(* reply.                                                                  *)
(*                                                                         *)
(* Module HttpServer has the stages inside the server, with many requests; *)
(* here they are one step.  (The GETs that net/http sends twice after a    *)
(* lost connection change nothing, so they are left out.)                  *)
(***************************************************************************)
EXTENDS Config, Router, WireFormat

CONSTANTS
  ConfigFiles,   \* the configurations the service may be started with
  Calls,         \* what callers ask: [op, arg, form]
  Failed

(* A parameter is any text, as it is before it is escaped; a form has some *)
(* of its fields, and the lists of a configuration are lists.              *)
ASSUME ApiClientAssumption ==
  /\ \A c \in ConfigFiles :
       /\ {"printers", "presets"} \subseteq DOMAIN c
       /\ \A i \in DOMAIN c.printers :
            LET caps == c.printers[i].caps IN
            {caps.colorModes, caps.duplexModes, caps.media, caps.scalingModes}
              \subseteq Seq(STRING)
  /\ \A c \in Calls :
       /\ c = [op |-> c.op, arg |-> c.arg, form |-> c.form]
       /\ c.op \in { t.op : t \in Documented }
       /\ IF c.op \in Parameterised
            THEN c.arg \in Seq(STRING) /\ "%2F" \notin ToSet(c.arg)
            ELSE c.arg = << >>
       /\ c.form = [name \in DOMAIN c.form |-> c.form[name]]
       /\ DOMAIN c.form \subseteq { f.name : f \in ToSet(PrintDocumentReq.of) }
       /\ "copies" \in DOMAIN c.form => c.form.copies \in FormNumbers
       /\ "edge_to_edge" \in DOMAIN c.form => c.form.edge_to_edge \in BOOLEAN

Nothing == << >>

VARIABLES
  config,   \* what the service serves
  phase,    \* of the call: "idle", "waiting" or "closed"
  call,     \* what the caller asked, Nothing before
  key,      \* what its security source gives: "right", "wrong" or "skip"
  wire,     \* the request on its way to the service, or Nothing
  upload,   \* of the body of a print request: "whole", "large" if it is over
            \* the limit of the body, or "lost" if it breaks off on its way or
            \* /tmp has no room for it
  given,    \* what the handler was given, or Nothing
  said,     \* what the service said, <<type, value>>, or Nothing
  reply,    \* the answer on its way back, or Nothing
  transit,  \* the reply so far: "intact", "changed" in a way that says the
            \* same, or "harmed"
  result    \* what the caller was told: <<type, value>>, Nothing or Failed

vars ==
  << config, phase, call, key, wire, upload, given, said, reply, transit, result >>

-----------------------------------------------------------------------------
(* The client: the request.                                                *)

(* Mutant: a slash in a parameter is not escaped.                          *)
MutEscape(arg) == arg

Escape(arg) == [i \in DOMAIN arg |-> IF arg[i] = "/" THEN "%2F" ELSE arg[i]]

PathOf(op, arg) ==
  CASE op = "healthCheck"      -> <<"/", "healthz">>
    [] op = "listPrinters"     -> <<"/", "pr", "int", "ers">>
    [] op = "listPresets"      -> <<"/", "pr", "esets">>
    [] op = "printDocument"    -> <<"/", "pr", "int">>
    [] op = "getPrintJob"      -> <<"/", "jobs", "/">> \o Escape(arg)
    [] op = "getPrinterStatus" ->
         <<"/", "pr", "int", "ers", "/">> \o Escape(arg) \o <<"/", "status">>

(* The statuses an operation answers with, and the type each one carries.  *)
Statuses(op) == IF op = "printDocument" THEN {202, 400, 413, 500} ELSE {200}

PrintReplyType(status) ==
  CASE status = 202 -> <<"PrintJob", PrintJob>>
    [] status = 400 -> <<"PrintDocumentBadRequest", Error>>
    [] status = 413 -> <<"PrintDocumentRequestEntityTooLarge", Error>>
    [] status = 500 -> <<"PrintDocumentInternalServerError", Error>>

ReplyType(op, status) ==
  CASE op = "healthCheck"      -> <<"HealthStatus", HealthStatus>>
    [] op = "listPrinters"     -> <<"PrinterList", PrinterList>>
    [] op = "listPresets"      -> <<"PrintPresetList", PrintPresetList>>
    [] op = "getPrintJob"      -> <<"PrintJobState", PrintJobState>>
    [] op = "getPrinterStatus" -> <<"PrinterStatus", PrinterStatus>>
    [] op = "printDocument"    -> PrintReplyType(status)

(* Mutant: what was decoded is not validated.                              *)
MutRead(op, r) ==
  LET type == ReplyType(op, r.status) IN
  IF r.status \in Statuses(op) /\ r.json /\ Decodes(type[2], r.body)
    THEN <<type[1], Decode(type[2], r.body)>> ELSE Failed

(* decode...Response: the status, the content type, the body, its values.  *)
Read(op, r) ==
  LET type == ReplyType(op, r.status) IN
  IF /\ r.status \in Statuses(op) /\ r.json
     /\ Decodes(type[2], r.body) /\ Valid(type[2], Decode(type[2], r.body))
    THEN <<type[1], Decode(type[2], r.body)>> ELSE Failed

-----------------------------------------------------------------------------
(* The service: the values the handlers of api.go put together.            *)
OptionOf ==
  [printer_id |-> "printerID", copies |-> "copies", duplex |-> "duplex",
   color_mode |-> "colorMode", media |-> "media", scaling |-> "scaling",
   edge_to_edge |-> "edgeToEdge"]

PresetValue(p) ==
  LET set == { name \in DOMAIN OptionOf : OptionOf[name] \in DOMAIN p.options }
  IN  [name \in {"id"} \cup set |->
         IF name = "id" THEN p.id ELSE p.options[OptionOf[name]]]

(* The display name is free text; the identifier stands for it.            *)
PrinterValue(p) ==
  [id |-> p.id, display_name |-> p.id, default |-> p.id = config.defaultPrinterID,
   capabilities |->
     [color_modes |-> p.caps.colorModes, duplex_modes |-> p.caps.duplexModes,
      media |-> p.caps.media, scaling_modes |-> p.caps.scalingModes,
      edge_to_edge |-> p.caps.edgeToEdge, max_copies |-> p.caps.maxCopies]]

Configured(arg) == \E i \in DOMAIN config.printers : arg = <<config.printers[i].id>>

(* Printer status: unknown printer, CUPS alone, a failed probe, a state    *)
(* without and with reasons.                                               *)
StatusValues(arg) ==
  LET cups == {"ready", "busy", "unavailable", "unknown"}
  IN  IF ~ Configured(arg)
        THEN { [printer_id |-> arg, status |-> "unavailable", message |-> "text"] }
        ELSE { [printer_id |-> arg, status |-> s, message |-> "text",
                cups_status |-> s] : s \in cups }
          \cup [printer_id : {arg}, status : {"starting", "error"}, message : {"text"},
                cups_status : cups, responsive : BOOLEAN, reasons : {<<"text">>}]
          \cup [printer_id : {arg}, status : {"ready", "busy", "starting", "error"},
                message : {"text"}, cups_status : cups, responsive : {TRUE},
                queued_jobs : {0, 2}]
          \cup [printer_id : {arg}, status : {"ready", "busy", "starting", "error"},
                message : {"text"}, cups_status : cups, responsive : {TRUE},
                queued_jobs : {0, 2}, reasons : {<<"paused", "media-empty">>}]

JobValues(arg) ==
  { [job_id |-> arg, status |-> "unknown", message |-> "text"] }
    \cup [job_id : {arg}, message : {"text"}, printer_id : PrinterIds(config),
          status : {"queued", "processing", "completed", "canceled", "aborted", "unknown"}]

ErrorValue(code) == [code |-> code, message |-> "text"]

PrintValues ==
  { <<"PrintJob", [job_id |-> "job-7", printer_id |-> config.printers[i].id,
                   status |-> "queued"]>> : i \in DOMAIN config.printers }
    \cup { <<"PrintDocumentBadRequest", ErrorValue(c)>> :
             c \in {"unknown_printer", "unsupported_copies", "invalid_pdf"} }
    \cup { <<"PrintDocumentRequestEntityTooLarge", ErrorValue("file_too_large")>>,
           <<"PrintDocumentInternalServerError", ErrorValue("cups_error")>> }

HandlerAnswers(op, arg) ==
  CASE op = "healthCheck"  -> {<<"HealthStatus", [status |-> "ok"]>>}
    [] op = "listPrinters" ->
         {<<"PrinterList", [printers |-> [i \in DOMAIN config.printers |->
                                            PrinterValue(config.printers[i])]]>>}
    [] op = "listPresets"  ->
         {<<"PrintPresetList", [presets |-> [i \in DOMAIN config.presets |->
                                               PresetValue(config.presets[i])]]>>}
    [] op = "getPrintJob"      -> {"PrintJobState"} \X JobValues(arg)
    [] op = "getPrinterStatus" -> {"PrinterStatus"} \X StatusValues(arg)
    [] op = "printDocument"    -> PrintValues

(* encode...Response: the status of a type, and its JSON.                  *)
StatusOf(name) ==
  CASE name = "PrintJob"                           -> 202
    [] name = "PrintDocumentBadRequest"            -> 400
    [] name = "PrintDocumentRequestEntityTooLarge" -> 413
    [] name = "PrintDocumentInternalServerError"   -> 500
    [] OTHER                                       -> 200

Written(op, answer) ==
  LET status == StatusOf(answer[1])
  IN  [status |-> status, json |-> TRUE,
       body |-> Encode(ReplyType(op, status)[2], answer[2])]

-----------------------------------------------------------------------------
Init ==
  /\ config \in { Normalize(c) : c \in { c \in ConfigFiles : ValidConfig(c) } }
  /\ phase = "idle" /\ key \in {"right", "wrong", "skip"}
  /\ call = Nothing /\ wire = Nothing /\ given = Nothing
  /\ said = Nothing /\ reply = Nothing /\ result = Nothing
  /\ upload = "whole" /\ transit = "intact"

(* Without a key the client does not send a request that needs one.        *)
Send(c) ==
  /\ phase = "idle" /\ call' = c
  /\ IF c.op # "healthCheck" /\ key = "skip"
       THEN phase' = "closed" /\ result' = Failed /\ UNCHANGED wire
       ELSE /\ phase' = "waiting"
            /\ wire' = [method |-> MethodOf(c.op), path |-> PathOf(c.op, c.arg),
                        form |-> EncodeForm(c.form)]
            /\ UNCHANGED result
  /\ upload' \in IF c.op = "printDocument" THEN {"whole", "large", "lost"} ELSE {"whole"}
  /\ UNCHANGED << config, key, given, said, reply, transit >>

(* The service turns the request down before the handler: the mux and the  *)
(* router in plain text, the rest by apiErrorHandler.                      *)
Refuse(status, json, code) ==
  /\ reply' = [status |-> status, json |-> json,
               body |-> Encode(Error, ErrorValue(code))]
  /\ said'  = << CASE status = 400 -> "PrintDocumentBadRequest"
                   [] status = 413 -> "PrintDocumentRequestEntityTooLarge"
                   [] OTHER        -> "refused",
                 ErrorValue(code) >>
  /\ UNCHANGED given

(* Server.ServeHTTP up to the encoded answer.  A body over its limit, one  *)
(* that breaks off and one /tmp has no room for fail in ParseMultipartForm.*)
(* The mux sends the caller of a path with dots on to one that is refused. *)
Serve ==
  LET found == Route(wire.path)
      arg   == Unescape(found.arg)
      form  == DecodeForm(wire.form)
      allowed == found.op = "healthCheck" \/ key = "right"
      decoded == /\ found.op \in Parameterised => arg # << >>
                 /\ found.op = "printDocument" =>
                      upload # "lost" /\ Valid(PrintDocumentReq, form)
  IN  /\ wire # Nothing /\ wire' = Nothing
      /\ IF ~ IsClean(wire.path) \/ found.op = "none" THEN Refuse(404, FALSE, "none")
         ELSE IF ~ allowed THEN Refuse(401, TRUE, "unauthorized")
         ELSE IF found.op = "printDocument" /\ upload = "large"
           THEN Refuse(413, TRUE, "file_too_large")
         ELSE IF ~ decoded THEN Refuse(400, TRUE, "invalid_request")
         ELSE /\ given' = [op |-> found.op, arg |-> arg, form |-> form]
              /\ \E answer \in HandlerAnswers(found.op, arg) :
                   said' = answer /\ reply' = Written(found.op, answer)
      /\ UNCHANGED << config, phase, call, key, upload, transit, result >>

(* What may be between the service and the client: a reply that breaks     *)
(* off, a proxy's own page, a newer service that knows more members or     *)
(* values, or an other one that leaves out or retypes a required member.   *)
VariantsLeaf(type, json) ==
  IF type.kind = "enum" THEN { [body |-> <<"string", "newer">>, harm |-> TRUE] } ELSE {}

VariantsOne(Below(_, _), type, json) ==
  IF type.kind = "object" THEN Below(type, json) ELSE VariantsLeaf(type, json)

VariantsField(Below(_, _), type, json) ==
  IF type.kind = "list"
    THEN UNION { { [body |-> <<"array", [json[2] EXCEPT ![i] = v.body]>>, harm |-> v.harm] :
                     v \in VariantsOne(Below, type.of, json[2][i]) } : i \in DOMAIN json[2] }
    ELSE VariantsOne(Below, type, json)

VariantsStruct(Below(_, _), type, json) ==
  LET m == Members(json)
      IsRequired(name) == \E k \in DOMAIN type.of :
                            type.of[k].name = name /\ type.of[k].required
      With(i, body, harm) ==
        [body |-> <<"object", [m EXCEPT ![i] = <<m[i][1], body>>]>>, harm |-> harm]
  IN  { [body |-> <<"object", <<<<"newer", Null>>>> \o m>>, harm |-> FALSE],
        [body |-> <<"object", Reverse(m)>>, harm |-> FALSE] }
        \cup { [body |-> <<"object", RemoveAt(m, i)>>, harm |-> TRUE] :
                 i \in { i \in DOMAIN m : IsRequired(m[i][1]) } }
        \cup { With(i, Null, TRUE) : i \in DOMAIN m }
        \cup UNION { { With(i, v.body, v.harm) :
                         v \in VariantsField(Below, TypeOf(type, m[i][1]), m[i][2]) } :
                       i \in DOMAIN m }

Variants1(type, json) == VariantsStruct(VariantsLeaf, type, json)
Variants2(type, json) == VariantsStruct(Variants1, type, json)
Variants(type, json)  == VariantsStruct(Variants2, type, json)

Alter ==
  /\ phase = "waiting" /\ reply # Nothing /\ transit = "intact"
  /\ \/ reply' = [reply EXCEPT !.body = Broken] /\ transit' = "harmed"
     \/ reply' = [status |-> 502, json |-> FALSE, body |-> Broken] /\ transit' = "harmed"
     \/ /\ reply.status \in Statuses(call.op)
        /\ \E v \in Variants(ReplyType(call.op, reply.status)[2], reply.body) :
             /\ reply' = [reply EXCEPT !.body = v.body]
             /\ transit' = IF v.harm THEN "harmed" ELSE "changed"
  /\ UNCHANGED << config, phase, call, key, wire, upload, given, said, result >>

Receive ==
  /\ phase = "waiting" /\ reply # Nothing
  /\ phase' = "closed" /\ reply' = Nothing
  /\ result' = Read(call.op, reply)
  /\ UNCHANGED << config, call, key, wire, upload, given, said, transit >>

(* The context of the call ends, or its connection.                        *)
GiveUp ==
  /\ phase = "waiting"
  /\ phase' = "closed" /\ result' = Failed /\ transit' = "harmed"
  /\ UNCHANGED << config, call, key, wire, upload, given, said, reply >>

Next == Serve \/ Alter \/ Receive \/ GiveUp \/ \E c \in Calls : Send(c)

Spec == Init /\ [][Next]_vars

-----------------------------------------------------------------------------
(* A caller is told exactly what the service said of this very call, a     *)
(* false, an empty and a missing value told apart, or that the call        *)
(* failed, when the service may or may not have carried it out; a reply    *)
(* that is not what the service wrote is not believed.                     *)
Remote == INSTANCE RemoteCall WITH
  asked <- call, carried <- given, told <- result

ImplementsRemoteCall == Remote!Spec

(* The identifiers no request can carry: an empty one is not allowed, and  *)
(* the mux takes "." and ".." for steps in the path.                       *)
NoSegment == { << >>, <<".">>, <<".", ".">> }

MayBeRefused ==
  \/ call.op = "printDocument" /\ upload # "whole"
  \/ call.op \in Parameterised /\ call.arg \in NoSegment
  \/ ~ Valid(PrintDocumentReq, call.form)

(* The handler of the operation is given the very identifier and form the  *)
(* caller meant.  Without being given them, a request with the right key   *)
(* is refused only for a value openapi.yaml does not allow, for one of the *)
(* identifiers "." and "..", or for a body that is over its limit, breaks  *)
(* off or finds no room in /tmp.                                           *)
RequestReadAsMeant ==
  said # Nothing /\ (key = "right" \/ call.op = "healthCheck") =>
    \/ given = call
    \/ given = Nothing /\ MayBeRefused

(* Whatever configuration the service was able to start with, and whatever *)
(* its handlers say, its own client understands it: config.validate, the   *)
(* handlers and the validators of the client draw the same limits.  A      *)
(* newer service that adds members is understood too.                      *)
EveryReplyAccepted ==
  phase = "closed" /\ given # Nothing /\ transit # "harmed" => result = said

=============================================================================
