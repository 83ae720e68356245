---------------------------- MODULE PrintOptions ----------------------------
(***************************************************************************)
(* api.go: how POST /print turns a request into the options of one lp      *)
(* command.  main loads a configuration, or exits; the service then        *)
(* answers requests from it for ever.  The configuration never changes     *)
(* after the start, so requests do not interact here: module PrintDocument *)
(* has the concurrency, this one the decisions a request meets.            *)
(*                                                                         *)
(* A request is a function from the fields the client sent to their        *)
(* values.                                                                 *)
(***************************************************************************)
EXTENDS Config

CONSTANTS
  ConfigFiles,   \* the configurations config.json may hold
  Requests,      \* the requests clients send, decoded
  NoMedia        \* no media chosen: mediaSet is false

(* presetConfig and PrintDocumentReq: the fields that may be given.        *)
OptionFields ==
  {"printerID", "copies", "duplex", "colorMode", "media", "scaling", "edgeToEdge"}

(* What the decoders of JSON and of the form make sure of.                 *)
ASSUME PrintOptionsAssumption ==
  /\ \A c \in ConfigFiles :
       /\ DOMAIN c =
            {"maxUploadBytes", "defaultPrinterID", "printers", "presets"}
       /\ DOMAIN c.printers = 1 .. Len(c.printers)
       /\ DOMAIN c.presets = 1 .. Len(c.presets)
       /\ \A i \in DOMAIN c.presets :
            DOMAIN c.presets[i].options \subseteq OptionFields
  /\ \A req \in Requests : "media" \in DOMAIN req => req.media # NoMedia

VARIABLES
  phase,         \* "loading", "serving" or "exited"
  config,        \* the configuration file, normalised once it is served
  request,       \* the last request answered
  answer         \* "accepted" or the error code of the last answer

vars == << phase, config, request, answer >>

-----------------------------------------------------------------------------
SidesByDuplex ==
  [d \in DuplexModes |->
     CASE d = "none"       -> "one-sided"
       [] d = "long-edge"  -> "two-sided-long-edge"
       [] d = "short-edge" -> "two-sided-short-edge"]

(* What the generated decoder lets through to the handler.                 *)
Decoded(req) ==
  LET Legal(field, values) == field \in DOMAIN req => req[field] \in values
  IN  /\ Legal("copies", 1 .. 99)
      /\ Legal("duplex", DuplexModes)
      /\ Legal("colorMode", ColorModes)
      /\ Legal("scaling", ScalingModes)
      /\ Legal("edgeToEdge", BOOLEAN)

(* newAPIHandler builds the maps printers and presets from the lists: the  *)
(* last element with an id is the one found.                               *)
Find(list, id) ==
  LET found == { i \in DOMAIN list : list[i].id = id }
  IN  list[CHOOSE i \in found : \A j \in found : j <= i]

PresetIds(c) == { c.presets[i].id : i \in DOMAIN c.presets }

Defaults(c) ==
  [printerID |-> c.defaultPrinterID, copies |-> 1, duplex |-> "none",
   colorMode |-> "auto", media |-> NoMedia, scaling |-> "auto",
   edgeToEdge |-> FALSE]

(* applyPreset and applyRequest: a field that is given replaces, any other *)
(* keeps its value.                                                        *)
Overlay(options, given) ==
  [f \in DOMAIN options |-> IF f \in DOMAIN given THEN given[f] ELSE options[f]]

(* Mutant: the preset is applied after the request.                        *)
MutResolve(c, req) ==
  LET base == Overlay(Defaults(c), req)
  IN  IF "preset" \in DOMAIN req
        THEN Overlay(base, Find(c.presets, req.preset).options) ELSE base

Resolve(c, req) ==
  LET base == IF "preset" \in DOMAIN req
                THEN Overlay(Defaults(c), Find(c.presets, req.preset).options)
                ELSE Defaults(c)
  IN  Overlay(base, req)

(* Mutant: duplex is not checked.                                          *)
MutChecks(caps, o) ==
  << [code |-> "unsupported_copies", ok |-> o.copies \in 1 .. caps.maxCopies],
     [code |-> "unsupported_color_mode",
        ok |-> Offers(caps.colorModes, o.colorMode)],
     [code |-> "unsupported_media",
        ok |-> o.media # NoMedia => Offers(caps.media, o.media)],
     [code |-> "unsupported_scaling",
        ok |-> Offers(caps.scalingModes, o.scaling)],
     [code |-> "unsupported_edge_to_edge",
        ok |-> o.edgeToEdge => caps.edgeToEdge # "unsupported"] >>

(* The capability checks, in the order of the code.                        *)
Checks(caps, o) ==
  << [code |-> "unsupported_copies", ok |-> o.copies \in 1 .. caps.maxCopies],
     [code |-> "unsupported_duplex", ok |-> Offers(caps.duplexModes, o.duplex)],
     [code |-> "unsupported_color_mode",
        ok |-> Offers(caps.colorModes, o.colorMode)],
     [code |-> "unsupported_media",
        ok |-> o.media # NoMedia => Offers(caps.media, o.media)],
     [code |-> "unsupported_scaling",
        ok |-> Offers(caps.scalingModes, o.scaling)],
     [code |-> "unsupported_edge_to_edge",
        ok |-> o.edgeToEdge => caps.edgeToEdge # "unsupported"] >>

FirstFailing(checks) ==
  LET failing == { i \in DOMAIN checks : ~ checks[i].ok }
  IN  checks[CHOOSE i \in failing : \A j \in failing : i <= j]

KnownPreset(c, req)  == "preset" \in DOMAIN req => req.preset \in PresetIds(c)
KnownPrinter(c, req) == Resolve(c, req).printerID \in PrinterIds(c)
PrinterFor(c, req)   == Find(c.printers, Resolve(c, req).printerID)
ChecksFor(c, req)    == Checks(PrinterFor(c, req).caps, Resolve(c, req))

Accepts(c, req) ==
  /\ KnownPreset(c, req)
  /\ KnownPrinter(c, req)
  /\ \A i \in DOMAIN ChecksFor(c, req) : ChecksFor(c, req)[i].ok

Verdict(c, req) ==
  IF Accepts(c, req)            THEN "accepted"
  ELSE IF ~ KnownPreset(c, req)  THEN "unknown_preset"
  ELSE IF ~ KnownPrinter(c, req) THEN "unknown_printer"
  ELSE FirstFailing(ChecksFor(c, req)).code

(* The -o options that stand for the resolved ones; lp chooses where an    *)
(* option is left out.                                                     *)
OwnOptions(o) ==
  LET When(cond, name) == IF cond THEN {name} ELSE {}
  IN  [ name \in {"sides"} \cup When(o.colorMode # "auto", "print-color-mode")
                           \cup When(o.media # NoMedia, "media")
                           \cup When(o.scaling # "auto", "print-scaling") |->
          CASE name = "sides"            -> SidesByDuplex[o.duplex]
            [] name = "print-color-mode" -> o.colorMode
            [] name = "media"            -> o.media
            [] name = "print-scaling"    -> o.scaling ]

EdgeOptions(p, o) == IF o.edgeToEdge THEN p.edgeOptions ELSE << >>

(* Mutant: the edge-to-edge options come before the others.                *)
MutLpOptions(p, o) ==
  LET own  == OwnOptions(o)
      edge == EdgeOptions(p, o)
  IN  [ name \in DOMAIN own \cup DOMAIN edge |->
          IF name \in DOMAIN own THEN own[name] ELSE edge[name] ]

(* The -o options of the lp command; where the edge-to-edge options repeat *)
(* a name, theirs come last and lp takes them.                             *)
LpOptions(p, o) ==
  LET own  == OwnOptions(o)
      edge == EdgeOptions(p, o)
  IN  [ name \in DOMAIN own \cup DOMAIN edge |->
          IF name \in DOMAIN edge THEN edge[name] ELSE own[name] ]

LpCommand(c, req) ==
  LET p == PrinterFor(c, req)
      o == Resolve(c, req)
  IN  [dest |-> p.dest, copies |-> o.copies, options |-> LpOptions(p, o)]

(* GET /printers: what a client reads about each printer.                  *)
ListPrinters(c) ==
  [i \in DOMAIN c.printers |->
     [id      |-> c.printers[i].id,
      default |-> c.printers[i].id = c.defaultPrinterID,
      caps    |-> c.printers[i].caps]]

(* Mutant: ListPresets forgets one of the optional fields.                 *)
MutListPresets(c) ==
  [i \in DOMAIN c.presets |->
     [id |-> c.presets[i].id,
      fields |-> [f \in DOMAIN c.presets[i].options \ {"edgeToEdge"} |->
                    c.presets[i].options[f]]]]

(* GET /presets: the fields each preset gives.                             *)
ListPresets(c) ==
  [i \in DOMAIN c.presets |->
     [id |-> c.presets[i].id, fields |-> c.presets[i].options]]

-----------------------------------------------------------------------------
NoRequest == [none |-> TRUE]

Init ==
  /\ phase = "loading"
  /\ config \in ConfigFiles
  /\ request = NoRequest
  /\ answer = "none"

(* main: a configuration that does not validate ends the process.          *)
LoadConfig ==
  /\ phase = "loading"
  /\ IF ValidConfig(config)
       THEN phase' = "serving" /\ config' = Normalize(config)
       ELSE phase' = "exited" /\ config' = config
  /\ UNCHANGED << request, answer >>

HandlePrint(req) ==
  /\ phase = "serving"
  /\ Decoded(req)
  /\ request' = req
  /\ answer' = Verdict(config, req)
  /\ UNCHANGED << phase, config >>

Next == LoadConfig \/ \E req \in Requests : HandlePrint(req)

Spec == Init /\ [][Next]_vars

-----------------------------------------------------------------------------
(* A document sent with no options at all is accepted by every             *)
(* configuration the service starts with: config.validate requires the     *)
(* modes that the defaults of PrintDocument choose.                        *)
BareRequestAccepted ==
  phase = "serving" => Verdict(config, << >>) = "accepted"

(* No preset and no default of an accepted configuration leads to a        *)
(* printer that does not exist: only a request that names a printer itself *)
(* can be answered unknown_printer.                                        *)
PresetNeverMisroutes ==
  answer = "unknown_printer" => "printerID" \in DOMAIN request

(* What an accepted request hands to lp is what GET /printers publishes    *)
(* for the printer, except where the administrator's edge-to-edge options  *)
(* set the option themselves.                                              *)
SubmittedWithinCapabilities ==
  answer = "accepted" =>
    LET cmd    == LpCommand(config, request)
        o      == Resolve(config, request)
        listed == Find(ListPrinters(config), o.printerID).caps
        edge   == DOMAIN EdgeOptions(PrinterFor(config, request), o)
        Within(name, values) ==
          name \in DOMAIN cmd.options \ edge =>
            \E i \in DOMAIN values : values[i] = cmd.options[name]
        sides == [i \in DOMAIN listed.duplexModes |->
                    SidesByDuplex[listed.duplexModes[i]]]
    IN  /\ cmd.copies \in 1 .. listed.maxCopies
        /\ o.edgeToEdge => listed.edgeToEdge # "unsupported"
        /\ "sides" \in DOMAIN cmd.options
        /\ Within("sides", sides)
        /\ Within("print-color-mode", listed.colorModes)
        /\ Within("media", listed.media)
        /\ Within("print-scaling", listed.scalingModes)

(* A field the client sends reaches lp whatever the preset says: the       *)
(* preset fills in only what the request leaves out, and lp's own choice   *)
(* is asked for by leaving the option out.  (Edge-to-edge options in       *)
(* effect may still set the option; a request that refuses them gets none.)*)
ExplicitFieldsWin ==
  answer = "accepted" =>
    LET cmd  == LpCommand(config, request)
        edge == DOMAIN EdgeOptions(PrinterFor(config, request),
                                   Resolve(config, request))
        Sent(name, value) ==
          \/ name \in edge
          \/ name \in DOMAIN cmd.options /\ cmd.options[name] = value
        SentUnlessAuto(name, value) ==
          IF value = "auto" THEN name \in edge \/ name \notin DOMAIN cmd.options
            ELSE Sent(name, value)
    IN  /\ "copies" \in DOMAIN request => cmd.copies = request.copies
        /\ "printerID" \in DOMAIN request =>
             cmd.dest = Find(config.printers, request.printerID).dest
        /\ "duplex" \in DOMAIN request => Sent("sides", SidesByDuplex[request.duplex])
        /\ "colorMode" \in DOMAIN request =>
             SentUnlessAuto("print-color-mode", request.colorMode)
        /\ "media" \in DOMAIN request => Sent("media", request.media)
        /\ "scaling" \in DOMAIN request =>
             SentUnlessAuto("print-scaling", request.scaling)
        /\ "edgeToEdge" \in DOMAIN request /\ ~ request.edgeToEdge =>
             DOMAIN cmd.options \subseteq
               {"sides", "print-color-mode", "media", "print-scaling"}

(* An accepted edge-to-edge request really changes the lp command: the     *)
(* printer has edge-to-edge options and lp gets every one of them, with    *)
(* the administrator's value even where a field of the request sets the    *)
(* same option.                                                            *)
EdgeToEdgeEffective ==
  answer = "accepted" /\ Resolve(config, request).edgeToEdge =>
    LET edge == PrinterFor(config, request).edgeOptions
        sent == LpCommand(config, request).options
    IN  /\ DOMAIN edge # {}
        /\ \A name \in DOMAIN edge : name \in DOMAIN sent /\ sent[name] = edge[name]

(* GET /printers marks exactly one printer as the default, and it is the   *)
(* one a document without options is printed on.                           *)
DefaultIsListed ==
  phase = "serving" =>
    \E i \in DOMAIN ListPrinters(config) :
      /\ \A j \in DOMAIN ListPrinters(config) :
           ListPrinters(config)[j].default <=> j = i
      /\ LpCommand(config, << >>).dest = config.printers[i].dest

(* Naming a preset, and sending the fields GET /presets lists for it, are  *)
(* the same request: the same answer and, if accepted, the same lp command.*)
PresetListingIsFaithful ==
  phase = "serving" =>
    \A i \in DOMAIN ListPresets(config) :
      LET named == [preset |-> ListPresets(config)[i].id]
          spelt == ListPresets(config)[i].fields
      IN  /\ Verdict(config, named) = Verdict(config, spelt)
          /\ Accepts(config, named) =>
               LpCommand(config, named) = LpCommand(config, spelt)

=============================================================================
