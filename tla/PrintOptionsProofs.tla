------------------------- MODULE PrintOptionsProofs -------------------------
(***************************************************************************)
(* The options of POST /print for every configuration file, however many   *)
(* printers, presets and options it has, and for every request.            *)
(*                                                                         *)
(* What config.validate has made sure of is enough for every decision of   *)
(* the handler: the proofs go from the valid file to the map lookups, from *)
(* those to the resolved options, and from the checks to the command.      *)
(***************************************************************************)
EXTENDS PrintOptions, TLAPS

(* What is known of a configuration the service has started with.          *)
Served(c) ==
  /\ DOMAIN c.printers = 1 .. Len(c.printers)
  /\ DOMAIN c.presets = 1 .. Len(c.presets)
  /\ \A i \in DOMAIN c.presets : DOMAIN c.presets[i].options \subseteq OptionFields
  /\ \A i \in DOMAIN c.printers : ValidPrinter(c.printers[i])
  /\ \A i \in DOMAIN c.presets : ValidPreset(c.presets[i], PrinterIds(c))
  /\ DistinctIds(c.printers) /\ DistinctIds(c.presets)
  /\ c.defaultPrinterID \in PrinterIds(c)

OptionsInv ==
  /\ phase \in {"loading", "serving", "exited"}
  /\ phase = "loading" => config \in ConfigFiles
  /\ phase = "serving" => Served(config)
  /\ answer # "none" =>
       /\ phase = "serving" /\ request \in Requests /\ Decoded(request)
       /\ answer = Verdict(config, request)

-----------------------------------------------------------------------------
(* A file that validates is served with its defaults filled in.            *)
LEMMA ValidIsServed ==
  ASSUME NEW c \in ConfigFiles, ValidConfig(c)
  PROVE  Served(Normalize(c))
<1> DEFINE n == Normalize(c)
<1>1. n.printers = c.printers /\ n.presets = c.presets
  BY PrintOptionsAssumption DEF Normalize
<1>2. PrinterIds(n) = PrinterIds(c)
  BY <1>1 DEF PrinterIds
<1> QED
  BY <1>1, <1>2, PrintOptionsAssumption DEF Served, ValidConfig

(* Ids are distinct, so the maps of newAPIHandler find the one element     *)
(* with an id.                                                             *)
LEMMA FindDistinct ==
  ASSUME NEW list, DOMAIN list = 1 .. Len(list), DistinctIds(list),
         NEW i \in DOMAIN list
  PROVE  Find(list, list[i].id) = list[i]
<1> DEFINE found == { j \in DOMAIN list : list[j].id = list[i].id }
<1>1. found = {i}
  BY DEF DistinctIds
<1>2. i <= i
  OBVIOUS
<1>3. (CHOOSE k \in found : \A j \in found : j <= k) = i
  BY <1>1, <1>2
<1> QED
  BY <1>3 DEF Find

(* Every printer that is found is one of the configuration, and valid.     *)
LEMMA FindPrinter ==
  ASSUME NEW c, Served(c), NEW id \in PrinterIds(c)
  PROVE  \E i \in DOMAIN c.printers :
           /\ c.printers[i].id = id /\ Find(c.printers, id) = c.printers[i]
           /\ ValidPrinter(Find(c.printers, id))
<1>1. PICK i \in DOMAIN c.printers : c.printers[i].id = id
  BY DEF PrinterIds
<1>2. Find(c.printers, id) = c.printers[i]
  BY <1>1, FindDistinct DEF Served
<1> QED
  BY <1>1, <1>2 DEF Served

(* Every preset that is found is one of the configuration, and valid.      *)
LEMMA FindPreset ==
  ASSUME NEW c, Served(c), NEW id \in PresetIds(c)
  PROVE  \E i \in DOMAIN c.presets :
           /\ Find(c.presets, id) = c.presets[i]
           /\ ValidPreset(Find(c.presets, id), PrinterIds(c))
<1>1. PICK i \in DOMAIN c.presets : c.presets[i].id = id
  BY DEF PresetIds
<1>2. Find(c.presets, id) = c.presets[i]
  BY <1>1, FindDistinct DEF Served
<1> QED
  BY <1>2 DEF Served

(* The options are resolved field by field: the request's own, the         *)
(* preset's, the default.                                                  *)
LEMMA Resolved ==
  ASSUME NEW c, NEW req, NEW f \in OptionFields
  PROVE  /\ DOMAIN Resolve(c, req) = OptionFields
         /\ f \in DOMAIN req => Resolve(c, req)[f] = req[f]
         /\ f \notin DOMAIN req =>
              \/ Resolve(c, req)[f] = Defaults(c)[f]
              \/ /\ "preset" \in DOMAIN req
                 /\ f \in DOMAIN Find(c.presets, req.preset).options
                 /\ Resolve(c, req)[f] = Find(c.presets, req.preset).options[f]
<1>1. DOMAIN Defaults(c) = OptionFields
  BY DEF Defaults, OptionFields
<1> DEFINE base == IF "preset" \in DOMAIN req
                     THEN Overlay(Defaults(c), Find(c.presets, req.preset).options)
                     ELSE Defaults(c)
<1>2. /\ DOMAIN base = OptionFields
      /\ \/ base[f] = Defaults(c)[f]
         \/ /\ "preset" \in DOMAIN req
            /\ f \in DOMAIN Find(c.presets, req.preset).options
            /\ base[f] = Find(c.presets, req.preset).options[f]
  BY <1>1 DEF Overlay
<1>3. Resolve(c, req) = Overlay(base, req)
  BY DEF Resolve
<1> HIDE DEF base
<1> QED
  BY <1>2, <1>3 DEF Overlay

(* A request without options is resolved to the defaults.                  *)
LEMMA ResolvedBare ==
  ASSUME NEW c
  PROVE  Resolve(c, << >>) = Defaults(c)
<1>1. DOMAIN << >> = {}
  OBVIOUS
<1>2. Defaults(c) = [f \in DOMAIN Defaults(c) |-> Defaults(c)[f]]
  BY DEF Defaults
<1> QED
  BY <1>1, <1>2 DEF Resolve, Overlay

-----------------------------------------------------------------------------
(* The six checks of the handler, one by one.                              *)
LEMMA SixChecks ==
  ASSUME NEW caps, NEW o
  PROVE  /\ DOMAIN Checks(caps, o) = 1 .. 6
         /\ Checks(caps, o)[1].ok = (o.copies \in 1 .. caps.maxCopies)
         /\ Checks(caps, o)[2].ok = Offers(caps.duplexModes, o.duplex)
         /\ Checks(caps, o)[3].ok = Offers(caps.colorModes, o.colorMode)
         /\ Checks(caps, o)[4].ok =
              (o.media # NoMedia => Offers(caps.media, o.media))
         /\ Checks(caps, o)[5].ok = Offers(caps.scalingModes, o.scaling)
         /\ Checks(caps, o)[6].ok = (o.edgeToEdge => caps.edgeToEdge # "unsupported")
         /\ \A i \in 1 .. 6 :
              Checks(caps, o)[i].code \notin {"accepted", "none", "unknown_printer"}
BY DEF Checks

(* A request is refused with the code of the first check that fails.       *)
LEMMA FirstFails ==
  ASSUME NEW caps, NEW o, NEW k \in 1 .. 6, ~ Checks(caps, o)[k].ok
  PROVE  FirstFailing(Checks(caps, o)).code
           \notin {"accepted", "none", "unknown_printer"}
<1> DEFINE checks == Checks(caps, o)
           failing == { i \in DOMAIN checks : ~ checks[i].ok }
<1>1. DOMAIN checks = 1 .. 6
  BY SixChecks
<1>2. k \in failing /\ failing \subseteq 1 .. 6
  BY <1>1
<1> HIDE DEF checks, failing
<1>3. \E i \in failing : \A j \in failing : i <= j
  BY <1>2
<1>4. (CHOOSE i \in failing : \A j \in failing : i <= j) \in 1 .. 6
  BY <1>2, <1>3
<1> QED
  BY <1>4, SixChecks DEF FirstFailing, checks, failing

(* The verdict is "accepted" for the requests the handler accepts only,    *)
(* and "unknown_printer" when only the lookup of the printer failed.       *)
LEMMA VerdictMeans ==
  ASSUME NEW c, NEW req
  PROVE  /\ Verdict(c, req) = "accepted" <=> Accepts(c, req)
         /\ Verdict(c, req) # "none"
         /\ Verdict(c, req) = "unknown_printer" =>
              KnownPreset(c, req) /\ ~ KnownPrinter(c, req)
<1>1. CASE Accepts(c, req)
  BY <1>1 DEF Verdict
<1>2. CASE ~ Accepts(c, req) /\ KnownPreset(c, req) /\ KnownPrinter(c, req)
  <2>1. PICK k \in 1 .. 6 : ~ ChecksFor(c, req)[k].ok
    BY <1>2, SixChecks DEF Accepts, ChecksFor
  <2>2. FirstFailing(ChecksFor(c, req)).code
          \notin {"accepted", "none", "unknown_printer"}
    BY <2>1, FirstFails DEF ChecksFor
  <2> QED
    BY <1>2, <2>2 DEF Verdict
<1>3. CASE ~ KnownPreset(c, req) \/ ~ KnownPrinter(c, req)
  BY <1>3 DEF Verdict, Accepts
<1> QED
  BY <1>1, <1>2, <1>3

(* What an accepted request has passed.                                    *)
LEMMA AcceptedMeans ==
  ASSUME NEW c, NEW req, Served(c), Accepts(c, req)
  PROVE  LET o    == Resolve(c, req)
             p    == PrinterFor(c, req)
             caps == p.caps
         IN  /\ o.printerID \in PrinterIds(c) /\ ValidPrinter(p)
             /\ o.copies \in 1 .. caps.maxCopies
             /\ Offers(caps.duplexModes, o.duplex)
             /\ Offers(caps.colorModes, o.colorMode)
             /\ o.media # NoMedia => Offers(caps.media, o.media)
             /\ Offers(caps.scalingModes, o.scaling)
             /\ o.edgeToEdge => caps.edgeToEdge # "unsupported"
<1> DEFINE o == Resolve(c, req)
           p == PrinterFor(c, req)
<1>1. o.printerID \in PrinterIds(c)
  BY DEF Accepts, KnownPrinter
<1>2. ValidPrinter(p)
  BY <1>1, FindPrinter DEF PrinterFor
<1>3. \A i \in 1 .. 6 : Checks(p.caps, o)[i].ok
  BY SixChecks DEF Accepts, ChecksFor
<1> HIDE DEF o, p
<1>4. /\ Checks(p.caps, o)[1].ok /\ Checks(p.caps, o)[2].ok
      /\ Checks(p.caps, o)[3].ok /\ Checks(p.caps, o)[4].ok
      /\ Checks(p.caps, o)[5].ok /\ Checks(p.caps, o)[6].ok
  BY <1>3
<1>5. /\ o.copies \in 1 .. p.caps.maxCopies
      /\ Offers(p.caps.duplexModes, o.duplex)
      /\ Offers(p.caps.colorModes, o.colorMode)
      /\ o.media # NoMedia => Offers(p.caps.media, o.media)
      /\ Offers(p.caps.scalingModes, o.scaling)
      /\ o.edgeToEdge => p.caps.edgeToEdge # "unsupported"
  BY <1>4, SixChecks
<1> QED
  BY <1>1, <1>2, <1>5 DEF o, p

(* The lp options, name by name: the administrator's, else those of the    *)
(* resolved options.                                                       *)
LEMMA LpOptionsMeans ==
  ASSUME NEW p, NEW o
  PROVE  LET edge == EdgeOptions(p, o)
             lp   == LpOptions(p, o)
         IN  /\ DOMAIN lp = DOMAIN OwnOptions(o) \cup DOMAIN edge
             /\ "sides" \in DOMAIN OwnOptions(o)
             /\ \A name \in DOMAIN OwnOptions(o) :
                  name \in {"sides", "print-color-mode", "media", "print-scaling"}
             /\ "print-color-mode" \in DOMAIN OwnOptions(o) <=> o.colorMode # "auto"
             /\ "media" \in DOMAIN OwnOptions(o) <=> o.media # NoMedia
             /\ "print-scaling" \in DOMAIN OwnOptions(o) <=> o.scaling # "auto"
             /\ \A name \in DOMAIN edge : lp[name] = edge[name]
             /\ \A name \in DOMAIN lp \ DOMAIN edge :
                  /\ name \in DOMAIN OwnOptions(o)
                  /\ name = "sides" => lp[name] = SidesByDuplex[o.duplex]
                  /\ name = "print-color-mode" => lp[name] = o.colorMode
                  /\ name = "media" => lp[name] = o.media
                  /\ name = "print-scaling" => lp[name] = o.scaling
<1>1. /\ DOMAIN OwnOptions(o) =
           {"sides"} \cup (IF o.colorMode # "auto" THEN {"print-color-mode"} ELSE {})
             \cup (IF o.media # NoMedia THEN {"media"} ELSE {})
             \cup (IF o.scaling # "auto" THEN {"print-scaling"} ELSE {})
      /\ \A name \in DOMAIN OwnOptions(o) :
           /\ name = "sides" => OwnOptions(o)[name] = SidesByDuplex[o.duplex]
           /\ name = "print-color-mode" => OwnOptions(o)[name] = o.colorMode
           /\ name = "media" => OwnOptions(o)[name] = o.media
           /\ name = "print-scaling" => OwnOptions(o)[name] = o.scaling
  BY DEF OwnOptions
<1> QED
  BY <1>1 DEF LpOptions

-----------------------------------------------------------------------------
(* The inductive invariant: the service runs with a valid configuration,   *)
(* and the last answer is the verdict of that configuration.               *)
THEOREM Invariance == Spec => []OptionsInv
<1>1. Init => OptionsInv
  BY DEF Init, OptionsInv
<1>2. OptionsInv /\ [Next]_vars => OptionsInv'
  <2> SUFFICES ASSUME OptionsInv, [Next]_vars PROVE OptionsInv'
    OBVIOUS
  <2>1. CASE LoadConfig
    <3>1. ValidConfig(config) => Served(Normalize(config))
      BY <2>1, ValidIsServed DEF OptionsInv, LoadConfig
    <3> QED
      BY <2>1, <3>1 DEF OptionsInv, LoadConfig
  <2>2. ASSUME NEW req \in Requests, HandlePrint(req) PROVE OptionsInv'
    BY <2>2 DEF OptionsInv, HandlePrint
  <2>3. CASE UNCHANGED vars
    BY <2>3 DEF OptionsInv, vars
  <2> QED
    BY <2>1, <2>2, <2>3 DEF Next
<1> QED
  BY <1>1, <1>2, PTL DEF Spec

(* An accepted answer is to a request the configuration accepts.           *)
LEMMA AcceptedInv ==
  ASSUME OptionsInv, answer = "accepted"
  PROVE  /\ Served(config) /\ Accepts(config, request)
         /\ request \in Requests /\ Decoded(request)
BY VerdictMeans DEF OptionsInv

(* Every configuration the service starts with accepts a request that      *)
(* gives nothing but the document.                                         *)
LEMMA BareIsAccepted ==
  ASSUME NEW c, Served(c)
  PROVE  Accepts(c, << >>)
<1> DEFINE o == Defaults(c)
           p == Find(c.printers, c.defaultPrinterID)
<1>1. Resolve(c, << >>) = o
  BY ResolvedBare
<1>2. o.printerID = c.defaultPrinterID /\ ValidPrinter(p)
  BY FindPrinter DEF Served, Defaults
<1>3. KnownPreset(c, << >>) /\ KnownPrinter(c, << >>) /\ PrinterFor(c, << >>) = p
  BY <1>1, <1>2 DEF KnownPreset, KnownPrinter, PrinterFor, Served
<1>4. /\ o.copies = 1 /\ o.duplex = "none" /\ o.colorMode = "auto"
      /\ o.media = NoMedia /\ o.scaling = "auto" /\ o.edgeToEdge = FALSE
  BY DEF Defaults
<1> HIDE DEF o, p
<1>5. /\ Checks(p.caps, o)[1].ok /\ Checks(p.caps, o)[2].ok
      /\ Checks(p.caps, o)[3].ok /\ Checks(p.caps, o)[4].ok
      /\ Checks(p.caps, o)[5].ok /\ Checks(p.caps, o)[6].ok
  <2>1. /\ p.caps.maxCopies \in 1 .. 99 /\ Offers(p.caps.duplexModes, "none")
        /\ Offers(p.caps.colorModes, "auto") /\ Offers(p.caps.scalingModes, "auto")
    BY <1>2 DEF ValidPrinter, ValidCapabilities
  <2>2. Checks(p.caps, o)[1].ok
    <3>1. o.copies \in 1 .. p.caps.maxCopies
      BY <1>4, <2>1
    <3>2. Checks(p.caps, o)[1].ok = (o.copies \in 1 .. p.caps.maxCopies)
      BY SixChecks
    <3> QED
      BY <3>1, <3>2, Zenon
  <2>3. Checks(p.caps, o)[2].ok
    BY <1>4, <2>1, SixChecks
  <2>4. Checks(p.caps, o)[3].ok
    BY <1>4, <2>1, SixChecks
  <2>5. Checks(p.caps, o)[4].ok
    BY <1>4, <2>1, SixChecks
  <2>6. Checks(p.caps, o)[5].ok
    BY <1>4, <2>1, SixChecks
  <2>7. Checks(p.caps, o)[6].ok
    BY <1>4, <2>1, SixChecks
  <2> QED
    BY <2>2, <2>3, <2>4, <2>5, <2>6, <2>7
<1>6. \A i \in 1 .. 6 : Checks(p.caps, o)[i].ok
  BY <1>5
<1> QED
  BY <1>1, <1>3, <1>6, SixChecks DEF Accepts, ChecksFor

(* A document sent with no options at all is accepted by every             *)
(* configuration the service starts with.                                  *)
THEOREM BareRequests == Spec => []BareRequestAccepted
<1>1. OptionsInv => BareRequestAccepted
  BY BareIsAccepted, VerdictMeans DEF OptionsInv, BareRequestAccepted
<1> QED
  BY Invariance, <1>1, PTL

(* Only a request that names a printer itself can be answered              *)
(* unknown_printer: no default and no preset leads to none.                *)
THEOREM PresetsRoute == Spec => []PresetNeverMisroutes
<1>1. ASSUME OptionsInv, answer = "unknown_printer", "printerID" \notin DOMAIN request
      PROVE  FALSE
  <2>1. /\ Served(config) /\ KnownPreset(config, request)
        /\ Resolve(config, request)["printerID"] \notin PrinterIds(config)
    BY <1>1, VerdictMeans DEF OptionsInv, KnownPrinter
  <2>2. Defaults(config)["printerID"] \in PrinterIds(config)
    BY <2>1 DEF Served, Defaults
  <2>3. /\ "preset" \in DOMAIN request
        /\ "printerID" \in DOMAIN Find(config.presets, request.preset).options
        /\ Resolve(config, request)["printerID"] =
             Find(config.presets, request.preset).options["printerID"]
    BY <1>1, <2>1, <2>2, Resolved DEF OptionFields
  <2>4. ValidPreset(Find(config.presets, request.preset), PrinterIds(config))
    BY <2>1, <2>3, FindPreset DEF KnownPreset
  <2> QED
    BY <2>1, <2>3, <2>4 DEF ValidPreset, GivesOnly
<1>2. OptionsInv => PresetNeverMisroutes
  BY <1>1 DEF PresetNeverMisroutes
<1> QED
  BY Invariance, <1>2, PTL

(* GET /printers lists for a printer the capabilities of its checks.       *)
LEMMA ListedCapabilities ==
  ASSUME NEW c, Served(c), NEW id \in PrinterIds(c)
  PROVE  Find(ListPrinters(c), id).caps = Find(c.printers, id).caps
<1>1. PICK i \in DOMAIN c.printers :
        c.printers[i].id = id /\ Find(c.printers, id) = c.printers[i]
  BY FindPrinter
<1>2. /\ DOMAIN ListPrinters(c) = DOMAIN c.printers
      /\ \A j \in DOMAIN c.printers : /\ ListPrinters(c)[j].id = c.printers[j].id
                                      /\ ListPrinters(c)[j].caps = c.printers[j].caps
  BY DEF ListPrinters
<1>3. { j \in DOMAIN ListPrinters(c) : ListPrinters(c)[j].id = id } = {i}
  BY <1>1, <1>2 DEF Served, DistinctIds
<1>4. i <= i
  BY DEF Served
<1>5. Find(ListPrinters(c), id) = ListPrinters(c)[i]
  BY <1>3, <1>4 DEF Find
<1> QED
  BY <1>1, <1>2, <1>5

(* What an accepted request hands to lp is what GET /printers publishes,   *)
(* but for what the administrator's edge-to-edge options set.              *)
THEOREM WithinCapabilities == Spec => []SubmittedWithinCapabilities
<1>1. ASSUME OptionsInv, answer = "accepted" PROVE SubmittedWithinCapabilities
  <2> DEFINE o == Resolve(config, request)
             p == PrinterFor(config, request)
             listed == Find(ListPrinters(config), o.printerID).caps
             edge == DOMAIN EdgeOptions(p, o)
             lp == LpOptions(p, o)
             sides == [i \in DOMAIN listed.duplexModes |->
                         SidesByDuplex[listed.duplexModes[i]]]
  <2>1. Served(config) /\ Accepts(config, request)
    BY <1>1, AcceptedInv
  <2>2. /\ o.copies \in 1 .. p.caps.maxCopies
        /\ Offers(p.caps.duplexModes, o.duplex)
        /\ Offers(p.caps.colorModes, o.colorMode)
        /\ o.media # NoMedia => Offers(p.caps.media, o.media)
        /\ Offers(p.caps.scalingModes, o.scaling)
        /\ o.edgeToEdge => p.caps.edgeToEdge # "unsupported"
        /\ o.printerID \in PrinterIds(config)
    BY <2>1, AcceptedMeans
  <2>3. listed = p.caps
    BY <2>1, <2>2, ListedCapabilities DEF PrinterFor
  <2>4. LpCommand(config, request) = [dest |-> p.dest, copies |-> o.copies, options |-> lp]
    BY DEF LpCommand
  <2> HIDE DEF o, p, listed
  <2>5. /\ "sides" \in DOMAIN lp
        /\ "sides" \in DOMAIN lp \ edge => lp["sides"] = SidesByDuplex[o.duplex]
        /\ "print-color-mode" \in DOMAIN lp \ edge => lp["print-color-mode"] = o.colorMode
        /\ "media" \in DOMAIN lp \ edge => lp["media"] = o.media /\ o.media # NoMedia
        /\ "print-scaling" \in DOMAIN lp \ edge => lp["print-scaling"] = o.scaling
    <3>1. DOMAIN lp = DOMAIN OwnOptions(o) \cup edge /\ "sides" \in DOMAIN OwnOptions(o)
      BY LpOptionsMeans
    <3>2. \A name \in DOMAIN lp \ edge :
            /\ name \in DOMAIN OwnOptions(o)
            /\ name = "sides" => lp[name] = SidesByDuplex[o.duplex]
            /\ name = "print-color-mode" => lp[name] = o.colorMode
            /\ name = "media" => lp[name] = o.media
            /\ name = "print-scaling" => lp[name] = o.scaling
      BY LpOptionsMeans
    <3>3. "media" \in DOMAIN OwnOptions(o) => o.media # NoMedia
      BY LpOptionsMeans
    <3> HIDE DEF lp, edge
    <3> QED
      BY <3>1, <3>2, <3>3
  <2>6. \E i \in DOMAIN sides : sides[i] = SidesByDuplex[o.duplex]
    BY <2>2, <2>3 DEF Offers
  <2> HIDE DEF lp, edge, sides
  <2> QED
    BY <2>2, <2>3, <2>4, <2>5, <2>6
       DEF SubmittedWithinCapabilities, Offers, o, p, listed, edge, sides
<1>2. OptionsInv => SubmittedWithinCapabilities
  BY <1>1 DEF SubmittedWithinCapabilities
<1> QED
  BY Invariance, <1>2, PTL

(* A field the client sends reaches lp whatever the preset says, unless    *)
(* the administrator's edge-to-edge options set it.                        *)
THEOREM FieldsWin == Spec => []ExplicitFieldsWin
<1>1. ASSUME OptionsInv, answer = "accepted" PROVE ExplicitFieldsWin
  <2> DEFINE o == Resolve(config, request)
             p == PrinterFor(config, request)
             edge == DOMAIN EdgeOptions(p, o)
             lp == LpOptions(p, o)
  <2>1. Decoded(request) /\ ("media" \in DOMAIN request => request.media # NoMedia)
    BY <1>1, AcceptedInv, PrintOptionsAssumption
  <2>2. LpCommand(config, request) = [dest |-> p.dest, copies |-> o.copies, options |-> lp]
    BY DEF LpCommand
  <2>3. \A f \in OptionFields : f \in DOMAIN request => o[f] = request[f]
    BY Resolved
  <2>4. /\ "copies" \in DOMAIN request => o.copies = request.copies
        /\ "printerID" \in DOMAIN request => o.printerID = request.printerID
        /\ "duplex" \in DOMAIN request => o.duplex = request.duplex
        /\ "colorMode" \in DOMAIN request => o.colorMode = request.colorMode
        /\ "media" \in DOMAIN request => o.media = request.media
        /\ "scaling" \in DOMAIN request => o.scaling = request.scaling
        /\ "edgeToEdge" \in DOMAIN request => o.edgeToEdge = request.edgeToEdge
    BY <2>3 DEF OptionFields
  <2>5. p = Find(config.printers, o.printerID)
    BY DEF PrinterFor
  <2>6. "edgeToEdge" \in DOMAIN request /\ ~ request.edgeToEdge => edge = {}
    BY <2>4 DEF EdgeOptions
  <2> HIDE DEF o, p
  <2>7. /\ DOMAIN lp = DOMAIN OwnOptions(o) \cup edge
        /\ "sides" \in DOMAIN OwnOptions(o)
        /\ \A name \in DOMAIN OwnOptions(o) :
             name \in {"sides", "print-color-mode", "media", "print-scaling"}
        /\ "print-color-mode" \in DOMAIN OwnOptions(o) <=> o.colorMode # "auto"
        /\ "media" \in DOMAIN OwnOptions(o) <=> o.media # NoMedia
        /\ "print-scaling" \in DOMAIN OwnOptions(o) <=> o.scaling # "auto"
    BY LpOptionsMeans
  <2>8. \A name \in DOMAIN lp \ edge :
          /\ name \in DOMAIN OwnOptions(o)
          /\ name = "sides" => lp[name] = SidesByDuplex[o.duplex]
          /\ name = "print-color-mode" => lp[name] = o.colorMode
          /\ name = "media" => lp[name] = o.media
          /\ name = "print-scaling" => lp[name] = o.scaling
    BY LpOptionsMeans
  <2> HIDE DEF lp, edge
  <2> DEFINE Sent(name, value) ==
               name \in edge \/ (name \in DOMAIN lp /\ lp[name] = value)
             SentUnlessAuto(name, value) ==
               IF value = "auto" THEN name \in edge \/ name \notin DOMAIN lp
                 ELSE Sent(name, value)
  <2>9. "duplex" \in DOMAIN request => Sent("sides", SidesByDuplex[request.duplex])
    BY <2>4, <2>7, <2>8
  <2>10. "colorMode" \in DOMAIN request =>
           SentUnlessAuto("print-color-mode", request.colorMode)
    BY <2>4, <2>7, <2>8
  <2>11. "media" \in DOMAIN request => Sent("media", request.media)
    BY <2>1, <2>4, <2>7, <2>8
  <2>12. "scaling" \in DOMAIN request =>
           SentUnlessAuto("print-scaling", request.scaling)
    BY <2>4, <2>7, <2>8
  <2>13. "edgeToEdge" \in DOMAIN request /\ ~ request.edgeToEdge =>
           DOMAIN lp \subseteq {"sides", "print-color-mode", "media", "print-scaling"}
    BY <2>6, <2>7
  <2> QED
    BY <2>2, <2>4, <2>5, <2>9, <2>10, <2>11, <2>12, <2>13
       DEF ExplicitFieldsWin, o, p, edge, lp
<1>2. OptionsInv => ExplicitFieldsWin
  BY <1>1 DEF ExplicitFieldsWin
<1> QED
  BY Invariance, <1>2, PTL

(* An accepted edge-to-edge request really changes the lp command, and the *)
(* administrator's value of an option is the one that counts.              *)
THEOREM EdgeToEdgeWorks == Spec => []EdgeToEdgeEffective
<1>1. ASSUME OptionsInv, answer = "accepted", Resolve(config, request).edgeToEdge
      PROVE  EdgeToEdgeEffective
  <2> DEFINE o == Resolve(config, request)
             p == PrinterFor(config, request)
             lp == LpOptions(p, o)
  <2>1. Served(config) /\ Accepts(config, request)
    BY <1>1, AcceptedInv
  <2>2. ValidPrinter(p) /\ p.caps.edgeToEdge # "unsupported"
    BY <1>1, <2>1, AcceptedMeans
  <2>3. DOMAIN p.edgeOptions # {}
    BY <2>2 DEF ValidPrinter
  <2>4. EdgeOptions(p, o) = p.edgeOptions
    BY <1>1 DEF EdgeOptions
  <2>5. \A name \in DOMAIN p.edgeOptions :
          name \in DOMAIN lp /\ lp[name] = p.edgeOptions[name]
    BY <2>4 DEF LpOptions
  <2>6. LpCommand(config, request).options = lp
    BY DEF LpCommand
  <2> QED
    BY <2>3, <2>5, <2>6 DEF EdgeToEdgeEffective
<1>2. OptionsInv => EdgeToEdgeEffective
  BY <1>1 DEF EdgeToEdgeEffective
<1> QED
  BY Invariance, <1>2, PTL

(* GET /printers marks exactly one printer as the default: the one a       *)
(* document without options is printed on.                                 *)
THEOREM DefaultListed == Spec => []DefaultIsListed
<1>1. ASSUME OptionsInv, phase = "serving" PROVE DefaultIsListed
  <2>1. Served(config)
    BY <1>1 DEF OptionsInv
  <2>2. PICK i \in DOMAIN config.printers :
          /\ config.printers[i].id = config.defaultPrinterID
          /\ Find(config.printers, config.defaultPrinterID) = config.printers[i]
    BY <2>1, FindPrinter DEF Served
  <2>3. /\ DOMAIN ListPrinters(config) = DOMAIN config.printers
        /\ \A j \in DOMAIN config.printers :
             ListPrinters(config)[j].default =
               (config.printers[j].id = config.defaultPrinterID)
    BY DEF ListPrinters
  <2>4. \A j \in DOMAIN config.printers :
          config.printers[j].id = config.defaultPrinterID <=> j = i
    BY <2>1, <2>2 DEF Served, DistinctIds
  <2>5. LpCommand(config, << >>).dest = config.printers[i].dest
    BY <2>2, ResolvedBare DEF LpCommand, PrinterFor, Defaults
  <2> QED
    BY <2>3, <2>4, <2>5 DEF DefaultIsListed
<1>2. OptionsInv => DefaultIsListed
  BY <1>1 DEF DefaultIsListed
<1> QED
  BY Invariance, <1>2, PTL

(* Naming a preset, and sending the fields GET /presets lists for it, are  *)
(* the same request.                                                       *)
THEOREM PresetsListed == Spec => []PresetListingIsFaithful
<1>1. ASSUME OptionsInv, phase = "serving", NEW i \in DOMAIN config.presets
      PROVE  LET named == [preset |-> config.presets[i].id]
                 spelt == config.presets[i].options
             IN  /\ Verdict(config, named) = Verdict(config, spelt)
                 /\ LpCommand(config, named) = LpCommand(config, spelt)
  <2> DEFINE named == [preset |-> config.presets[i].id]
             spelt == config.presets[i].options
             fields == DOMAIN Defaults(config)
  <2>1. Served(config)
    BY <1>1 DEF OptionsInv
  <2>2. Find(config.presets, config.presets[i].id) = config.presets[i]
    BY <2>1, FindDistinct DEF Served
  <2>3. KnownPreset(config, named) /\ KnownPreset(config, spelt)
    BY <2>1 DEF KnownPreset, PresetIds, Served, OptionFields
  <2>4. fields = OptionFields
    BY DEF Defaults, OptionFields
  <2>5. Overlay(Overlay(Defaults(config), spelt), named) = Overlay(Defaults(config), spelt)
    BY <2>4 DEF Overlay, OptionFields
  <2>6. Resolve(config, named) = Overlay(Defaults(config), spelt)
    BY <2>2, <2>5 DEF Resolve
  <2>7. Resolve(config, spelt) = Overlay(Defaults(config), spelt)
    BY <2>1 DEF Resolve, Served, OptionFields
  <2> HIDE DEF named, spelt
  <2>8. Resolve(config, named) = Resolve(config, spelt)
    BY <2>6, <2>7
  <2> QED
    BY <2>3, <2>8
       DEF Verdict, Accepts, KnownPrinter, PrinterFor, ChecksFor, LpCommand,
           named, spelt
<1>2. OptionsInv => PresetListingIsFaithful
  BY <1>1 DEF PresetListingIsFaithful, ListPresets
<1> QED
  BY Invariance, <1>2, PTL

=============================================================================
