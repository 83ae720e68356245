------------------------------- MODULE Config -------------------------------
(***************************************************************************)
(* config.go: which configuration files loadConfig accepts, and what it    *)
(* fills in before the service starts with them.                           *)
(*                                                                         *)
(* A configuration is the record decoded from config.json.  A JSON list is *)
(* a sequence; the options of a preset are a function whose domain is the  *)
(* set of fields the preset gives a value to (the zero value of a field,   *)
(* "", 0 or null, means the field is not given).  Strings stay abstract:   *)
(* the constants name the ones the patterns of config.go accept.           *)
(***************************************************************************)
EXTENDS Integers, Sequences, FiniteSets

CONSTANTS
  WellFormedIds,  \* the strings idPattern and optionPattern match
  SafeValues,     \* the strings safeOptionValue accepts
  ProbeURIs,      \* the absolute IPP URLs printerConfig.validate accepts
  NoURI           \* an omitted ipp_uri

ColorModes   == {"auto", "color", "monochrome"}
DuplexModes  == {"none", "long-edge", "short-edge"}
ScalingModes == {"auto", "auto-fit", "fill", "fit", "none"}
EdgeModes    == {"unsupported", "printable-area", "full-bleed"}

DefaultMaxUploadBytes == 32

Offers(list, wanted) == \E i \in DOMAIN list : list[i] = wanted

(* Accepted lists are nonempty, without duplicates, of allowed values.     *)
ValidValues(list, allowed) ==
  /\ list # << >>
  /\ \A i \in DOMAIN list : list[i] \in allowed
  /\ \A i, j \in DOMAIN list : list[i] = list[j] => i = j

(* Mutant: color_modes need not include auto.                              *)
MutValidCapabilities(caps) ==
  /\ caps.maxCopies \in 1 .. 99
  /\ ValidValues(caps.colorModes, ColorModes)
  /\ ValidValues(caps.duplexModes, DuplexModes)
  /\ Offers(caps.duplexModes, "none")
  /\ ValidValues(caps.scalingModes, ScalingModes)
  /\ Offers(caps.scalingModes, "auto")
  /\ caps.edgeToEdge \in EdgeModes
  /\ \A i \in DOMAIN caps.media : caps.media[i] \in SafeValues

ValidCapabilities(caps) ==
  /\ caps.maxCopies \in 1 .. 99
  /\ ValidValues(caps.colorModes, ColorModes)
  /\ Offers(caps.colorModes, "auto")
  /\ ValidValues(caps.duplexModes, DuplexModes)
  /\ Offers(caps.duplexModes, "none")
  /\ ValidValues(caps.scalingModes, ScalingModes)
  /\ Offers(caps.scalingModes, "auto")
  /\ caps.edgeToEdge \in EdgeModes
  /\ \A i \in DOMAIN caps.media : caps.media[i] \in SafeValues

ValidPrinter(p) ==
  /\ p.id \in WellFormedIds
  /\ p.dest \in WellFormedIds
  /\ p.ippURI # NoURI => p.ippURI \in ProbeURIs
  /\ ValidCapabilities(p.caps)
  /\ (p.caps.edgeToEdge = "unsupported") = (DOMAIN p.edgeOptions = {})
  /\ \A name \in DOMAIN p.edgeOptions :
       name \in WellFormedIds /\ p.edgeOptions[name] \in SafeValues

PrinterIds(c) == { c.printers[i].id : i \in DOMAIN c.printers }

(* "given => legal" for a field a preset may give.                         *)
GivesOnly(preset, field, values) ==
  field \in DOMAIN preset.options => preset.options[field] \in values

(* Mutant: the printer of a preset is not looked up.                       *)
MutValidPreset(preset, printerIds) ==
  /\ preset.id \in WellFormedIds
  /\ GivesOnly(preset, "copies", 1 .. 99)
  /\ GivesOnly(preset, "duplex", DuplexModes)
  /\ GivesOnly(preset, "colorMode", ColorModes)
  /\ GivesOnly(preset, "media", SafeValues)
  /\ GivesOnly(preset, "scaling", ScalingModes)

(* Mutant: one copy too many is allowed.                                   *)
MutPresetCopies(preset, printerIds) ==
  /\ preset.id \in WellFormedIds
  /\ GivesOnly(preset, "printerID", printerIds)
  /\ GivesOnly(preset, "copies", 1 .. 100)
  /\ GivesOnly(preset, "duplex", DuplexModes)
  /\ GivesOnly(preset, "colorMode", ColorModes)
  /\ GivesOnly(preset, "media", SafeValues)
  /\ GivesOnly(preset, "scaling", ScalingModes)

ValidPreset(preset, printerIds) ==
  /\ preset.id \in WellFormedIds
  /\ GivesOnly(preset, "printerID", printerIds)
  /\ GivesOnly(preset, "copies", 1 .. 99)
  /\ GivesOnly(preset, "duplex", DuplexModes)
  /\ GivesOnly(preset, "colorMode", ColorModes)
  /\ GivesOnly(preset, "media", SafeValues)
  /\ GivesOnly(preset, "scaling", ScalingModes)

(* config.validate writes defaults into the configuration it checks.       *)
Normalize(c) ==
  [c EXCEPT
     !.maxUploadBytes = IF @ = 0 THEN DefaultMaxUploadBytes ELSE @,
     !.defaultPrinterID =
        IF @ = "" /\ Len(c.printers) = 1 THEN c.printers[1].id ELSE @]

(* Mutant: seen[] is never filled.                                         *)
MutDistinctIds(list) == TRUE

DistinctIds(list) == \A i, j \in DOMAIN list : list[i].id = list[j].id => i = j

ValidConfig(c) ==
  LET n == Normalize(c) IN
  /\ n.maxUploadBytes >= 1
  /\ c.printers # << >>
  /\ \A i \in DOMAIN c.printers : ValidPrinter(c.printers[i])
  /\ DistinctIds(c.printers)
  /\ n.defaultPrinterID \in PrinterIds(c)
  /\ \A i \in DOMAIN c.presets : ValidPreset(c.presets[i], PrinterIds(c))
  /\ DistinctIds(c.presets)

=============================================================================
