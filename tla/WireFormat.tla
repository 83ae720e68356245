----------------------------- MODULE WireFormat -----------------------------
(***************************************************************************)
(* What ogen generates from the schemas of openapi.yaml: how a Go value    *)
(* becomes JSON or the fields of a form, and what is read back.            *)
(*                                                                         *)
(* The generated encoders and decoders of the types differ only in their   *)
(* fields, so a type is described by a record and read by one definition   *)
(* for all.  A Go struct is a function whose domain is its set fields; a   *)
(* nil list is an empty one where it is required, and a field that is not  *)
(* set where it is not.  A JSON value is a tuple that begins with its      *)
(* kind; an object keeps its members in the order they are written.        *)
(***************************************************************************)
EXTENDS Integers, Sequences

CONSTANTS
  FormNumbers,  \* the numbers clients write into a form
  Decimal       \* strconv.Itoa: what is written for each

ASSUME WireFormatAssumption ==
  /\ FormNumbers \subseteq Int
  /\ \A m, n \in FormNumbers : Decimal[m] = Decimal[n] => m = n

-----------------------------------------------------------------------------
(* Types.                                                                  *)
Text           == [kind |-> "string"]
Flag           == [kind |-> "bool"]
Number(range)  == [kind |-> "number", of |-> range]
Enum(values)   == [kind |-> "enum", of |-> values]
List(type)     == [kind |-> "list", of |-> type]
Struct(fields) == [kind |-> "object", of |-> fields]

Required(name, type) == [name |-> name, type |-> type, required |-> TRUE]
Optional(name, type) == [name |-> name, type |-> type, required |-> FALSE]

ColorMode   == Enum({"auto", "color", "monochrome"})
DuplexMode  == Enum({"none", "long-edge", "short-edge"})
ScalingMode == Enum({"auto", "auto-fit", "fill", "fit", "none"})
EdgeToEdgeCapability == Enum({"unsupported", "printable-area", "full-bleed"})

PrinterStatusStatus ==
  Enum({"ready", "busy", "unavailable", "unknown", "starting", "error"})
PrinterStatusCupsStatus == Enum({"ready", "busy", "unavailable", "unknown"})
PrintJobStateStatus ==
  Enum({"queued", "processing", "completed", "canceled", "aborted", "unknown"})
PrintJobStatus     == Enum({"queued"})
HealthStatusStatus == Enum({"ok"})

Copies     == Number(1 .. 99)
QueuedJobs == Number(Nat)

Error == Struct(<< Required("code", Text), Required("message", Text) >>)

HealthStatus == Struct(<< Required("status", HealthStatusStatus) >>)

PrintJob ==
  Struct(<< Required("job_id", Text), Required("printer_id", Text),
            Required("status", PrintJobStatus) >>)

PrintJobState ==
  Struct(<< Required("job_id", Text), Optional("printer_id", Text),
            Required("status", PrintJobStateStatus), Optional("message", Text) >>)

PrintPreset ==
  Struct(<< Required("id", Text), Optional("printer_id", Text),
            Optional("copies", Copies), Optional("duplex", DuplexMode),
            Optional("color_mode", ColorMode), Optional("media", Text),
            Optional("scaling", ScalingMode), Optional("edge_to_edge", Flag) >>)

PrintPresetList == Struct(<< Required("presets", List(PrintPreset)) >>)

PrinterCapabilities ==
  Struct(<< Required("color_modes", List(ColorMode)),
            Required("duplex_modes", List(DuplexMode)),
            Required("media", List(Text)),
            Required("scaling_modes", List(ScalingMode)),
            Required("edge_to_edge", EdgeToEdgeCapability),
            Required("max_copies", Copies) >>)

Printer ==
  Struct(<< Required("id", Text), Required("display_name", Text),
            Required("default", Flag),
            Required("capabilities", PrinterCapabilities) >>)

PrinterList == Struct(<< Required("printers", List(Printer)) >>)

PrinterStatus ==
  Struct(<< Required("printer_id", Text), Required("status", PrinterStatusStatus),
            Optional("message", Text), Optional("responsive", Flag),
            Optional("queued_jobs", QueuedJobs), Optional("reasons", List(Text)),
            Optional("cups_status", PrinterStatusCupsStatus) >>)

(* The fields of the form beside the file.                                 *)
PrintDocumentReq ==
  Struct(<< Optional("printer_id", Text), Optional("preset", Text),
            Optional("copies", Copies), Optional("duplex", DuplexMode),
            Optional("color_mode", ColorMode), Optional("media", Text),
            Optional("scaling", ScalingMode), Optional("edge_to_edge", Flag) >>)

-----------------------------------------------------------------------------
(* JSON.                                                                   *)
Broken == <<"broken">>   \* bytes that are no JSON value, or more than one
Null   == <<"null">>

(* The fields of a struct that are set, in the order of the schema.        *)
SetFields(type, value) ==
  LET set[n \in 0 .. Len(type.of)] ==
        IF n = 0 THEN << >>
        ELSE IF type.of[n].name \in DOMAIN value THEN Append(set[n - 1], type.of[n])
        ELSE set[n - 1]
  IN  set[Len(type.of)]

(* A field holds a leaf, a struct or a list of either.  The schemas nest   *)
(* three deep (a list of printers, a printer, its capabilities), and the   *)
(* function of a schema calls those of the schemas Below it.               *)
EncodeLeaf(type, value) ==
  <<IF type.kind = "enum" THEN "string" ELSE type.kind, value>>

EncodeOne(Below(_, _), type, value) ==
  IF type.kind = "object" THEN Below(type, value) ELSE EncodeLeaf(type, value)

EncodeField(Below(_, _), type, value) ==
  IF type.kind = "list"
    THEN <<"array", [i \in DOMAIN value |-> EncodeOne(Below, type.of, value[i])]>>
    ELSE EncodeOne(Below, type, value)

EncodeStruct(Below(_, _), type, value) ==
  LET set == SetFields(type, value)
  IN  <<"object", [i \in DOMAIN set |->
          <<set[i].name, EncodeField(Below, set[i].type, value[set[i].name])>>]>>

Encode1(type, value) == EncodeStruct(EncodeLeaf, type, value)
Encode2(type, value) == EncodeStruct(Encode1, type, value)
Encode(type, value)  == EncodeStruct(Encode2, type, value)

Members(json) == json[2]
Names(json)   == { Members(json)[i][1] : i \in DOMAIN Members(json) }

(* The value of the last member with the name: each one is written over    *)
(* the one before.                                                         *)
LastOf(json, name) ==
  LET at == { i \in DOMAIN Members(json) : Members(json)[i][1] = name }
  IN  Members(json)[CHOOSE i \in at : \A j \in at : j <= i][2]

(* Decode succeeds: every known member has its type, every required one is *)
(* there.  Unknown members are skipped.                                    *)
DecodesLeaf(type, json) ==
  json[1] = IF type.kind = "enum" THEN "string" ELSE type.kind

DecodesOne(Below(_, _), type, json) ==
  IF type.kind = "object" THEN Below(type, json) ELSE DecodesLeaf(type, json)

DecodesField(Below(_, _), type, json) ==
  IF type.kind = "list"
    THEN /\ json[1] = "array"
         /\ \A i \in DOMAIN json[2] : DecodesOne(Below, type.of, json[2][i])
    ELSE DecodesOne(Below, type, json)

DecodesStruct(Below(_, _), type, json) ==
  /\ json[1] = "object"
  /\ \A k \in DOMAIN type.of :
       LET f == type.of[k] IN
       /\ f.required => f.name \in Names(json)
       /\ \A i \in DOMAIN Members(json) :
            Members(json)[i][1] = f.name =>
              DecodesField(Below, f.type, Members(json)[i][2])

Decodes1(type, json) == DecodesStruct(DecodesLeaf, type, json)
Decodes2(type, json) == DecodesStruct(Decodes1, type, json)
Decodes(type, json)  == DecodesStruct(Decodes2, type, json)

(* The Go value it fills in.                                               *)
TypeOf(type, name) ==
  type.of[CHOOSE k \in DOMAIN type.of : type.of[k].name = name].type

DecodeLeaf(type, json) == json[2]

DecodeOne(Below(_, _), type, json) ==
  IF type.kind = "object" THEN Below(type, json) ELSE DecodeLeaf(type, json)

DecodeField(Below(_, _), type, json) ==
  IF type.kind = "list"
    THEN [i \in DOMAIN json[2] |-> DecodeOne(Below, type.of, json[2][i])]
    ELSE DecodeOne(Below, type, json)

DecodeStruct(Below(_, _), type, json) ==
  [name \in { type.of[k].name : k \in DOMAIN type.of } \cap Names(json) |->
     DecodeField(Below, TypeOf(type, name), LastOf(json, name))]

Decode1(type, json) == DecodeStruct(DecodeLeaf, type, json)
Decode2(type, json) == DecodeStruct(Decode1, type, json)
Decode(type, json)  == DecodeStruct(Decode2, type, json)

(* Validate: enumerations and ranges, all the way down.                    *)
ValidLeaf(type, value) == type.kind \in {"enum", "number"} => value \in type.of

ValidOne(Below(_, _), type, value) ==
  IF type.kind = "object" THEN Below(type, value) ELSE ValidLeaf(type, value)

ValidField(Below(_, _), type, value) ==
  IF type.kind = "list"
    THEN \A i \in DOMAIN value : ValidOne(Below, type.of, value[i])
    ELSE ValidOne(Below, type, value)

ValidStruct(Below(_, _), type, value) ==
  \A k \in DOMAIN type.of :
    type.of[k].name \in DOMAIN value =>
      ValidField(Below, type.of[k].type, value[type.of[k].name])

Valid1(type, value) == ValidStruct(ValidLeaf, type, value)
Valid2(type, value) == ValidStruct(Valid1, type, value)
Valid(type, value)  == ValidStruct(Valid2, type, value)

-----------------------------------------------------------------------------
(* The form of POST /print: every value is written as text.                *)
ToText(type, value) ==
  CASE type.kind = "number" -> Decimal[value]
    [] type.kind = "bool"   -> IF value THEN "true" ELSE "false"
    [] OTHER                -> value

FromText(type, text) ==
  CASE type.kind = "number" -> CHOOSE n \in FormNumbers : Decimal[n] = text
    [] type.kind = "bool"   -> text = "true"
    [] OTHER                -> text

EncodeForm(value) ==
  LET set == SetFields(PrintDocumentReq, value)
  IN  [i \in DOMAIN set |-> <<set[i].name, ToText(set[i].type, value[set[i].name])>>]

(* A field of the form is asked for by its name; the first value counts.   *)
DecodeForm(form) ==
  LET At(name) == CHOOSE i \in DOMAIN form :
                    /\ form[i][1] = name
                    /\ \A j \in 1 .. i - 1 : form[j][1] # name
  IN  [name \in { form[i][1] : i \in DOMAIN form } |->
         FromText(TypeOf(PrintDocumentReq, name), form[At(name)][2])]

=============================================================================
