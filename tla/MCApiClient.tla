---------------------------- MODULE MCApiClient -----------------------------
(* One call.  Configuration files at and over the limits of what is        *)
(* accepted; identifiers with slashes and dots, names of other paths and   *)
(* none; and forms with one field, or all of them.                         *)
EXTENDS ApiClient

CONSTANT none

MCIds  == {"mono", "draft"}
MCSafe == {"A4"}

Caps(colors, media, copies, edge) ==
  [colorModes |-> colors, duplexModes |-> <<"none", "long-edge">>, media |-> media,
   scalingModes |-> <<"auto", "fit">>, maxCopies |-> copies, edgeToEdge |-> edge]

File(caps, options) ==
  [printers |-> << [id |-> "mono", dest |-> "mono", ippURI |-> none, caps |-> caps,
                    edgeOptions |-> IF caps.edgeToEdge = "unsupported"
                                      THEN << >> ELSE "mono" :> "A4"] >>,
   defaultPrinterID |-> "", maxUploadBytes |-> 0,
   presets |-> IF options = << >> THEN << >>
               ELSE << [id |-> "draft", options |-> options] >>]

Plain == Caps(<<"auto">>, << >>, 1, "unsupported")

MCConfigFiles ==
  { File(Caps(colors, media, copies, edge), << >>) :
      colors \in {<<"auto", "monochrome">>, <<"auto", "sepia">>},
      media \in {<< >>, <<"A4">>}, copies \in {1, 99, 100},
      edge \in {"unsupported", "full-bleed"} }
  \cup { File(Plain, options) :
      options \in { "edgeToEdge" :> FALSE, "edgeToEdge" :> TRUE, "copies" :> 99,
                    "copies" :> 100, "duplex" :> "long-edge", "duplex" :> "book",
                    ("printerID" :> "mono") @@ ("media" :> "A4") @@ ("colorMode" :> "color"),
                    "scaling" :> "fit" } }

Field(name, values) == { name :> v : v \in values }

Forms ==
  { << >> } \cup Field("printer_id", {"mono", ""}) \cup Field("preset", {"draft"})
  \cup Field("copies", {0, 1, 99, 100}) \cup Field("duplex", {"none", "long-edge", "book"})
  \cup Field("color_mode", {"auto", "sepia"}) \cup Field("media", {"A4", ""})
  \cup Field("scaling", {"fit", "tiled"}) \cup Field("edge_to_edge", BOOLEAN)
  \cup { [printer_id |-> "mono", preset |-> "draft", copies |-> 2, duplex |-> "none",
          color_mode |-> "auto", media |-> "A4", scaling |-> "auto",
          edge_to_edge |-> FALSE] }

MCNumbers == 0 .. 100

MCDecimal == [n \in MCNumbers |-> ToString(n)]

Args ==
  { << >>, <<"mono">>, <<"other">>, <<"/">>, <<"mono", "/">>, <<"ers", "/", "status">>,
    <<".">>, <<".", ".">>, <<".", ".", ".">>, <<".", "mono">>, <<"/", ".">> }

MCCalls ==
  [op : {"healthCheck", "listPrinters", "listPresets"}, arg : {<< >>}, form : {<< >>}]
  \cup [op : Parameterised, arg : Args, form : {<< >>}]
  \cup [op : {"printDocument"}, arg : {<< >>}, form : Forms]
=============================================================================
