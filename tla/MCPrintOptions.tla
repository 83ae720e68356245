--------------------------- MODULE MCPrintOptions ---------------------------
(* PrintOptions over small configuration files, most of them one mistake   *)
(* or one unusual choice away from a good one, and over every request that *)
(* sets at most two of its fields.                                         *)
EXTENDS PrintOptions, TLC

CONSTANTS none   \* model value for NoMedia and NoURI

MCIds == {"mono", "photo", "lab", "draft", "sides", "media", "InputSlot"}
MCSafe == {"A4", "letter", "full", "tray1", "auto"}
MCURIs == {"ipp://p"}

GoodCaps ==
  [colorModes |-> <<"auto", "monochrome">>, duplexModes |-> <<"none", "long-edge">>,
   media |-> <<"A4">>, scalingModes |-> <<"auto", "fit">>, maxCopies |-> 2,
   edgeToEdge |-> "unsupported"]

CapsFiles ==
  {GoodCaps}
  \cup { [GoodCaps EXCEPT !.colorModes = v] :
           v \in {<< >>, <<"auto">>, <<"monochrome">>, <<"auto", "auto">>,
                  <<"auto", "sepia">>} }
  \cup { [GoodCaps EXCEPT !.duplexModes = v] :
           v \in {<<"none">>, <<"long-edge">>} }
  \cup { [GoodCaps EXCEPT !.scalingModes = v] : v \in {<<"auto">>, <<"fit">>} }
  \cup { [GoodCaps EXCEPT !.maxCopies = v] : v \in {0, 1, 99, 100} }
  \cup { [GoodCaps EXCEPT !.media = v] :
           v \in {<< >>, <<"letter", "A4", "auto">>, <<"bad\n">>} }

(* Edge-to-edge options that repeat the name of an ordinary option, and    *)
(* one printer for each combination of mode and options.                   *)
EdgeFiles ==
  { [mode |-> m, options |-> o] :
      m \in {"unsupported", "full-bleed"},
      o \in { << >>, "InputSlot" :> "tray1",
              ("media" :> "full") @@ ("sides" :> "full") } }

Plain == [mode |-> "unsupported", options |-> << >>]

Printer(id, dest, caps, edge) ==
  [id |-> id, dest |-> dest, ippURI |-> none,
   caps |-> [caps EXCEPT !.edgeToEdge = edge.mode], edgeOptions |-> edge.options]

FirstPrinters ==
  { Printer("mono", "lab", caps, Plain) : caps \in CapsFiles }
  \cup { Printer("mono", "lab", GoodCaps, edge) : edge \in EdgeFiles }
  \cup { Printer("-bad", "lab", GoodCaps, Plain) }
  \cup { [Printer("mono", "lab", GoodCaps, Plain) EXCEPT !.ippURI = u] :
           u \in {"ipp://p", "http://p"} }

Second == Printer("photo", "photo", [GoodCaps EXCEPT !.duplexModes = <<"none">>],
                  [mode |-> "printable-area", options |-> "InputSlot" :> "tray1"])

Preset(options) == [id |-> "draft", options |-> options]

PresetFiles ==
  { << >> } \cup
  { << Preset(o) >> :
      o \in { "printerID" :> "photo", "printerID" :> "missing",
              ("duplex" :> "long-edge") @@ ("media" :> "A4"),
              ("edgeToEdge" :> TRUE) @@ ("copies" :> 2),
              "copies" :> 100, "colorMode" :> "monochrome" } }
  \cup { << Preset("copies" :> 2), Preset("copies" :> 1) >> }

File(printers, default, presets, bytes) ==
  [printers |-> printers, defaultPrinterID |-> default, presets |-> presets,
   maxUploadBytes |-> bytes]

MCConfigFiles ==
  { File(<<p>>, "", << >>, 0) : p \in FirstPrinters }
  \cup { File(<<p, Second>>, "mono", << Preset("printerID" :> "photo") >>, 1) :
           p \in FirstPrinters }
  \cup { File(<<Printer("mono", "lab", GoodCaps, edge), Second>>, d, presets, 1) :
           edge \in EdgeFiles, d \in {"", "mono", "missing"},
           presets \in PresetFiles }
  \cup { File(<< >>, "", << >>, 1), File(<<Second, Second>>, "photo", << >>, 1),
         File(<<Second>>, "photo", << >>, -1) }

Field(name, values) == { name :> v : v \in values }

OneField ==
  Field("printerID", {"mono", "photo", "missing"})
  \cup Field("preset", {"draft", "other"}) \cup Field("copies", {0, 1, 2, 3})
  \cup Field("duplex", {"none", "long-edge", "short-edge", "book"})
  \cup Field("colorMode", {"auto", "monochrome", "color"})
  \cup Field("media", {"A4", "auto", "legal", ""}) \cup Field("scaling", {"auto", "fit", "fill"})
  \cup Field("edgeToEdge", BOOLEAN)

MCRequests == { << >> } \cup { f @@ g : f, g \in OneField }
=============================================================================
