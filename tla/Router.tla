------------------------------- MODULE Router -------------------------------
(***************************************************************************)
(* The paths of the interface: the prefix-tree router ogen generates, the  *)
(* names and parameters in a path, and the templates of openapi.yaml the   *)
(* tree is meant to recognise.  The server and the client both extend it.  *)
(*                                                                         *)
(* A path is a sequence of tokens: "/", the pieces at whose ends the tree  *)
(* branches ("pr", "int", "ers", ...), and other names.  No token is a     *)
(* prefix of another one but for pieces joined, so a prefix of the string  *)
(* is a prefix of the sequence.  "%2F" is an escaped slash, and a dot is a *)
(* token where a segment of a path consists of dots.                       *)
(***************************************************************************)
EXTENDS Naturals, SequencesExt, FiniteSetsExt

NoCall == [op |-> "none", arg |-> << >>]

(* The mux redirects a path with a segment of no, one or two dots to the   *)
(* path without it, and without the segment in front of two.  A slash at   *)
(* the end of the path stays.                                              *)
IsClean(path) ==
  ~ \E i \in 1 .. Len(path) - 1, dots \in 0 .. 2 :
      /\ path[i] = "/" /\ i + dots <= Len(path)
      /\ \A k \in i + 1 .. i + dots : path[k] = "."
      /\ i + dots = Len(path) \/ path[i + dots + 1] = "/"

HasSlash(s) == "/" \in ToSet(s)

Rest(s, n) == SubSeq(s, n + 1, Len(s))

Leaf(op, arg) == [op |-> op, arg |-> arg]

(* Below "/printers/": the parameter ends at the next slash.               *)
RouteStatus(elem) ==
  LET slashes == { i \in DOMAIN elem : elem[i] = "/" }
      idx == IF slashes = {} THEN Len(elem) ELSE Min(slashes) - 1
  IN  IF Rest(elem, idx) = <<"/", "status">>
        THEN Leaf("getPrinterStatus", SubSeq(elem, 1, idx)) ELSE NoCall

(* Mutant: a parameter may hold slashes.                                   *)
MutRoute(path) ==
  LET elem == Tail(path) IN
  CASE elem = <<"healthz">>                            -> Leaf("healthCheck", << >>)
    [] IsPrefix(<<"jobs", "/">>, elem)                 -> Leaf("getPrintJob", Rest(elem, 2))
    [] elem = <<"pr", "esets">>                        -> Leaf("listPresets", << >>)
    [] elem = <<"pr", "int">>                          -> Leaf("printDocument", << >>)
    [] elem = <<"pr", "int", "ers">>                   -> Leaf("listPrinters", << >>)
    [] IsPrefix(<<"pr", "int", "ers", "/">>, elem)     -> RouteStatus(Rest(elem, 4))
    [] OTHER                                           -> NoCall

(* Below "/print".                                                         *)
RoutePrint(elem) ==
  CASE elem = << >>                     -> Leaf("printDocument", << >>)
    [] elem = <<"ers">>                 -> Leaf("listPrinters", << >>)
    [] IsPrefix(<<"ers", "/">>, elem)   -> RouteStatus(Rest(elem, 2))
    [] OTHER                            -> NoCall

(* The tree of Server.ServeHTTP, walked from its root "/".                 *)
Route(path) ==
  LET elem == Tail(path)
  IN  CASE elem = <<"healthz">>               -> Leaf("healthCheck", << >>)
        [] IsPrefix(<<"jobs", "/">>, elem) /\ ~ HasSlash(Rest(elem, 2))
                                              -> Leaf("getPrintJob", Rest(elem, 2))
        [] elem = <<"pr", "esets">>           -> Leaf("listPresets", << >>)
        [] IsPrefix(<<"pr", "int">>, elem)    -> RoutePrint(Rest(elem, 2))
        [] OTHER                              -> NoCall

MethodOf(op) == IF op = "printDocument" THEN "POST" ELSE "GET"

Parameterised == {"getPrintJob", "getPrinterStatus"}

(* url.PathUnescape of a parameter.                                        *)
Unescape(arg) == [i \in DOMAIN arg |-> IF arg[i] = "%2F" THEN "/" ELSE arg[i]]

-----------------------------------------------------------------------------
(* Reference: the operations of openapi.yaml, by their path templates.     *)
Template(op, method, before, param, after) ==
  [op |-> op, method |-> method, before |-> before, param |-> param, after |-> after]

Documented ==
  { Template("healthCheck", "GET", <<"/", "healthz">>, FALSE, << >>),
    Template("listPrinters", "GET", <<"/", "pr", "int", "ers">>, FALSE, << >>),
    Template("listPresets", "GET", <<"/", "pr", "esets">>, FALSE, << >>),
    Template("printDocument", "POST", <<"/", "pr", "int">>, FALSE, << >>),
    Template("getPrintJob", "GET", <<"/", "jobs", "/">>, TRUE, << >>),
    Template("getPrinterStatus", "GET", <<"/", "pr", "int", "ers", "/">>, TRUE,
             <<"/", "status">>) }

(* The text of the path between the two ends of a template.                *)
ArgOf(t, path) == SubSeq(path, Len(t.before) + 1, Len(path) - Len(t.after))

Designates(t, path) ==
  /\ Len(t.before) + Len(t.after) <= Len(path)
  /\ path = t.before \o ArgOf(t, path) \o t.after
  /\ IF t.param THEN ~ HasSlash(ArgOf(t, path)) ELSE ArgOf(t, path) = << >>

=============================================================================
