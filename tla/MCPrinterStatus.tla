-------------------------- MODULE MCPrinterStatus ---------------------------
(* Every state a printer reports, a queue that is empty or not, and up to  *)
(* two reasons.  MaxChanges is enough for one change before and one inside *)
(* a request on either side.                                               *)
EXTENDS PrinterStatus

Reasons(state) ==
  CASE state = 3 -> << "none" >>
    [] state = 4 -> << >>
    [] state = 5 -> << "paused", "media-empty" >>

MCPrinterStates ==
  { [state |-> s, accepting |-> a, queued |-> q, reasons |-> Reasons(s)] :
      s \in 3 .. 5, a \in BOOLEAN, q \in 0 .. 1 }

-----------------------------------------------------------------------------
Operation == 1      \* the group of the request's own attributes
Unsupported == 5

Message(items) == [header |-> "ok", items |-> items]

ReasonValues(reasons) ==
  [i \in DOMAIN reasons |->
     Value("keyword", IF i = 1 THEN "printer-state-reasons" ELSE "", 5, reasons[i])]

(* The attributes asked for, in any order.                                 *)
Blocks(a) ==
  { << Value("enum", "printer-state", 4, a.state) >>,
    << Value("integer", "queued-job-count", 4, a.queued) >>,
    << Value("boolean", "printer-is-accepting-jobs", 1, IF a.accepting THEN 1 ELSE 0) >>,
    ReasonValues(a.reasons) }

Preamble == << Group(Operation), Value("other", "attributes-charset", 5, "utf-8") >>

(* Attributes of other groups, and what follows the end, say nothing of    *)
(* the printer.                                                            *)
WellFormedReplies(a) ==
  { Message(before \o <<Group(PrinterGroup)>> \o FlattenSeq(blocks) \o after) :
      before \in { << >>, Preamble, Preamble \o <<Value("enum", "printer-state", 4, 5)>> },
      blocks \in SetToSeqs(Blocks(a)),
      after \in { <<End>>, <<End, Cut>>,
                  <<Group(Unsupported), Value("other", "queued-job-count", 0, 0), End>> } }

(* Every way to spoil one of the required values.                          *)
SpoiltValues(v) ==
  { [v EXCEPT !.tag = "other"], [v EXCEPT !.size = @ - 1],
    [v EXCEPT !.value = IF v.tag = "enum" THEN 6 ELSE IF v.tag = "integer" THEN -1 ELSE 2] }

(* A reply that stops, lacks a delimiter, a name or a required value, or   *)
(* has two values for one.                                                 *)
SpoiltReplies(reply) ==
  LET items == reply.items
      printer == CHOOSE i \in DOMAIN items : items[i] = Group(PrinterGroup)
      valued == { i \in DOMAIN items : items[i].kind = "value" /\ items[i].name \in Required }
  IN  { Message(s) : s \in
          { SubSeq(items, 1, i - 1) : i \in DOMAIN items }
          \cup { SubSeq(items, 1, i - 1) \o <<Cut>> : i \in DOMAIN items }
          \cup { RemoveAt(items, i) : i \in valued \cup {printer} }
          \cup { InsertAt(items, i + 1, [items[i] EXCEPT !.name = n]) :
                   i \in valued, n \in Required \cup {""} }
          \cup { InsertAt(items, printer + 1, [items[i] EXCEPT !.name = ""]) : i \in valued }
          \cup UNION { { [items EXCEPT ![i] = v] : v \in SpoiltValues(items[i]) } :
                         i \in valued } }

(* The replies to spoil: one layout, with and without a preamble.          *)
PlainReplies ==
  { Message(before \o <<Group(PrinterGroup)>> \o FlattenSeq(SetToSeq(Blocks(a))) \o <<End>>) :
      before \in { << >>, Preamble }, a \in PrinterStates }

MCReplies ==
  { [header |-> "not_ours", items |-> <<Cut>>] }
  \cup { [header |-> "fault", items |-> s] : s \in {<<End>>, <<Cut>>} }
  \cup UNION { WellFormedReplies(a) : a \in PrinterStates }
  \cup UNION { SpoiltReplies(r) : r \in PlainReplies }

(* The reference understands every layout, and refuses every spoilt reply. *)
ASSUME MCLayouts ==
  /\ \A a \in PrinterStates : \A r \in WellFormedReplies(a) : Tells(r, a)
  /\ \A r \in PlainReplies : \A s \in SpoiltReplies(r) : ~ Readable(s)
=============================================================================
