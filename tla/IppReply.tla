------------------------------ MODULE IppReply ------------------------------
(***************************************************************************)
(* The answer of a printer to Get-Printer-Attributes: parsePrinterState,   *)
(* which reads it item by item, and what a reply tells of the printer,     *)
(* said of the reply as a whole.                                           *)
(*                                                                         *)
(* A reply is a header and a sequence of items: group delimiters, values   *)
(* with the tag, the name and the size they are sent with ("" is the name  *)
(* of an additional value), the end tag, and "cut" where a length reaches  *)
(* past the end of the body.                                               *)
(***************************************************************************)
EXTENDS Integers, Sequences, FiniteSets, SequencesExt, FiniteSetsExt

Group(tag) == [kind |-> "group", tag |-> tag]
End        == [kind |-> "end"]
Cut        == [kind |-> "cut"]

Value(tag, name, size, value) ==
  [kind |-> "value", tag |-> tag, name |-> name, size |-> size, value |-> value]

AreItems(items) ==
  /\ Len(items) \in Nat /\ DOMAIN items = 1 .. Len(items)
  /\ \A i \in 1 .. Len(items) : items[i].kind \in {"group", "end", "cut", "value"}

(* "ok": the header of an answer to the request; "fault": of an answer     *)
(* that it failed; "not_ours": anything else.                              *)
IsReply(reply) ==
  reply.header \in {"ok", "fault", "not_ours"} /\ AreItems(reply.items)

PrinterGroup == 4

Required == {"printer-state", "queued-job-count", "printer-is-accepting-jobs"}

Wanted == Required \cup {"printer-state-reasons"}

-----------------------------------------------------------------------------
(* parsePrinterState: one item after the other, until it ends or fails.    *)

RightForm(name, item) ==
  CASE name = "printer-state"             ->
         item.tag = "enum" /\ item.size = 4 /\ item.value \in 3 .. 5
    [] name = "queued-job-count"          ->
         item.tag = "integer" /\ item.size = 4 /\ item.value >= 0
    [] name = "printer-is-accepting-jobs" ->
         item.tag = "boolean" /\ item.size = 1 /\ item.value \in {0, 1}
    [] name = "printer-state-reasons"     -> item.tag = "keyword" /\ item.size > 0

(* Mutant: of two values of an attribute the last one counts.              *)
MutUsable(st, name, item) == RightForm(name, item)

(* An attribute the state is made of has one value.                        *)
Usable(st, name, item) == RightForm(name, item) /\ name \notin DOMAIN st.seen

ReadValue(st, item) ==
  LET name  == IF item.name = "" THEN st.name ELSE item.name
      wanted == st.group = PrinterGroup /\ name \in Wanted
      values == [w \in DOMAIN st.seen \cup {name} |->
                   IF w = name THEN item.value ELSE st.seen[w]]
  IN  IF name = "" \/ st.group = 0 \/ (wanted /\ ~ Usable(st, name, item))
        THEN [st EXCEPT !.invalid = TRUE]
      ELSE IF ~ wanted THEN [st EXCEPT !.name = name]
      ELSE IF name \in Required
        THEN [st EXCEPT !.name = name, !.seen = values]
        ELSE [st EXCEPT !.name = name, !.reasons = Append(st.reasons, item.value)]

ReadItem(st, item) ==
  IF st.invalid \/ st.ended THEN st
  ELSE CASE item.kind = "end"   -> [st EXCEPT !.ended = TRUE]
         [] item.kind = "cut"   -> [st EXCEPT !.invalid = TRUE]
         [] item.kind = "group" -> [st EXCEPT !.group = item.tag, !.name = ""]
         [] item.kind = "value" -> ReadValue(st, item)

(* The result of a reply nothing is read from.                             *)
Failed(responsive) == [responsive |-> responsive, error |-> "other"]

Start ==
  [group |-> 0, name |-> "", ended |-> FALSE, invalid |-> FALSE,
   seen |-> << >>, reasons |-> << >>]

(* The variables of the loop after each number of items.                   *)
ReadUpTo(items) ==
  LET st[n \in 0 .. Len(items)] ==
        IF n = 0 THEN Start ELSE ReadItem(st[n - 1], items[n])
  IN  st

ParsePrinterState(reply) ==
  LET st == ReadUpTo(reply.items)[Len(reply.items)]
  IN  IF reply.header = "not_ours" \/ reply.items = << >> THEN Failed(FALSE)
      ELSE IF reply.header = "fault" \/ st.invalid \/ ~ st.ended
                \/ ~ Required \subseteq DOMAIN st.seen THEN Failed(TRUE)
      ELSE [responsive |-> TRUE, error |-> "none",
            attrs |-> [state     |-> st.seen["printer-state"],
                       accepting |-> st.seen["printer-is-accepting-jobs"] = 1,
                       queued    |-> st.seen["queued-job-count"],
                       reasons   |-> st.reasons]]

-----------------------------------------------------------------------------
(* Reference: what a reply tells, by the rules of RFC 8010.  A value       *)
(* belongs to the group opened last, and without a name of its own to the  *)
(* attribute named last in that group.                                     *)
GroupAt(items, i) ==
  LET opened == { j \in 1 .. i : items[j].kind = "group" }
  IN  IF opened = {} THEN 0 ELSE items[Max(opened)].tag

NameAt(items, i) ==
  LET named == { j \in 1 .. i : /\ items[j].kind = "value" /\ items[j].name # ""
                                /\ \A k \in j .. i : items[k].kind # "group" }
  IN  IF named = {} THEN "" ELSE items[Max(named)].name

(* The values of an attribute of the printer among the first n items.      *)
Givers(items, n, name) ==
  { i \in 1 .. n : /\ items[i].kind = "value"
                   /\ GroupAt(items, i) = PrinterGroup
                   /\ NameAt(items, i) = name }

(* Every value is of a group and an attribute, every value asked for has   *)
(* the form of its attribute, and one attribute has no second value.       *)
FineItem(items, i) ==
  \/ items[i].kind = "group"
  \/ /\ items[i].kind = "value"
     /\ GroupAt(items, i) # 0 /\ NameAt(items, i) # ""
     /\ \A name \in Wanted :
          i \in Givers(items, i, name) => RightForm(name, items[i])
     /\ \A name \in Required :
          i \in Givers(items, i, name) => Givers(items, i - 1, name) = {}

(* The attributes end at item e, and none that is required is missing.     *)
Complete(items, e) ==
  /\ items[e].kind = "end"
  /\ \A i \in 1 .. e - 1 : FineItem(items, i)
  /\ \A name \in Required : Givers(items, e - 1, name) # {}

(* The values are those of a, and the reasons are in their order.          *)
Says(items, n, a) ==
  LET Is(name, value) == \A i \in Givers(items, n, name) : items[i].value = value
      reasons == Givers(items, n, "printer-state-reasons")
  IN  /\ Is("printer-state", a.state)
      /\ Is("queued-job-count", a.queued)
      /\ Is("printer-is-accepting-jobs", IF a.accepting THEN 1 ELSE 0)
      /\ Len(a.reasons) = Cardinality(reasons)
      /\ \A i \in reasons :
           a.reasons[Cardinality(reasons \cap (1 .. i))] = items[i].value

Readable(reply) ==
  reply.header = "ok" /\ \E e \in DOMAIN reply.items : Complete(reply.items, e)

Tells(reply, a) ==
  /\ reply.header = "ok"
  /\ \E e \in DOMAIN reply.items :
       Complete(reply.items, e) /\ Says(reply.items, e - 1, a)

=============================================================================
