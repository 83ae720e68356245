------------------------ MODULE PrinterStatusProofs ------------------------
(***************************************************************************)
(* parsePrinterState reads from every reply, of any length and in any      *)
(* order, exactly what the reply tells; and what GET /printers/{id}/status *)
(* makes of it and of lpstat holds for any replies and any changes.        *)
(***************************************************************************)
EXTENDS PrinterStatus, SequenceLemmas, FiniteSetTheorems

-----------------------------------------------------------------------------
(* The loop of parsePrinterState takes one item after the other.           *)
After(items, n, st) == IF n = 0 THEN Start ELSE ReadItem(st[n - 1], items[n])

Runs(items, m, st) == st = [n \in 0 .. m |-> After(items, n, st)]

LEMMA LoopExists ==
  ASSUME NEW items, NEW N \in Nat
  PROVE  \E st : Runs(items, N, st)
<1> DEFINE None(m) == ~ \E st : Runs(items, m, st)
           T == { m \in 0 .. N : None(m) }
<1>1. SUFFICES ASSUME T # {} PROVE FALSE
  OBVIOUS
<1>2. PICK m \in T : \A l \in T : m <= l
  <2>1. T \in SUBSET Nat
    OBVIOUS
  <2> HIDE DEF T
  <2> QED
    BY <1>1, <2>1, LeastNumber
<1>3. CASE m = 0
  <2> DEFINE st == [n \in 0 .. 0 |-> Start]
  <2>1. \A n \in 0 .. 0 : After(items, n, st) = Start
    BY DEF After
  <2>2. Runs(items, 0, st)
    BY <2>1 DEF Runs
  <2> QED
    BY <1>3, <2>2
<1>4. CASE m # 0
  <2>1. m \in Nat /\ m - 1 \in 0 .. N /\ m - 1 < m
    BY <1>4
  <2>2. m - 1 \notin T
    BY <1>2, <2>1
  <2>3. PICK g : Runs(items, m - 1, g)
    BY <2>1, <2>2
  <2> DEFINE h == [n \in 0 .. m |-> IF n < m THEN g[n] ELSE ReadItem(g[m - 1], items[m])]
  <2>4. \A n \in 0 .. m - 1 : g[n] = After(items, n, g)
    BY <2>3 DEF Runs
  <2>5. ASSUME NEW n \in 0 .. m PROVE h[n] = After(items, n, h)
    <3>1. CASE n = m
      <4>1. h[m - 1] = g[m - 1] /\ h[m] = ReadItem(g[m - 1], items[m])
        BY <2>1
      <4> QED
        BY <3>1, <4>1, <1>4 DEF After
    <3>2. CASE n < m
      <4>1. n \in 0 .. m - 1 /\ h[n] = g[n]
        BY <3>2, <2>1
      <4>2. n # 0 => h[n - 1] = g[n - 1]
        BY <3>2, <2>1
      <4> HIDE DEF h
      <4> QED
        BY <2>4, <4>1, <4>2 DEF After
    <3> QED
      BY <3>1, <3>2, <2>1
  <2>6. Runs(items, m, h)
    BY <2>5 DEF Runs
  <2> QED
    BY <2>6
<1> QED
  BY <1>3, <1>4

LEMMA Unrolled ==
  ASSUME NEW items, Len(items) \in Nat
  PROVE  /\ ReadUpTo(items)[0] = Start
         /\ \A n \in 1 .. Len(items) :
              ReadUpTo(items)[n] = ReadItem(ReadUpTo(items)[n - 1], items[n])
<1> DEFINE st == ReadUpTo(items)
           N == Len(items)
<1>1. st = CHOOSE f : Runs(items, N, f)
  BY Zenon DEF ReadUpTo, Runs, After
<1> HIDE DEF st, N
<1>2. N \in Nat
  BY DEF N
<1>3. Runs(items, N, st)
  BY <1>1, <1>2, LoopExists
<1>4. \A n \in 0 .. N : st[n] = After(items, n, st)
  BY <1>3 DEF Runs
<1>5. st[0] = Start
  BY <1>2, <1>4 DEF After
<1>6. \A n \in 1 .. N : st[n] = ReadItem(st[n - 1], items[n])
  BY <1>2, <1>4 DEF After
<1> QED
  BY <1>5, <1>6 DEF st, N

-----------------------------------------------------------------------------
(* What one more item changes in what is said of a reply as a whole.       *)
LEMMA LastIs ==
  ASSUME NEW S \in SUBSET Nat, NEW n \in S, \A y \in S : y <= n
  PROVE  Max(S) = n
<1>1. n \in S /\ \A y \in S : n >= y
  OBVIOUS
<1>2. \A x \in S : (\A y \in S : x >= y) => x = n
  OBVIOUS
<1> QED
  BY <1>1, <1>2 DEF Max

LEMMA GroupStep ==
  ASSUME NEW items
  PROVE  /\ GroupAt(items, 0) = 0
         /\ \A n \in Nat : GroupAt(items, n + 1) =
              IF items[n + 1].kind = "group" THEN items[n + 1].tag ELSE GroupAt(items, n)
<1> DEFINE Opened(n) == { j \in 1 .. n : items[j].kind = "group" }
<1>1. \A n : GroupAt(items, n) =
               IF Opened(n) = {} THEN 0 ELSE items[Max(Opened(n))].tag
  BY DEF GroupAt
<1>2. Opened(0) = {}
  OBVIOUS
<1>3. ASSUME NEW n \in Nat, items[n + 1].kind = "group"
      PROVE  Opened(n + 1) # {} /\ Max(Opened(n + 1)) = n + 1
  <2>1. Opened(n + 1) \in SUBSET Nat /\ n + 1 \in Opened(n + 1)
    BY <1>3
  <2>2. \A y \in Opened(n + 1) : y <= n + 1
    OBVIOUS
  <2> HIDE DEF Opened
  <2> QED
    BY <2>1, <2>2, LastIs
<1>4. ASSUME NEW n \in Nat, items[n + 1].kind # "group"
      PROVE  Opened(n + 1) = Opened(n)
  BY <1>4
<1> HIDE DEF Opened
<1> QED
  BY <1>1, <1>2, <1>3, <1>4

LEMMA NameStep ==
  ASSUME NEW items
  PROVE  /\ NameAt(items, 0) = ""
         /\ \A n \in Nat :
              /\ items[n + 1].kind = "group" => NameAt(items, n + 1) = ""
              /\ items[n + 1].kind = "value" =>
                   NameAt(items, n + 1) = IF items[n + 1].name # "" THEN items[n + 1].name
                                          ELSE NameAt(items, n)
<1> DEFINE Named(n) ==
             { j \in 1 .. n : /\ items[j].kind = "value" /\ items[j].name # ""
                              /\ \A k \in j .. n : items[k].kind # "group" }
<1>1. \A n : NameAt(items, n) = IF Named(n) = {} THEN "" ELSE items[Max(Named(n))].name
  BY DEF NameAt
<1>2. Named(0) = {}
  OBVIOUS
<1>3. ASSUME NEW n \in Nat, items[n + 1].kind = "group"
      PROVE  Named(n + 1) = {}
  <2>1. \A j \in 1 .. n + 1 : n + 1 \in j .. n + 1
    OBVIOUS
  <2> QED
    BY <2>1, <1>3
<1>4. ASSUME NEW n \in Nat, items[n + 1].kind = "value", items[n + 1].name # ""
      PROVE  Named(n + 1) # {} /\ Max(Named(n + 1)) = n + 1
  <2> DEFINE m == n + 1
  <2>0. m \in Nat \ {0}
    OBVIOUS
  <2> HIDE DEF m
  <2>1. Named(m) \in SUBSET (1 .. m)
    OBVIOUS
  <2>2. m \in 1 .. m /\ \A k \in m .. m : k = m
    BY <2>0
  <2>3. items[m].kind # "group"
    BY <1>4 DEF m
  <2>4. m \in Named(m)
    BY <1>4, <2>2, <2>3 DEF m
  <2> HIDE DEF Named
  <2>5. Named(m) \in SUBSET Nat /\ \A y \in Named(m) : y <= m
    BY <2>0, <2>1
  <2> QED
    BY <2>4, <2>5, LastIs DEF m
<1>5. ASSUME NEW n \in Nat, items[n + 1].kind = "value", items[n + 1].name = ""
      PROVE  Named(n + 1) = Named(n)
  <2> DEFINE Kept(j, m) == \A k \in j .. m : items[k].kind # "group"
  <2>1. \A j \in 1 .. n : Kept(j, n + 1) <=> Kept(j, n)
    <3>1. \A j \in 1 .. n : \A k : k \in j .. n + 1 <=> k \in j .. n \/ k = n + 1
      OBVIOUS
    <3> QED
      BY <3>1, <1>5
  <2>2. \A j : j \in 1 .. n + 1 <=> j \in 1 .. n \/ j = n + 1
    OBVIOUS
  <2>3. \A m : Named(m) = { j \in 1 .. m : /\ items[j].kind = "value"
                                         /\ items[j].name # "" /\ Kept(j, m) }
    OBVIOUS
  <2> HIDE DEF Named, Kept
  <2> QED
    BY <2>1, <2>2, <2>3, <1>5
<1> HIDE DEF Named
<1> QED
  BY <1>1, <1>2, <1>3, <1>4, <1>5

LEMMA GiversStart ==
  ASSUME NEW items, NEW name
  PROVE  /\ Givers(items, 0, name) = {}
         /\ \A n \in Nat : Givers(items, n, name) \in SUBSET (1 .. n)
BY DEF Givers

LEMMA GiversStep ==
  ASSUME NEW items, NEW name, NEW n \in Nat
  PROVE  IF /\ items[n + 1].kind = "value"
            /\ GroupAt(items, n + 1) = PrinterGroup /\ NameAt(items, n + 1) = name
         THEN /\ n + 1 \in Givers(items, n + 1, name)
              /\ Givers(items, n + 1, name) = Givers(items, n, name) \cup {n + 1}
         ELSE /\ n + 1 \notin Givers(items, n + 1, name)
              /\ Givers(items, n + 1, name) = Givers(items, n, name)
<1> DEFINE Gives(i) == /\ items[i].kind = "value"
                       /\ GroupAt(items, i) = PrinterGroup /\ NameAt(items, i) = name
<1>1. \A m : Givers(items, m, name) = { i \in 1 .. m : Gives(i) }
  BY DEF Givers
<1> HIDE DEF Gives
<1>2. \A i : i \in 1 .. n + 1 <=> i \in 1 .. n \/ i = n + 1
  OBVIOUS
<1>3. IF Gives(n + 1)
        THEN /\ n + 1 \in Givers(items, n + 1, name)
             /\ Givers(items, n + 1, name) = Givers(items, n, name) \cup {n + 1}
        ELSE /\ n + 1 \notin Givers(items, n + 1, name)
             /\ Givers(items, n + 1, name) = Givers(items, n, name)
  BY <1>1, <1>2
<1> QED
  BY <1>3 DEF Gives

-----------------------------------------------------------------------------
(* The reasons read so far: one for each value, in the order of the values *)
Values(items) == { items[i].value : i \in 1 .. Len(items) }

Rank(items, n, i) ==
  Cardinality(Givers(items, n, "printer-state-reasons") \cap (1 .. i))

Lists(items, n, reasons) ==
  LET givers == Givers(items, n, "printer-state-reasons")
  IN  /\ IsFiniteSet(givers)
      /\ reasons \in Seq(Values(items)) /\ Len(reasons) = Cardinality(givers)
      /\ \A i \in givers : /\ Rank(items, n, i) \in 1 .. Len(reasons)
                           /\ reasons[Rank(items, n, i)] = items[i].value
      /\ \A k \in 1 .. Len(reasons) : \E i \in givers : Rank(items, n, i) = k

LEMMA ReasonsStep ==
  ASSUME NEW items, AreItems(items), NEW n \in Nat, n + 1 <= Len(items),
         NEW reasons, Lists(items, n, reasons),
         n + 1 \in Givers(items, n + 1, "printer-state-reasons")
  PROVE  Lists(items, n + 1, Append(reasons, items[n + 1].value))
<1> DEFINE m == n + 1
           P == Givers(items, n, "printer-state-reasons")
           Q == Givers(items, m, "printer-state-reasons")
           v == items[m].value
           longer == Append(reasons, v)
           c == Len(reasons)
           V == Values(items)
           before(i) == Cardinality(P \cap (1 .. i))
           after(i) == Cardinality(Q \cap (1 .. i))
<1>1. Q = P \cup {m} /\ P \in SUBSET (1 .. n)
  BY GiversStart, GiversStep
<1>2. v \in V
  BY DEF Values, AreItems
<1>3. /\ IsFiniteSet(P) /\ reasons \in Seq(V) /\ c = Cardinality(P)
      /\ \A i \in P : before(i) \in 1 .. c /\ reasons[before(i)] = items[i].value
      /\ \A k \in 1 .. c : \E i \in P : before(i) = k
  BY DEF Lists, Rank
<1> HIDE DEF P, Q, v, V
<1>4. c \in Nat /\ m \in Nat /\ m = n + 1
  BY <1>3
<1>5. /\ longer \in Seq(V) /\ Len(longer) = c + 1 /\ longer[c + 1] = v
      /\ \A k \in 1 .. c : longer[k] = reasons[k]
  BY <1>2, <1>3
<1> HIDE DEF longer, c, m
<1>6. m \notin P /\ \A i \in P : i \in Nat /\ i < m
  BY <1>1, <1>4
<1>7. IsFiniteSet(Q) /\ Cardinality(Q) = c + 1
  BY <1>1, <1>3, <1>6, FS_AddElement
<1>8. \A i \in P : after(i) = before(i)
  <2> TAKE i \in P
  <2>1. m \notin 1 .. i
    BY <1>4, <1>6
  <2>2. Q \cap (1 .. i) = P \cap (1 .. i)
    BY <1>1, <2>1
  <2> QED
    BY <2>2
<1>9. after(m) = c + 1
  <2>1. \A i \in Q : i \in 1 .. m
    BY <1>1, <1>4
  <2>2. Q \cap (1 .. m) = Q
    BY <2>1
  <2> QED
    BY <2>2, <1>7
<1> HIDE DEF before, after
<1>10. ASSUME NEW i \in Q
       PROVE  after(i) \in 1 .. c + 1 /\ longer[after(i)] = items[i].value
  <2>1. CASE i \in P
    <3>1. before(i) \in 1 .. c /\ reasons[before(i)] = items[i].value /\ after(i) = before(i)
      BY <2>1, <1>3, <1>8
    <3> QED
      BY <3>1, <1>4, <1>5
  <2>2. CASE i = m
    BY <2>2, <1>4, <1>5, <1>9 DEF v
  <2> QED
    BY <2>1, <2>2, <1>1
<1>11. ASSUME NEW k \in 1 .. c + 1
       PROVE  \E i \in Q : after(i) = k
  <2>1. CASE k \in 1 .. c
    BY <2>1, <1>1, <1>3, <1>8
  <2>2. CASE k = c + 1
    BY <2>2, <1>1, <1>9
  <2> QED
    BY <2>1, <2>2, <1>4
<1>12. Lists(items, m, longer)
  BY <1>5, <1>7, <1>10, <1>11 DEF Lists, Rank, Q, V, after
<1> QED
  BY <1>12 DEF longer, m, v

LEMMA ReasonsKeep ==
  ASSUME NEW items, NEW n \in Nat, NEW reasons, Lists(items, n, reasons),
         n + 1 \notin Givers(items, n + 1, "printer-state-reasons")
  PROVE  Lists(items, n + 1, reasons)
<1>1. Givers(items, n + 1, "printer-state-reasons") = Givers(items, n, "printer-state-reasons")
  BY GiversStep
<1> QED
  BY <1>1 DEF Lists, Rank

-----------------------------------------------------------------------------
Fields == {"group", "name", "ended", "invalid", "seen", "reasons"}

(* The variables of the loop as long as every item was a fine one: the     *)
(* group and the attribute it is in, and the values read so far.           *)
Loop(items, n, st) ==
  /\ DOMAIN st = Fields /\ ~ st.ended /\ ~ st.invalid
  /\ st.group = GroupAt(items, n) /\ st.name = NameAt(items, n)
  /\ \A name : name \in DOMAIN st.seen <=>
                 name \in Required /\ Givers(items, n, name) # {}
  /\ \A name \in Required : \A i \in Givers(items, n, name) :
       st.seen[name] = items[i].value
  /\ Lists(items, n, st.reasons)

(* What the assignments of an iteration leave alone.                       *)
Moved(next, group, name, values, reasons) ==
  /\ DOMAIN next = Fields /\ ~ next.ended /\ ~ next.invalid
  /\ next.group = group /\ next.name = name /\ next.seen = values /\ next.reasons = reasons

LEMMA Assigned ==
  ASSUME NEW st, DOMAIN st = Fields, ~ st.ended, ~ st.invalid, NEW x, NEW y
  PROVE  /\ Moved([st EXCEPT !.name = x], st.group, x, st.seen, st.reasons)
         /\ Moved([st EXCEPT !.group = y, !.name = x], y, x, st.seen, st.reasons)
         /\ Moved([st EXCEPT !.name = x, !.seen = y], st.group, x, y, st.reasons)
         /\ Moved([st EXCEPT !.name = x, !.reasons = y], st.group, x, st.seen, y)
<1>1. Moved([st EXCEPT !.name = x], st.group, x, st.seen, st.reasons)
  BY DEF Moved, Fields
<1>2. Moved([st EXCEPT !.group = y, !.name = x], y, x, st.seen, st.reasons)
  BY DEF Moved, Fields
<1>3. Moved([st EXCEPT !.name = x, !.seen = y], st.group, x, y, st.reasons)
  BY DEF Moved, Fields
<1>4. Moved([st EXCEPT !.name = x, !.reasons = y], st.group, x, st.seen, y)
  BY DEF Moved, Fields
<1> QED
  BY <1>1, <1>2, <1>3, <1>4

LEMMA LoopStart ==
  ASSUME NEW items
  PROVE  Loop(items, 0, Start)
<1>1. \A name : Givers(items, 0, name) = {}
  BY GiversStart
<1>2. GroupAt(items, 0) = 0 /\ NameAt(items, 0) = ""
  BY GroupStep, NameStep
<1>3. Lists(items, 0, << >>)
  BY <1>1, FS_EmptySet DEF Lists
<1>4. DOMAIN Start = Fields /\ ~ Start.ended /\ ~ Start.invalid
  BY DEF Start, Fields
<1>5. /\ Start.group = 0 /\ Start.name = "" /\ Start.seen = << >> /\ Start.reasons = << >>
  BY DEF Start
<1>6. DOMAIN << >> = {}
  OBVIOUS
<1> HIDE DEF Start
<1> QED
  BY <1>1, <1>2, <1>3, <1>4, <1>5, <1>6 DEF Loop

(* A delimiter opens a group, and ends the attribute before it.            *)
LEMMA LoopGroup ==
  ASSUME NEW items, NEW n \in Nat, NEW st, Loop(items, n, st), items[n + 1].kind = "group"
  PROVE  Loop(items, n + 1, ReadItem(st, items[n + 1]))
<1> DEFINE m == n + 1
           item == items[m]
           next == ReadItem(st, item)
<1>1. \A name : m \notin Givers(items, m, name)
                /\ Givers(items, m, name) = Givers(items, n, name)
  BY GiversStep, item.kind # "value"
<1>2. GroupAt(items, m) = item.tag /\ NameAt(items, m) = ""
  BY GroupStep, NameStep
<1>3. Lists(items, m, st.reasons)
  BY <1>1, ReasonsKeep DEF Loop
<1>4. next = [st EXCEPT !.group = item.tag, !.name = ""]
  BY DEF ReadItem, Loop
<1> HIDE DEF m, item, next
<1>5. Moved(next, item.tag, "", st.seen, st.reasons)
  BY <1>4, Assigned DEF Loop
<1>6. /\ DOMAIN next = Fields /\ ~ next.ended /\ ~ next.invalid
      /\ next.group = item.tag /\ next.name = "" /\ next.seen = st.seen
      /\ next.reasons = st.reasons
  BY <1>5 DEF Moved
<1>7. Loop(items, m, next)
  BY <1>1, <1>2, <1>3, <1>6 DEF Loop
<1> QED
  BY <1>7 DEF next, item, m

(* A fine value is read as one of the group and the attribute it is in.    *)
LEMMA LoopValue ==
  ASSUME NEW items, AreItems(items), NEW n \in Nat, n + 1 <= Len(items),
         NEW st, Loop(items, n, st),
         items[n + 1].kind = "value", FineItem(items, n + 1)
  PROVE  Loop(items, n + 1, ReadItem(st, items[n + 1]))
<1> DEFINE m == n + 1
           item == items[m]
           next == ReadItem(st, item)
           name == NameAt(items, m)
           group == GroupAt(items, m)
           wanted == group = PrinterGroup /\ name \in Wanted
           more == [w \in DOMAIN st.seen \cup {name} |->
                      IF w = name THEN item.value ELSE st.seen[w]]
<1>1. /\ group = st.group
      /\ name = IF item.name = "" THEN st.name ELSE item.name
  BY GroupStep, NameStep DEF Loop
<1>2. /\ group # 0 /\ name # ""
      /\ \A w \in Wanted : m \in Givers(items, m, w) => RightForm(w, item)
      /\ \A w \in Required : m \in Givers(items, m, w) => Givers(items, m - 1, w) = {}
  BY DEF FineItem
<1>3. m - 1 = n
  OBVIOUS
<1>4. \A w : /\ m \in Givers(items, m, w) <=> group = PrinterGroup /\ w = name
             /\ Givers(items, m, w) = IF m \in Givers(items, m, w)
                                        THEN Givers(items, n, w) \cup {m}
                                        ELSE Givers(items, n, w)
  BY GiversStep
<1>5. "printer-state-reasons" \notin Required
  BY DEF Required
<1>6. wanted => Usable(st, name, item)
  BY <1>2, <1>3, <1>4, <1>5 DEF Usable, Loop, Wanted
<1>7. next = ReadValue(st, item)
  BY DEF ReadItem, Loop
<1>8. next = IF ~ wanted THEN [st EXCEPT !.name = name]
             ELSE IF name \in Required THEN [st EXCEPT !.name = name, !.seen = more]
             ELSE [st EXCEPT !.name = name, !.reasons = Append(st.reasons, item.value)]
  <2> DEFINE Read(w) ==
        IF w = "" \/ st.group = 0
             \/ (st.group = PrinterGroup /\ w \in Wanted /\ ~ Usable(st, w, item))
          THEN [st EXCEPT !.invalid = TRUE]
        ELSE IF ~ (st.group = PrinterGroup /\ w \in Wanted) THEN [st EXCEPT !.name = w]
        ELSE IF w \in Required
          THEN [st EXCEPT !.name = w,
                  !.seen = [a \in DOMAIN st.seen \cup {w} |->
                              IF a = w THEN item.value ELSE st.seen[a]]]
          ELSE [st EXCEPT !.name = w, !.reasons = Append(st.reasons, item.value)]
  <2>1. ReadValue(st, item) = Read(IF item.name = "" THEN st.name ELSE item.name)
    BY DEF ReadValue
  <2> HIDE DEF Read
  <2>2. next = Read(name)
    BY <1>1, <1>7, <2>1
  <2>3. group = st.group
    BY <1>1
  <2> HIDE DEF next, item, name, group
  <2> QED
    BY <1>2, <1>6, <2>2, <2>3 DEF Read
<1> HIDE DEF next, more, item
<1>9. IF ~ wanted THEN Moved(next, st.group, name, st.seen, st.reasons)
      ELSE IF name \in Required THEN Moved(next, st.group, name, more, st.reasons)
      ELSE Moved(next, st.group, name, st.seen, Append(st.reasons, item.value))
  <2>1. DOMAIN st = Fields /\ ~ st.ended /\ ~ st.invalid
    BY DEF Loop
  <2> HIDE DEF name, wanted
  <2>2. /\ Moved([st EXCEPT !.name = name], st.group, name, st.seen, st.reasons)
        /\ Moved([st EXCEPT !.name = name, !.seen = more],
                 st.group, name, more, st.reasons)
        /\ Moved([st EXCEPT !.name = name, !.reasons = Append(st.reasons, item.value)],
                 st.group, name, st.seen, Append(st.reasons, item.value))
    BY <2>1, Assigned
  <2> QED
    BY <1>8, <2>2
<1> DEFINE Reads(values, reasons) ==
             /\ DOMAIN next = Fields /\ ~ next.ended /\ ~ next.invalid
             /\ next.group = group /\ next.name = name
             /\ next.seen = values /\ next.reasons = reasons
<1>10. IF ~ wanted THEN Reads(st.seen, st.reasons)
       ELSE IF name \in Required THEN Reads(more, st.reasons)
       ELSE Reads(st.seen, Append(st.reasons, item.value))
  <2>1. group = st.group
    BY <1>1
  <2> HIDE DEF name, group
  <2> QED
    BY <1>9, <2>1 DEF Moved
<1>11. CASE ~ wanted
  <2>1. \A w \in Wanted : m \notin Givers(items, m, w)
    BY <1>4, <1>11
  <2>2. Lists(items, m, st.reasons)
    BY <2>1, ReasonsKeep DEF Wanted, Loop
  <2>3. \A w \in Required : Givers(items, m, w) = Givers(items, n, w)
    BY <2>1, <1>4 DEF Wanted
  <2>4. Reads(st.seen, st.reasons)
    BY <1>10, <1>11
  <2> HIDE DEF m, name, group
  <2>5. Loop(items, m, next)
    BY <2>2, <2>3, <2>4 DEF Loop, name, group
  <2> QED
    BY <2>5 DEF next, item, m
<1>12. CASE wanted /\ name \in Required
  <2>1. /\ m \in Givers(items, m, name) /\ Givers(items, n, name) = {}
        /\ Givers(items, m, name) = {m}
        /\ \A w \in Wanted \ {name} : /\ m \notin Givers(items, m, w)
                                      /\ Givers(items, m, w) = Givers(items, n, w)
    BY <1>2, <1>3, <1>4, <1>12
  <2>2. Lists(items, m, st.reasons)
    BY <2>1, <1>5, <1>12, ReasonsKeep DEF Wanted, Loop
  <2>3. Reads(more, st.reasons)
    BY <1>10, <1>12
  <2>4. /\ DOMAIN more = {name} \cup DOMAIN st.seen
        /\ more[name] = item.value
        /\ \A w \in DOMAIN st.seen \ {name} : more[w] = st.seen[w]
    BY DEF more
  <2> HIDE DEF m, name, group
  <2>5. \A w : w \in DOMAIN more <=> w \in Required /\ Givers(items, m, w) # {}
    BY <2>1, <2>4, <1>12 DEF Loop, Wanted
  <2>6. \A w \in Required : \A i \in Givers(items, m, w) : more[w] = items[i].value
    BY <2>1, <2>4, <1>12 DEF Loop, Wanted, item
  <2>7. Loop(items, m, next)
    BY <2>2, <2>3, <2>5, <2>6 DEF Loop, name, group
  <2> QED
    BY <2>7 DEF next, m, item
<1>13. CASE wanted /\ name \notin Required
  <2>1. name = "printer-state-reasons" /\ m \in Givers(items, m, name)
    BY <1>4, <1>13 DEF Wanted
  <2>2. Lists(items, m, Append(st.reasons, item.value))
    BY <2>1, ReasonsStep DEF Loop, item
  <2>3. \A w \in Required : Givers(items, m, w) = Givers(items, n, w)
    BY <1>4, <1>13
  <2>4. Reads(st.seen, Append(st.reasons, item.value))
    BY <1>10, <1>13
  <2> HIDE DEF m, name, group
  <2>5. Loop(items, m, next)
    BY <2>2, <2>3, <2>4 DEF Loop, name, group
  <2> QED
    BY <2>5 DEF next, m, item
<1> QED
  BY <1>11, <1>12, <1>13

(* The end tag ends the loop with what was read up to it.                  *)
LEMMA LoopEnds ==
  ASSUME NEW items, NEW n \in Nat, NEW st, Loop(items, n, st), items[n + 1].kind = "end"
  PROVE  LET next == ReadItem(st, items[n + 1])
         IN  /\ next.ended /\ ~ next.invalid
             /\ next.seen = st.seen /\ next.reasons = st.reasons
<1>1. ReadItem(st, items[n + 1]) = [st EXCEPT !.ended = TRUE]
  BY DEF ReadItem, Loop
<1>2. DOMAIN st = Fields /\ ~ st.invalid
  BY DEF Loop
<1>3. /\ [st EXCEPT !.ended = TRUE].ended /\ ~ [st EXCEPT !.ended = TRUE].invalid
      /\ [st EXCEPT !.ended = TRUE].seen = st.seen
      /\ [st EXCEPT !.ended = TRUE].reasons = st.reasons
  BY <1>2 DEF Fields
<1> QED
  BY <1>1, <1>3

(* Any other item that is not a fine one makes the reply invalid.          *)
LEMMA LoopFails ==
  ASSUME NEW items, AreItems(items), NEW n \in Nat, n + 1 <= Len(items),
         NEW st, Loop(items, n, st),
         items[n + 1].kind # "end", ~ FineItem(items, n + 1)
  PROVE  ReadItem(st, items[n + 1]).invalid
<1> DEFINE m == n + 1
           item == items[m]
           name == NameAt(items, m)
           group == GroupAt(items, m)
<1>1. item.kind \in {"cut", "value"}
  <2>1. m \in 1 .. Len(items)
    BY DEF AreItems
  <2>2. item.kind \in {"group", "end", "cut", "value"}
    BY <2>1 DEF AreItems
  <2>3. item.kind # "group"
    BY DEF FineItem
  <2> QED
    BY <2>2, <2>3
<1>2. ~ st.invalid /\ ~ st.ended /\ "invalid" \in DOMAIN st
  BY DEF Loop, Fields
<1>3. [st EXCEPT !.invalid = TRUE].invalid
  BY <1>2
<1>4. CASE item.kind = "cut"
  BY <1>2, <1>3, <1>4 DEF ReadItem
<1>5. CASE item.kind = "value"
  <2>1. /\ group = st.group
        /\ name = IF item.name = "" THEN st.name ELSE item.name
    BY <1>5, GroupStep, NameStep DEF Loop
  <2>2. \/ group = 0 \/ name = ""
        \/ \E w \in Wanted : m \in Givers(items, m, w) /\ ~ RightForm(w, item)
        \/ \E w \in Required : m \in Givers(items, m, w) /\ Givers(items, m - 1, w) # {}
    BY <1>5 DEF FineItem
  <2>3. m - 1 = n
    OBVIOUS
  <2>4. \A w : m \in Givers(items, m, w) <=> group = PrinterGroup /\ w = name
    BY <1>5, GiversStep
  <2>5. \/ group = 0 \/ name = ""
        \/ group = PrinterGroup /\ name \in Wanted /\ ~ Usable(st, name, item)
    BY <2>2, <2>3, <2>4 DEF Usable, Loop, Wanted
  <2>6. ReadValue(st, item) = [st EXCEPT !.invalid = TRUE]
    BY <2>1, <2>5 DEF ReadValue
  <2>7. ReadItem(st, item) = ReadValue(st, item)
    BY <1>2, <1>5 DEF ReadItem
  <2> QED
    BY <1>3, <2>6, <2>7
<1> QED
  BY <1>1, <1>4, <1>5

-----------------------------------------------------------------------------
(* Over the whole reply: as long as the items are fine the loop goes on.   *)
LEMMA LoopGoesOn ==
  ASSUME NEW items, AreItems(items), NEW n \in 0 .. Len(items),
         \A i \in 1 .. n : FineItem(items, i)
  PROVE  Loop(items, n, ReadUpTo(items)[n])
<1> DEFINE st == ReadUpTo(items)
           T == { k \in 0 .. n : ~ Loop(items, k, st[k]) }
<1>0. n \in Nat /\ Len(items) \in Nat
  BY DEF AreItems
<1>1. st[0] = Start /\ \A k \in 1 .. Len(items) : st[k] = ReadItem(st[k - 1], items[k])
  BY <1>0, Unrolled
<1> HIDE DEF st
<1>2. SUFFICES ASSUME T # {} PROVE FALSE
  BY <1>0 DEF st
<1>3. PICK k \in T : \A l \in T : k <= l
  <2>1. T \in SUBSET Nat
    OBVIOUS
  <2> HIDE DEF T
  <2> QED
    BY <1>2, <2>1, LeastNumber
<1>4. k # 0
  BY <1>1, LoopStart
<1> DEFINE j == k - 1
<1>5. j \in Nat /\ j \in 0 .. n /\ j + 1 = k /\ k \in 1 .. n /\ k <= Len(items)
  BY <1>0, <1>4
<1>6. Loop(items, j, st[j])
  BY <1>3, <1>5
<1>7. st[k] = ReadItem(st[j], items[j + 1])
  BY <1>0, <1>1, <1>5
<1>8. FineItem(items, j + 1)
  BY <1>5
<1>9. ~ Loop(items, j + 1, ReadItem(st[j], items[j + 1]))
  BY <1>3, <1>5, <1>7
<1> HIDE DEF j
<1>10. items[j + 1].kind \in {"group", "value"}
  BY <1>8 DEF FineItem
<1> QED
  BY <1>0, <1>5, <1>6, <1>8, <1>9, <1>10, LoopGroup, LoopValue

(* Once it has ended or failed, nothing more is read.                      *)
LEMMA LoopStops ==
  ASSUME NEW items, AreItems(items), NEW n \in 0 .. Len(items),
         ReadUpTo(items)[n].ended \/ ReadUpTo(items)[n].invalid
  PROVE  ReadUpTo(items)[Len(items)] = ReadUpTo(items)[n]
<1> DEFINE st == ReadUpTo(items)
           N == Len(items)
           T == { k \in n .. N : st[k] # st[n] }
<1>0. n \in Nat /\ N \in Nat /\ n <= N
  BY DEF AreItems
<1>1. \A k \in 1 .. N : st[k] = ReadItem(st[k - 1], items[k])
  BY <1>0, Unrolled
<1>2. st[n].ended \/ st[n].invalid
  OBVIOUS
<1> HIDE DEF st, N
<1>3. SUFFICES ASSUME T # {} PROVE FALSE
  BY <1>0 DEF st, N
<1>4. PICK k \in T : \A l \in T : k <= l
  <2>1. T \in SUBSET Nat
    BY <1>0
  <2> HIDE DEF T
  <2> QED
    BY <1>3, <2>1, LeastNumber
<1>5. k \in n .. N /\ k # n /\ st[k] # st[n]
  BY <1>4
<1>6. k - 1 \in n .. N /\ k - 1 < k /\ k \in 1 .. N
  BY <1>0, <1>5
<1>7. st[k - 1] = st[n]
  BY <1>4, <1>6
<1>8. st[k] = ReadItem(st[n], items[k])
  BY <1>1, <1>6, <1>7
<1>9. st[k] = st[n]
  BY <1>8, <1>2 DEF ReadItem
<1> QED
  BY <1>5, <1>9
-----------------------------------------------------------------------------
(* What the loop has read when it ends is what the reply tells.            *)
Has(items, e, st) ==
  /\ e \in 1 .. Len(items) /\ items[e].kind = "end"
  /\ \A i \in 1 .. e - 1 : FineItem(items, i)
  /\ \A name : name \in DOMAIN st.seen <=>
                 name \in Required /\ Givers(items, e - 1, name) # {}
  /\ \A name \in Required : \A i \in Givers(items, e - 1, name) :
       st.seen[name] = items[i].value
  /\ Lists(items, e - 1, st.reasons)

(* An end tag with only fine items before it ends the loop.                *)
LEMMA EndIsReached ==
  ASSUME NEW items, AreItems(items), NEW e \in 1 .. Len(items), items[e].kind = "end",
         \A i \in 1 .. e - 1 : FineItem(items, i)
  PROVE  LET st == ReadUpTo(items)[Len(items)]
         IN  st.ended /\ ~ st.invalid /\ Has(items, e, st)
<1> DEFINE upTo == ReadUpTo(items)
           N == Len(items)
           before == upTo[e - 1]
           next == upTo[e]
<1>0. N \in Nat /\ e \in Nat /\ e - 1 \in Nat /\ e - 1 \in 0 .. N /\ e \in 0 .. N
  BY DEF AreItems
<1>1. Loop(items, e - 1, before)
  BY <1>0, LoopGoesOn
<1>2. next = ReadItem(before, items[e])
  BY <1>0, Unrolled
<1> HIDE DEF before, next
<1>3. (e - 1) + 1 = e
  BY <1>0
<1>4. /\ next.ended /\ ~ next.invalid
      /\ next.seen = before.seen /\ next.reasons = before.reasons
  BY <1>0, <1>1, <1>2, <1>3, LoopEnds
<1>5. Has(items, e, next)
  BY <1>0, <1>1, <1>4 DEF Has, Loop
<1>6. upTo[N] = next
  BY <1>0, <1>4, LoopStops DEF next
<1> QED
  BY <1>4, <1>5, <1>6

(* The loop ends without failing at such an end tag only.                  *)
LEMMA EndIsOfFineItems ==
  ASSUME NEW items, AreItems(items),
         ReadUpTo(items)[Len(items)].ended, ~ ReadUpTo(items)[Len(items)].invalid
  PROVE  \E e \in 1 .. Len(items) :
           items[e].kind = "end" /\ \A i \in 1 .. e - 1 : FineItem(items, i)
<1> DEFINE upTo == ReadUpTo(items)
           N == Len(items)
           T == { i \in 1 .. N : ~ FineItem(items, i) }
<1>0. N \in Nat
  BY DEF AreItems
<1>1. T # {}
  <2>1. SUFFICES ASSUME \A i \in 1 .. N : FineItem(items, i) PROVE FALSE
    OBVIOUS
  <2>2. Loop(items, N, upTo[N])
    BY <1>0, <2>1, LoopGoesOn
  <2> QED
    BY <2>2 DEF Loop
<1>2. PICK e \in T : \A i \in T : e <= i
  <2>1. T \in SUBSET Nat
    OBVIOUS
  <2> HIDE DEF T
  <2> QED
    BY <1>1, <2>1, LeastNumber
<1>3. /\ e \in 1 .. N /\ ~ FineItem(items, e)
      /\ \A i \in 1 .. e - 1 : FineItem(items, i)
  <2>1. e \in 1 .. N /\ ~ FineItem(items, e)
    OBVIOUS
  <2>2. \A i \in 1 .. e - 1 : i \in 1 .. N /\ ~ e <= i
    BY <1>0, <2>1
  <2> QED
    BY <1>2, <2>1, <2>2
<1>4. CASE items[e].kind = "end"
  BY <1>3, <1>4
<1>5. CASE items[e].kind # "end"
  <2> DEFINE n == e - 1
  <2>0. n \in Nat /\ n \in 0 .. N /\ n + 1 = e /\ n + 1 <= N
    BY <1>0, <1>3
  <2>1. Loop(items, n, upTo[n])
    BY <2>0, <1>3, LoopGoesOn
  <2>2. upTo[e] = ReadItem(upTo[n], items[e])
    BY <1>0, <1>3, Unrolled
  <2> HIDE DEF n, upTo
  <2>3. upTo[e].invalid
    BY <2>0, <2>1, <2>2, <1>3, <1>5, LoopFails
  <2>4. upTo[N] = upTo[e]
    BY <2>3, <1>0, <1>3, LoopStops DEF upTo
  <2> QED
    BY <2>3, <2>4 DEF upTo
<1> QED
  BY <1>4, <1>5
-----------------------------------------------------------------------------
(* The attributes made of what was read, field by field.                   *)
Gives(st, a) ==
  /\ a.state = st.seen["printer-state"]
  /\ a.accepting <=> st.seen["printer-is-accepting-jobs"] = 1
  /\ a.queued = st.seen["queued-job-count"]
  /\ a.reasons = st.reasons

Parsed(reply, a) ==
  LET p == ParsePrinterState(reply)
  IN  /\ p.error = "none"
      /\ p.attrs.state = a.state /\ p.attrs.queued = a.queued
      /\ p.attrs.accepting <=> a.accepting
      /\ p.attrs.reasons = a.reasons

(* When the loop ends well the result is made of what it has read.         *)
LEMMA ParsedWell ==
  ASSUME NEW reply, IsReply(reply)
  PROVE  LET st == ReadUpTo(reply.items)[Len(reply.items)]
             p  == ParsePrinterState(reply)
         IN  /\ p.error = "none" <=>
                  /\ reply.header = "ok" /\ reply.items # << >>
                  /\ st.ended /\ ~ st.invalid /\ Required \subseteq DOMAIN st.seen
             /\ p.error \in {"none", "other"}
             /\ p.error = "none" => p.responsive /\ Gives(st, p.attrs)
<1> DEFINE st == ReadUpTo(reply.items)[Len(reply.items)]
           p == ParsePrinterState(reply)
           good == /\ reply.header = "ok" /\ reply.items # << >>
                   /\ st.ended /\ ~ st.invalid /\ Required \subseteq DOMAIN st.seen
           attrs == [state     |-> st.seen["printer-state"],
                     accepting |-> st.seen["printer-is-accepting-jobs"] = 1,
                     queued    |-> st.seen["queued-job-count"],
                     reasons   |-> st.reasons]
<1>1. reply.header \in {"ok", "fault", "not_ours"}
  BY DEF IsReply
<1> HIDE DEF st
<1>2. CASE good
  <2>1. p = [responsive |-> TRUE, error |-> "none", attrs |-> attrs]
    BY <1>2 DEF ParsePrinterState, st
  <2>2. Gives(st, attrs)
    BY DEF Gives
  <2> HIDE DEF attrs
  <2>3. p.responsive /\ p.error = "none" /\ p.attrs = attrs
    BY <2>1
  <2> HIDE DEF p
  <2>4. p.responsive /\ p.error = "none" /\ Gives(st, p.attrs)
    BY <2>2, <2>3
  <2> QED
    BY <1>2, <2>4 DEF p, st
<1>3. CASE ~ good
  <2>1. p = Failed(FALSE) \/ p = Failed(TRUE)
    BY <1>1, <1>3 DEF ParsePrinterState, st
  <2>2. p.error = "other"
    BY <2>1 DEF Failed
  <2> HIDE DEF p
  <2> QED
    BY <1>3, <2>2 DEF p, st
<1> QED
  BY <1>2, <1>3

(* What the reply says, and nothing else, has been read.                   *)
LEMMA SaysWhatWasRead ==
  ASSUME NEW items, AreItems(items), NEW e, NEW st, Has(items, e, st),
         \A name \in Required : Givers(items, e - 1, name) # {}, NEW a
  PROVE  /\ Gives(st, a) => Says(items, e - 1, a)
         /\ a.reasons \in Seq(STRING) /\ Says(items, e - 1, a) => Gives(st, a)
<1> DEFINE n == e - 1
           Is(name, value) == \A i \in Givers(items, n, name) : items[i].value = value
           R == Givers(items, n, "printer-state-reasons")
           Listed == /\ Len(a.reasons) = Cardinality(R)
                     /\ \A i \in R : a.reasons[Rank(items, n, i)] = items[i].value
<1>1. Says(items, n, a) <=>
        /\ Is("printer-state", a.state) /\ Is("queued-job-count", a.queued)
        /\ Is("printer-is-accepting-jobs", IF a.accepting THEN 1 ELSE 0)
        /\ Listed
  BY DEF Says, Rank
<1>2. \A name \in Required : \A value : Is(name, value) <=> value = st.seen[name]
  BY DEF Has
<1>3. st.seen["printer-is-accepting-jobs"] \in {0, 1}
  <2> DEFINE name == "printer-is-accepting-jobs"
  <2>1. name \in Required /\ name \in Wanted
    BY DEF Required, Wanted
  <2>2. PICK i \in Givers(items, n, name) : TRUE
    BY <2>1
  <2>3. i \in 1 .. n /\ FineItem(items, i) /\ items[i].kind = "value"
    BY <2>2 DEF Has, Givers
  <2>4. i \in Givers(items, i, name)
    BY <2>2, <2>3 DEF Givers
  <2>5. RightForm(name, items[i])
    BY <2>1, <2>3, <2>4 DEF FineItem
  <2>6. items[i].value \in {0, 1}
    BY <2>5 DEF RightForm
  <2> QED
    BY <2>1, <2>2, <2>6 DEF Has
<1>4. Lists(items, n, st.reasons)
  BY DEF Has
<1>5. a.reasons = st.reasons => Listed
  BY <1>4 DEF Lists
<1>6. ASSUME a.reasons \in Seq(STRING), Listed
      PROVE  a.reasons = st.reasons
  <2> DEFINE S == STRING \cup Values(items)
             s == a.reasons
             t == st.reasons
  <2>1. s \in Seq(S) /\ t \in Seq(S)
    BY <1>4, <1>6 DEF Lists
  <2>2. Len(s) = Len(t)
    BY <1>4, <1>6 DEF Lists
  <2>3. ASSUME NEW k \in 1 .. Len(s) PROVE s[k] = t[k]
    <3>1. PICK i \in R : Rank(items, n, i) = k
      BY <1>4, <2>2 DEF Lists
    <3>2. t[k] = items[i].value
      BY <3>1, <1>4 DEF Lists
    <3>3. s[k] = items[i].value
      BY <3>1, <1>6
    <3> QED
      BY <3>2, <3>3
  <2> HIDE DEF S, s, t
  <2>4. s = t
    BY <2>1, <2>2, <2>3, EqualSeqs
  <2> QED
    BY <2>4 DEF s, t
<1> HIDE DEF Is, Listed, n
<1>7. {"printer-state", "queued-job-count", "printer-is-accepting-jobs"} = Required
  BY DEF Required
<1>8. Says(items, n, a) <=>
        /\ a.state = st.seen["printer-state"] /\ a.queued = st.seen["queued-job-count"]
        /\ (IF a.accepting THEN 1 ELSE 0) = st.seen["printer-is-accepting-jobs"]
        /\ Listed
  BY <1>1, <1>2, <1>7
<1> QED
  BY <1>3, <1>5, <1>6, <1>8 DEF n, Gives

(* parsePrinterState understands a reply exactly if every item up to its   *)
(* end is in its place and in its form and no required attribute is        *)
(* missing or given twice, and what it returns is what the reply tells:    *)
(* for replies of any length, with groups, names and values in any order.  *)
THEOREM ParserReads ==
  ASSUME NEW reply, IsReply(reply)
  PROVE  /\ ParsePrinterState(reply).error = "none" <=> Readable(reply)
         /\ Readable(reply) => Tells(reply, ParsePrinterState(reply).attrs)
         /\ \A a : Tells(reply, a) /\ a.reasons \in Seq(STRING) => Parsed(reply, a)
<1> DEFINE items == reply.items
           st == ReadUpTo(items)[Len(items)]
           p == ParsePrinterState(reply)
           Given(e) == \A name \in Required : Givers(items, e - 1, name) # {}
           Good == /\ reply.header = "ok" /\ items # << >>
                   /\ st.ended /\ ~ st.invalid /\ Required \subseteq DOMAIN st.seen
<1>1. AreItems(items) /\ DOMAIN items = 1 .. Len(items) /\ Len(items) \in Nat
  BY DEF IsReply, AreItems
<1>2. /\ p.error = "none" <=> Good
      /\ p.error = "none" => Gives(st, p.attrs)
  BY ParsedWell
<1>3. Readable(reply) <=>
        reply.header = "ok" /\ \E e \in 1 .. Len(items) : Complete(items, e)
  BY <1>1 DEF Readable
<1>4. \A a : Tells(reply, a) <=>
        /\ reply.header = "ok"
        /\ \E e \in 1 .. Len(items) : Complete(items, e) /\ Says(items, e - 1, a)
  BY <1>1 DEF Tells
<1> HIDE DEF st, p, items
<1>5. ASSUME NEW e \in 1 .. Len(items), Complete(items, e), reply.header = "ok"
      PROVE  Good /\ Has(items, e, st) /\ Given(e)
  <2>1. st.ended /\ ~ st.invalid /\ Has(items, e, st)
    BY <1>1, <1>5, EndIsReached DEF Complete, st
  <2>2. Given(e)
    BY <1>5 DEF Complete
  <2>3. Required \subseteq DOMAIN st.seen
    BY <2>1, <2>2 DEF Has
  <2>4. items # << >>
    OBVIOUS
  <2> QED
    BY <2>1, <2>2, <2>3, <2>4, <1>5
<1>6. ASSUME Good
      PROVE  \E e \in 1 .. Len(items) : Complete(items, e)
  <2>1. PICK e \in 1 .. Len(items) :
          items[e].kind = "end" /\ \A i \in 1 .. e - 1 : FineItem(items, i)
    BY <1>1, <1>6, EndIsOfFineItems DEF st
  <2>2. Has(items, e, st)
    BY <1>1, <2>1, EndIsReached DEF st
  <2>3. Given(e)
    BY <1>6, <2>2 DEF Has
  <2> QED
    BY <2>1, <2>3 DEF Complete
<1>7. ASSUME Readable(reply)
      PROVE  Tells(reply, p.attrs)
  <2>1. PICK e \in 1 .. Len(items) : Complete(items, e)
    BY <1>3, <1>7
  <2>2. Good /\ Has(items, e, st) /\ Given(e)
    BY <1>3, <1>5, <1>7, <2>1
  <2>3. Says(items, e - 1, p.attrs)
    BY <1>1, <1>2, <2>2, SaysWhatWasRead
  <2> QED
    BY <1>3, <1>4, <1>7, <2>1, <2>3
<1>8. ASSUME NEW a, Tells(reply, a), a.reasons \in Seq(STRING)
      PROVE  Parsed(reply, a)
  <2>1. PICK e \in 1 .. Len(items) : Complete(items, e) /\ Says(items, e - 1, a)
    BY <1>4, <1>8
  <2>2. Good /\ Has(items, e, st) /\ Given(e)
    BY <1>4, <1>5, <1>8, <2>1
  <2>3. Gives(st, a)
    BY <1>1, <1>8, <2>1, <2>2, SaysWhatWasRead
  <2>4. Gives(st, p.attrs) /\ p.error = "none"
    BY <1>2, <2>2
  <2> QED
    BY <2>3, <2>4 DEF Parsed, Gives, p
<1>9. p.error = "none" <=> Readable(reply)
  BY <1>2, <1>3, <1>5, <1>6
<1> QED
  BY <1>7, <1>8, <1>9 DEF p
-----------------------------------------------------------------------------
(* What the probe of a device returns: a device that answers is understood *)
(* and nothing is taken for the answer of one that does not.               *)
Understood(p, d) ==
  /\ p.error = "none"
  /\ p.attrs.state = d.attrs.state /\ p.attrs.queued = d.attrs.queued
  /\ p.attrs.accepting <=> d.attrs.accepting
  /\ p.attrs.reasons = d.attrs.reasons

LEMMA DeviceTypes ==
  ASSUME NEW d \in Devices
  PROVE  /\ d.condition = "answers" =>
              /\ d.attrs.state \in 3 .. 5 /\ d.attrs.accepting \in BOOLEAN
              /\ d.attrs.queued \in Nat /\ d.attrs.reasons \in Seq(STRING)
         /\ d.condition # "answers" => d.condition \in Conditions
<1>1. CASE d \in [condition : Conditions]
  BY <1>1 DEF Conditions, Unreachable, NoIpp, BadIpp
<1>2. CASE d \in [condition : {"answers"}, attrs : PrinterStates]
  BY <1>2, PrinterStatusAssumption
<1> QED
  BY <1>1, <1>2 DEF Devices

LEMMA ReplySays ==
  ASSUME NEW d \in Devices, NEW r \in RepliesOf(d)
  PROVE  LET p == ParsePrinterState(r)
         IN  IF d.condition = "answers" THEN Understood(p, d) ELSE p.error = "other"
<1>1. r \in Replies
  BY DEF RepliesOf
<1>2. IsReply(r)
  BY <1>1, PrinterStatusAssumption
<1>3. ParsePrinterState(r).error \in {"none", "other"}
  BY <1>2, ParsedWell
<1>4. CASE d.condition = "answers"
  <2>1. Tells(r, d.attrs)
    BY <1>4 DEF RepliesOf
  <2>2. d.attrs.reasons \in Seq(STRING)
    BY <1>4, DeviceTypes
  <2>3. Parsed(r, d.attrs)
    BY <1>2, <2>1, <2>2, ParserReads
  <2> QED
    BY <1>4, <2>3 DEF Parsed, Understood
<1>5. CASE d.condition # "answers"
  <2>1. r.header # "ok" \/ ~ Readable(r)
    BY <1>5 DEF RepliesOf
  <2>2. ~ Readable(r)
    BY <2>1 DEF Readable
  <2>3. ParsePrinterState(r).error # "none"
    BY <1>2, <2>2, ParserReads
  <2> QED
    BY <1>3, <1>5, <2>3
<1> QED
  BY <1>4, <1>5

LEMMA ProbeSays ==
  ASSUME NEW asked \in ProbeResults, asked[1] \in Devices
  PROVE  IF asked[1].condition = "answers" THEN Understood(asked[2], asked[1])
         ELSE asked[2].error \in {"unreachable", "other"}
<1> DEFINE Refused == { <<d, [responsive |-> FALSE, error |-> "unreachable"]>> :
                          d \in [condition : Unreachable] }
           Broken  == { <<d, Failed(FALSE)>> : d \in [condition : NoIpp] }
           Sent    == UNION { {d} \X RepliesOf(d) : d \in Devices }
           Read    == { <<sent[1], ParsePrinterState(sent[2])>> : sent \in Sent }
<1>1. asked \in Refused \/ asked \in Broken \/ asked \in Read
  BY DEF ProbeResults
<1>2. CASE asked \in Refused
  <2>1. PICK d \in [condition : Unreachable] :
          asked = <<d, [responsive |-> FALSE, error |-> "unreachable"]>>
    BY <1>2
  <2>2. d.condition # "answers"
    BY DEF Unreachable
  <2>3. asked[1] = d /\ asked[2].error = "unreachable"
    BY <2>1
  <2> QED
    BY <2>2, <2>3
<1>3. CASE asked \in Broken
  <2>1. PICK d \in [condition : NoIpp] : asked = <<d, Failed(FALSE)>>
    BY <1>3
  <2>2. d.condition # "answers"
    BY DEF NoIpp
  <2>3. asked[1] = d /\ asked[2] = Failed(FALSE)
    BY <2>1
  <2>4. Failed(FALSE).error = "other"
    BY DEF Failed
  <2> QED
    BY <2>2, <2>3, <2>4
<1>4. CASE asked \in Read
  <2>1. PICK sent \in Sent : asked = <<sent[1], ParsePrinterState(sent[2])>>
    BY <1>4
  <2>2. PICK d \in Devices : sent \in {d} \X RepliesOf(d)
    OBVIOUS
  <2>3. sent[1] = d /\ sent[2] \in RepliesOf(d)
    BY <2>2
  <2>4. asked[1] = d /\ asked[2] = ParsePrinterState(sent[2])
    BY <2>1, <2>3
  <2> HIDE DEF Sent, Read
  <2>5. IF d.condition = "answers" THEN Understood(asked[2], d) ELSE asked[2].error = "other"
    BY <2>3, <2>4, ReplySays
  <2> QED
    BY <2>4, <2>5
<1> QED
  BY <1>1, <1>2, <1>3, <1>4

-----------------------------------------------------------------------------
(* The inductive invariant: what was seen since the request came in has    *)
(* what there is now, and the CUPS status a probe is combined with was     *)
(* that of the destination at a moment of the request.                     *)
StatusTypeOK ==
  /\ hasURI \in BOOLEAN /\ device \in Devices
  /\ pc \in {"idle", "lpstat", "probe"}
  /\ seen.device \subseteq Devices

SeenInv == cups \in seen.cups /\ device \in seen.device

SampledInv == pc = "probe" => hasURI /\ (sampled = "ready" => "idle" \in seen.cups)

StatusInv ==
  StatusTypeOK /\ SeenInv /\ SampledInv
    /\ ReadyWasIdle /\ TroubleNeverReady /\ DeviceReadAsItSaid

(* What has been seen is not forgotten before the next request.            *)
LEMMA Watching ==
  ASSUME NEW reset \in BOOLEAN, Watch(reset), StatusInv, device' \in Devices
  PROVE  /\ cups' \in seen'.cups /\ device' \in seen'.device
         /\ seen'.device \subseteq Devices
         /\ ~ reset => seen.cups \subseteq seen'.cups /\ seen.device \subseteq seen'.device
<1>1. /\ seen'.cups = (IF reset THEN {} ELSE seen.cups) \cup {cups'}
      /\ seen'.device = (IF reset THEN {} ELSE seen.device) \cup {device'}
  BY DEF Watch
<1>2. seen.device \subseteq Devices
  BY DEF StatusInv, StatusTypeOK
<1> QED
  BY <1>1, <1>2

LEMMA InitStatus == Init => StatusInv
BY DEF Init, StatusInv, StatusTypeOK, SeenInv, SampledInv, ReadyWasIdle,
       TroubleNeverReady, DeviceReadAsItSaid, Answered

LEMMA GetPrinterStatusStep == StatusInv /\ GetPrinterStatus => StatusInv'
<1> SUFFICES ASSUME StatusInv, GetPrinterStatus PROVE StatusInv'
  OBVIOUS
<1>1. pc' = "lpstat" /\ UNCHANGED << hasURI, cups, device >> /\ Watch(TRUE)
  BY DEF GetPrinterStatus
<1>2. hasURI \in BOOLEAN /\ device \in Devices
  BY DEF StatusInv, StatusTypeOK
<1>3. cups' \in seen'.cups /\ device' \in seen'.device /\ seen'.device \subseteq Devices
  BY <1>1, <1>2, Watching
<1> QED
  BY <1>1, <1>2, <1>3 DEF StatusInv, StatusTypeOK, SeenInv, SampledInv, ReadyWasIdle,
     TroubleNeverReady, DeviceReadAsItSaid, Answered

LEMMA ReadCupsStep == StatusInv /\ ReadCups => StatusInv'
<1> SUFFICES ASSUME StatusInv, ReadCups PROVE StatusInv'
  OBVIOUS
<1>1. UNCHANGED << hasURI, cups, device >> /\ Watch(FALSE)
  BY DEF ReadCups
<1>2. hasURI \in BOOLEAN /\ device \in Devices
  BY DEF StatusInv, StatusTypeOK
<1>3. /\ cups' \in seen'.cups /\ device' \in seen'.device
      /\ seen'.device \subseteq Devices
  BY <1>1, <1>2, Watching
<1>4. PICK report \in CupsReports \cup {"failed"} :
        /\ LpstatSays(report)
        /\ IF hasURI
             THEN pc' = "probe" /\ sampled' = ClassifyCUPSStatus(report) /\ UNCHANGED result
             ELSE /\ pc' = "idle" /\ UNCHANGED sampled
                  /\ result' = [status     |-> ClassifyCUPSStatus(report),
                                cups       |-> ClassifyCUPSStatus(report),
                                responsive |-> "omitted", told |-> NotTold]
  BY DEF ReadCups
<1>5. ClassifyCUPSStatus(report) = "ready" => "idle" \in seen'.cups
  <2>1. ClassifyCUPSStatus(report) = "ready" => report = "idle"
    BY DEF ClassifyCUPSStatus
  <2>2. report = "idle" => report = cups
    BY <1>4 DEF LpstatSays
  <2> QED
    BY <1>1, <1>3, <2>1, <2>2
<1>6. CASE hasURI
  BY <1>1, <1>2, <1>3, <1>4, <1>5, <1>6 DEF StatusInv, StatusTypeOK, SeenInv, SampledInv,
     ReadyWasIdle, TroubleNeverReady, DeviceReadAsItSaid, Answered
<1>7. CASE ~ hasURI
  <2>1. pc' = "idle" /\ result'.status = ClassifyCUPSStatus(report) /\ ~ hasURI'
    BY <1>1, <1>4, <1>7
  <2> QED
    BY <1>1, <1>2, <1>3, <1>5, <2>1 DEF StatusInv, StatusTypeOK, SeenInv, SampledInv,
       ReadyWasIdle, TroubleNeverReady, DeviceReadAsItSaid, Answered
<1> QED
  BY <1>6, <1>7
(* How the status follows from the state of a device that answered.        *)
LEMMA Readiness ==
  ASSUME NEW attrs, NEW status, attrs.state \in 3 .. 5, attrs.queued \in Nat
  PROVE  LET ready == ClassifyPrinterReadiness(attrs, status)
         IN  /\ ready = "error" <=> attrs.state = 5 \/ ~ attrs.accepting
             /\ ready = "ready" => /\ attrs.state = 3 /\ attrs.accepting
                                   /\ attrs.queued = 0 /\ status = "ready"
BY DEF ClassifyPrinterReadiness

LEMMA ProbeStep == StatusInv /\ Probe => StatusInv'
<1> SUFFICES ASSUME StatusInv, Probe PROVE StatusInv'
  OBVIOUS
<1>1. /\ pc = "probe" /\ pc' = "idle" /\ Watch(FALSE)
      /\ UNCHANGED << hasURI, cups, device, sampled >>
  BY DEF Probe
<1>2. /\ hasURI \in BOOLEAN /\ device \in Devices
      /\ hasURI /\ (sampled = "ready" => "idle" \in seen.cups)
  BY <1>1 DEF StatusInv, StatusTypeOK, SampledInv
<1>3. /\ cups' \in seen'.cups /\ device \in seen'.device
      /\ seen'.device \subseteq Devices /\ seen.cups \subseteq seen'.cups
  BY <1>1, <1>2, Watching
<1>4. PICK asked \in ProbeResults :
        /\ asked[1] = device
        /\ result' = [status     |-> StatusAfterProbe(asked[2], sampled),
                      cups       |-> sampled,
                      responsive |-> IF asked[2].responsive THEN "yes" ELSE "no",
                      told       |-> IF asked[2].error = "none"
                                       THEN [queued  |-> {asked[2].attrs.queued},
                                             reasons |-> asked[2].attrs.reasons]
                                       ELSE NotTold]
  BY DEF Probe
<1> DEFINE p == asked[2]
<1>5. /\ result'.status = StatusAfterProbe(p, sampled)
      /\ result'.told = IF p.error = "none"
                          THEN [queued |-> {p.attrs.queued}, reasons |-> p.attrs.reasons]
                          ELSE NotTold
  BY <1>4
<1>6. IF device.condition = "answers" THEN Understood(p, device)
      ELSE p.error \in {"unreachable", "other"}
  BY <1>2, <1>4, ProbeSays
<1> HIDE DEF p
<1>7. StatusTypeOK' /\ SeenInv' /\ SampledInv'
  BY <1>1, <1>2, <1>3 DEF StatusTypeOK, SeenInv, SampledInv
<1>8. CASE device.condition = "answers"
  <2> DEFINE a == device.attrs
             ready == ClassifyPrinterReadiness(p.attrs, sampled)
  <2>1. /\ p.error = "none" /\ p.attrs.state = a.state /\ p.attrs.queued = a.queued
        /\ (p.attrs.accepting <=> a.accepting) /\ p.attrs.reasons = a.reasons
    BY <1>6, <1>8 DEF Understood
  <2>2. a.state \in 3 .. 5 /\ a.queued \in Nat
    BY <1>2, <1>8, DeviceTypes
  <2>3. result'.status = ready
    BY <1>5, <2>1 DEF StatusAfterProbe
  <2>4. /\ ready = "error" <=> a.state = 5 \/ ~ a.accepting
        /\ ready = "ready" => /\ a.state = 3 /\ a.accepting /\ a.queued = 0
                              /\ sampled = "ready"
    BY <2>1, <2>2, Readiness
  <2>5. result'.told = [queued |-> {a.queued}, reasons |-> a.reasons]
    BY <1>5, <2>1
  <2>6. result'.told # NotTold
    <3>1. [queued |-> {a.queued}, reasons |-> a.reasons].queued # NotTold.queued
      BY DEF NotTold
    <3> QED
      BY <2>5, <3>1
  <2> HIDE DEF ready
  <2>7. ReadyWasIdle'
    <3>1. ASSUME ready = "ready" PROVE "idle" \in seen'.cups /\ device \in IdleDevices
      BY <1>2, <1>3, <1>8, <2>4, <3>1 DEF IdleDevices
    <3> QED
      BY <1>3, <2>3, <3>1 DEF ReadyWasIdle
  <2>8. TroubleNeverReady'
    BY <1>3, <1>8, <2>3, <2>4 DEF TroubleNeverReady
  <2>9. DeviceReadAsItSaid'
    BY <1>3, <1>8, <2>3, <2>4, <2>5, <2>6 DEF DeviceReadAsItSaid
  <2> QED
    BY <1>7, <2>7, <2>8, <2>9 DEF StatusInv
<1>9. CASE device.condition # "answers"
  <2>1. p.error \in {"unreachable", "other"}
    BY <1>6, <1>9
  <2>2. result'.status \in {"starting", "error"} /\ result'.told = NotTold
    BY <1>5, <2>1 DEF StatusAfterProbe
  <2> QED
    BY <1>3, <1>7, <1>9, <2>2 DEF StatusInv, ReadyWasIdle, TroubleNeverReady,
       DeviceReadAsItSaid
<1> QED
  BY <1>8, <1>9

(* A change only adds to what has been seen since the request came in.     *)
LEMMA ChangeStep == StatusInv /\ Change => StatusInv'
<1> SUFFICES ASSUME StatusInv, Change PROVE StatusInv'
  OBVIOUS
<1>1. UNCHANGED << hasURI, pc, sampled, result >> /\ Watch(FALSE)
  BY DEF Change
<1>2. device' \in Devices
  BY DEF Change, StatusInv, StatusTypeOK
<1>3. /\ cups' \in seen'.cups /\ device' \in seen'.device
      /\ seen'.device \subseteq Devices
      /\ seen.cups \subseteq seen'.cups /\ seen.device \subseteq seen'.device
  BY <1>1, <1>2, Watching
<1>4. StatusTypeOK' /\ SeenInv' /\ SampledInv'
  BY <1>1, <1>2, <1>3 DEF StatusInv, StatusTypeOK, SeenInv, SampledInv
<1>5. ReadyWasIdle'
  BY <1>1, <1>3 DEF StatusInv, ReadyWasIdle, Answered
<1>6. TroubleNeverReady'
  BY <1>1, <1>3 DEF StatusInv, TroubleNeverReady, Answered
<1>7. DeviceReadAsItSaid'
  BY <1>1, <1>3 DEF StatusInv, DeviceReadAsItSaid, Answered
<1> QED
  BY <1>4, <1>5, <1>6, <1>7 DEF StatusInv

THEOREM StatusInvariance == Spec => []StatusInv
<1>1. Init => StatusInv
  BY InitStatus
<1>2. StatusInv /\ [Next]_vars => StatusInv'
  <2> SUFFICES ASSUME StatusInv, [Next]_vars PROVE StatusInv'
    OBVIOUS
  <2>1. CASE UNCHANGED vars
    BY <2>1 DEF vars, StatusInv, StatusTypeOK, SeenInv, SampledInv, ReadyWasIdle,
       TroubleNeverReady, DeviceReadAsItSaid, Answered
  <2> QED
    BY <2>1, GetPrinterStatusStep, ReadCupsStep, ProbeStep, ChangeStep DEF Next, Poll
<1> QED
  BY <1>1, <1>2, PTL DEF Spec

(* The answer is ready only if the destination, and a device that is       *)
(* asked, were each idle at some moment of the request.                    *)
THEOREM ReadyOnlyWhenIdle == Spec => []ReadyWasIdle
<1>1. StatusInv => ReadyWasIdle
  BY DEF StatusInv
<1> QED
  BY <1>1, StatusInvariance, PTL

(* A device in trouble throughout a request is never reported ready or     *)
(* busy, whatever it sends and whatever CUPS says.                         *)
THEOREM TroubleIsSeen == Spec => []TroubleNeverReady
<1>1. StatusInv => TroubleNeverReady
  BY DEF StatusInv
<1> QED
  BY <1>1, StatusInvariance, PTL

(* What the answer says of the device is what one well-formed reply of it  *)
(* said, and every well-formed reply is understood.                        *)
THEOREM DeviceIsReadRight == Spec => []DeviceReadAsItSaid
<1>1. StatusInv => DeviceReadAsItSaid
  BY DEF StatusInv
<1> QED
  BY <1>1, StatusInvariance, PTL

=============================================================================
