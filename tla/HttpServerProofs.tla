-------------------------- MODULE HttpServerProofs --------------------------
(***************************************************************************)
(* Safety of the HTTP layer for any number of requests at once, any paths, *)
(* keys and bodies, and any limits.                                        *)
(***************************************************************************)
EXTENDS HttpServer, SequenceLemmas

-----------------------------------------------------------------------------
(* The router: Route finds what the templates designate.                   *)

(* What a template designates, element by element: b, a and n are the      *)
(* lengths of its two ends and of the path.                                *)
Placed(t, p, b, a, n) ==
  /\ b + a <= n
  /\ \A i \in 1 .. b : p[i] = t.before[i]
  /\ \A i \in 1 .. a : p[n - a + i] = t.after[i]
  /\ IF t.param THEN \A i \in b + 1 .. n - a : p[i] # "/"
                ELSE n = b + a

LEMMA DesignatesMeans ==
  ASSUME NEW S, NEW p, NEW t, NEW b \in Nat, NEW a \in Nat, NEW n \in Nat
  PROVE  ( /\ p \in Seq(S) /\ t.before \in Seq(S) /\ t.after \in Seq(S)
           /\ b = Len(t.before) /\ a = Len(t.after) /\ n = Len(p) ) =>
         (Designates(t, p) <=> Placed(t, p, b, a, n))
<1>0. SUFFICES ASSUME p \in Seq(S), t.before \in Seq(S), t.after \in Seq(S),
                      b = Len(t.before), a = Len(t.after), n = Len(p)
               PROVE  Designates(t, p) <=> Placed(t, p, b, a, n)
  OBVIOUS
<1>1. CASE b + a <= n
  <2> DEFINE arg == ArgOf(t, p)
             k == n - a - b
  <2>1. /\ k \in Nat /\ k + (b + 1) = (n - a) + 1 /\ n - a \in Nat /\ n - a <= n
        /\ b + 1 \in Nat \ {0} /\ (k = 0 <=> n = b + a)
    BY <1>1
  <2>2. /\ \A i \in 1 .. k : b + i \in b + 1 .. n - a /\ b + 1 + i - 1 = b + i
        /\ \A i \in b + 1 .. n - a : i - b \in 1 .. k /\ b + (i - b) = i
    BY <1>1
  <2> HIDE DEF k
  <2>3. /\ arg \in Seq(S) /\ Len(arg) = k
        /\ \A i \in 1 .. k : arg[i] = p[b + 1 + i - 1]
    <3>1. arg = SubSeq(p, b + 1, n - a)
      BY <1>0 DEF ArgOf
    <3> HIDE DEF arg
    <3> DEFINE m == b + 1
               h == n - a
    <3>2. /\ k \in Nat /\ m \in Nat \ {0} /\ h \in Nat /\ k + m = h + 1
          /\ p \in Seq(S) /\ h <= Len(p)
      BY <2>1, <1>0
    <3> HIDE DEF m, h
    <3>3. LET q == SubSeq(p, m, h)
          IN  q \in Seq(S) /\ Len(q) = k /\ \A i \in 1 .. k : q[i] = p[m + i - 1]
      BY <3>2, Part
    <3> QED
      BY <3>1, <3>3, Zenon DEF m, h
  <2>4. p = t.before \o arg \o t.after <=>
          /\ \A i \in 1 .. b : p[i] = t.before[i]
          /\ \A i \in 1 .. a : p[n - a + i] = t.after[i]
    <3> DEFINE bs == t.before
               as == t.after
    <3>1. /\ p \in Seq(S) /\ bs \in Seq(S) /\ as \in Seq(S)
          /\ b = Len(bs) /\ a = Len(as) /\ n = Len(p)
      BY <1>0
    <3>2. arg = SubSeq(p, Len(bs) + 1, Len(p) - Len(as))
      BY DEF ArgOf
    <3>3. Len(bs) + Len(as) <= Len(p)
      BY <3>1, <1>1, Zenon
    <3> HIDE DEF arg, bs, as
    <3>4. IsFramed(bs, as, p) <=> StartsAndEnds(bs, as, p)
      BY <3>1, <3>3, Framed
    <3>5. IsFramed(bs, as, p) <=> p = t.before \o arg \o t.after
      BY <3>2, Zenon DEF IsFramed, bs, as
    <3>6. StartsAndEnds(bs, as, p) <=>
            /\ \A i \in 1 .. b : p[i] = t.before[i]
            /\ \A i \in 1 .. a : p[n - a + i] = t.after[i]
      BY <3>1, Zenon DEF StartsAndEnds, bs, as
    <3> QED
      BY <3>4, <3>5, <3>6
  <2> HIDE DEF arg
  <2>5. HasSlash(arg) <=> \E i \in 1 .. k : arg[i] = "/"
    BY <2>3, SlashIn
  <2>6. HasSlash(arg) <=> \E i \in b + 1 .. n - a : p[i] = "/"
    <3>1. \A i \in 1 .. k : arg[i] = p[b + i]
      BY <2>2, <2>3
    <3> QED
      BY <2>2, <2>5, <3>1
  <2>7. arg = << >> <=> k = 0
    BY <2>3, EmptySeq
  <2>8. Designates(t, p) <=>
          /\ p = t.before \o arg \o t.after
          /\ IF t.param THEN ~ HasSlash(arg) ELSE arg = << >>
    BY <1>0, <1>1 DEF Designates, arg
  <2> QED
    BY <1>1, <2>1, <2>4, <2>6, <2>7, <2>8 DEF Placed
<1>2. CASE ~ (b + a <= n)
  BY <1>0, <1>2 DEF Designates, Placed
<1> QED
  BY <1>1, <1>2

LEMMA DesignatedPath ==
  ASSUME NEW S, Tokens \subseteq S, NEW p \in Seq(S), p # << >>, p[1] = "/",
         NEW t \in Documented
  PROVE  /\ Designates(t, p) <=> IsPathOf(t.op, p)
         /\ IsPathOf(t.op, p) => ArgOf(t, p) = ArgIn(t.op, p)
<1>0. /\ "/" \in S /\ "healthz" \in S /\ "jobs" \in S /\ "pr" \in S
      /\ "int" \in S /\ "ers" \in S /\ "esets" \in S /\ "status" \in S
  BY DEF Tokens
<1>1. PICK n \in Nat : n = Len(p) /\ n >= 1
  BY EmptySeq
<1>2. ASSUME NEW b \in Nat, NEW a \in Nat, t.before \in Seq(S), t.after \in Seq(S),
             b = Len(t.before), a = Len(t.after)
      PROVE  Designates(t, p) <=> Placed(t, p, b, a, n)
  <2>1. /\ p \in Seq(S) /\ t.before \in Seq(S) /\ t.after \in Seq(S)
        /\ b = Len(t.before) /\ a = Len(t.after) /\ n = Len(p)
    BY <1>1, <1>2
  <2> QED
    BY <2>1, DesignatesMeans
<1>3. CASE t = Template("healthCheck", "GET", <<"/", "healthz">>, FALSE, << >>)
  <2>1. /\ t.before \in Seq(S) /\ t.after \in Seq(S) /\ t.param = FALSE
        /\ Len(t.before) = 2 /\ Len(t.after) = 0 /\ t.op = "healthCheck"
        /\ t.before[1] = "/" /\ t.before[2] = "healthz"
    BY <1>0, <1>3 DEF Template
  <2>2. Designates(t, p) <=> Placed(t, p, 2, 0, n)
    BY <1>2, <2>1
  <2>3. Placed(t, p, 2, 0, n) <=> IsPathOf(t.op, p)
    BY <2>1, <1>1 DEF Placed, IsPathOf
  <2>4. ArgOf(t, p) = SubSeq(p, 3, n)
    BY <2>1, <1>1 DEF ArgOf
  <2>5. IsPathOf(t.op, p) => n = 2 /\ ArgOf(t, p) = << >>
    <3>1. IsPathOf(t.op, p) => n = 2
      BY <2>1, <1>1 DEF IsPathOf
    <3>2. n = 2 => SubSeq(p, 2 + 1, 2) = << >>
      BY <1>1, NoPart
    <3> QED
      BY <3>1, <3>2, <2>4
  <2> QED
    BY <2>1, <2>2, <2>3, <2>5 DEF ArgIn
<1>4. CASE t = Template("listPrinters", "GET", <<"/", "pr", "int", "ers">>, FALSE,
                       << >>)
  <2>1. /\ t.before \in Seq(S) /\ t.after \in Seq(S) /\ t.param = FALSE
        /\ Len(t.before) = 4 /\ Len(t.after) = 0 /\ t.op = "listPrinters"
        /\ t.before[1] = "/" /\ t.before[2] = "pr" /\ t.before[3] = "int"
        /\ t.before[4] = "ers"
    BY <1>0, <1>4 DEF Template
  <2>2. Designates(t, p) <=> Placed(t, p, 4, 0, n)
    BY <1>2, <2>1
  <2>3. Placed(t, p, 4, 0, n) <=> IsPathOf(t.op, p)
    BY <2>1, <1>1, SMTT(30) DEF Placed, IsPathOf
  <2>4. ArgOf(t, p) = SubSeq(p, 5, n)
    BY <2>1, <1>1 DEF ArgOf
  <2>5. IsPathOf(t.op, p) => n = 4 /\ ArgOf(t, p) = << >>
    <3>1. IsPathOf(t.op, p) => n = 4
      BY <2>1, <1>1 DEF IsPathOf
    <3>2. n = 4 => SubSeq(p, 4 + 1, 4) = << >>
      BY <1>1, NoPart
    <3> QED
      BY <3>1, <3>2, <2>4
  <2> QED
    BY <2>1, <2>2, <2>3, <2>5 DEF ArgIn
<1>5. CASE t = Template("listPresets", "GET", <<"/", "pr", "esets">>, FALSE,
                       << >>)
  <2>1. /\ t.before \in Seq(S) /\ t.after \in Seq(S) /\ t.param = FALSE
        /\ Len(t.before) = 3 /\ Len(t.after) = 0 /\ t.op = "listPresets"
        /\ t.before[1] = "/" /\ t.before[2] = "pr" /\ t.before[3] = "esets"
    BY <1>0, <1>5 DEF Template
  <2>2. Designates(t, p) <=> Placed(t, p, 3, 0, n)
    BY <1>2, <2>1
  <2>3. Placed(t, p, 3, 0, n) <=> IsPathOf(t.op, p)
    BY <2>1, <1>1 DEF Placed, IsPathOf
  <2>4. ArgOf(t, p) = SubSeq(p, 4, n)
    BY <2>1, <1>1 DEF ArgOf
  <2>5. IsPathOf(t.op, p) => n = 3 /\ ArgOf(t, p) = << >>
    <3>1. IsPathOf(t.op, p) => n = 3
      BY <2>1, <1>1 DEF IsPathOf
    <3>2. n = 3 => SubSeq(p, 3 + 1, 3) = << >>
      BY <1>1, NoPart
    <3> QED
      BY <3>1, <3>2, <2>4
  <2> QED
    BY <2>1, <2>2, <2>3, <2>5 DEF ArgIn
<1>6. CASE t = Template("printDocument", "POST", <<"/", "pr", "int">>, FALSE,
                       << >>)
  <2>1. /\ t.before \in Seq(S) /\ t.after \in Seq(S) /\ t.param = FALSE
        /\ Len(t.before) = 3 /\ Len(t.after) = 0 /\ t.op = "printDocument"
        /\ t.before[1] = "/" /\ t.before[2] = "pr" /\ t.before[3] = "int"
    BY <1>0, <1>6 DEF Template
  <2>2. Designates(t, p) <=> Placed(t, p, 3, 0, n)
    BY <1>2, <2>1
  <2>3. Placed(t, p, 3, 0, n) <=> IsPathOf(t.op, p)
    BY <2>1, <1>1 DEF Placed, IsPathOf
  <2>4. ArgOf(t, p) = SubSeq(p, 4, n)
    BY <2>1, <1>1 DEF ArgOf
  <2>5. IsPathOf(t.op, p) => n = 3 /\ ArgOf(t, p) = << >>
    <3>1. IsPathOf(t.op, p) => n = 3
      BY <2>1, <1>1 DEF IsPathOf
    <3>2. n = 3 => SubSeq(p, 3 + 1, 3) = << >>
      BY <1>1, NoPart
    <3> QED
      BY <3>1, <3>2, <2>4
  <2> QED
    BY <2>1, <2>2, <2>3, <2>5 DEF ArgIn
<1>7. CASE t = Template("getPrintJob", "GET", <<"/", "jobs", "/">>, TRUE, << >>)
  <2>1. /\ t.before \in Seq(S) /\ t.after \in Seq(S) /\ t.param = TRUE
        /\ Len(t.before) = 3 /\ Len(t.after) = 0 /\ t.op = "getPrintJob"
        /\ t.before[1] = "/" /\ t.before[2] = "jobs" /\ t.before[3] = "/"
    BY <1>0, <1>7 DEF Template
  <2>2. Designates(t, p) <=> Placed(t, p, 3, 0, n)
    BY <1>2, <2>1
  <2>3. Placed(t, p, 3, 0, n) <=> IsPathOf(t.op, p)
    BY <2>1, <1>1 DEF Placed, IsPathOf
  <2>4. ArgOf(t, p) = SubSeq(p, 4, n)
    BY <2>1, <1>1 DEF ArgOf
  <2> QED
    BY <2>1, <2>2, <2>3, <2>4, <1>1 DEF ArgIn
<1>8. CASE t = Template("getPrinterStatus", "GET", <<"/", "pr", "int", "ers", "/">>, TRUE,
                       <<"/", "status">>)
  <2>1. /\ t.before \in Seq(S) /\ t.after \in Seq(S) /\ t.param = TRUE
        /\ Len(t.before) = 5 /\ Len(t.after) = 2 /\ t.op = "getPrinterStatus"
        /\ t.before[1] = "/" /\ t.before[2] = "pr" /\ t.before[3] = "int"
        /\ t.before[4] = "ers" /\ t.before[5] = "/"
        /\ t.after[1] = "/" /\ t.after[2] = "status"
    BY <1>0, <1>8 DEF Template
  <2>2. Designates(t, p) <=> Placed(t, p, 5, 2, n)
    BY <1>2, <2>1
  <2>3. Placed(t, p, 5, 2, n) <=> IsPathOf(t.op, p)
    BY <2>1, <1>1, SMTT(30) DEF Placed, IsPathOf
  <2>4. ArgOf(t, p) = SubSeq(p, 6, n - 2)
    BY <2>1, <1>1 DEF ArgOf
  <2> QED
    BY <2>1, <2>2, <2>3, <2>4, <1>1 DEF ArgIn
<1> QED
  BY <1>3, <1>4, <1>5, <1>6, <1>7, <1>8 DEF Documented

(* The two together: the tree finds what a template designates, with its   *)
(* parameter, and nothing else; and no page of the documentation.          *)
LEMMA RouteDesignates ==
  ASSUME NEW r \in Asked
  PROVE  /\ \A t \in Documented :
              Designates(t, r.path) => Route(r.path) = Leaf(t.op, ArgOf(t, r.path))
         /\ Route(r.path) # NoCall => \E t \in Documented : Designates(t, r.path)
         /\ Route(r.path).op = "none" => Route(r.path) = NoCall
         /\ Route(r.path).op = "printDocument" => Route(r.path).arg = << >>
         /\ IsDocs(r) => Route(r.path) = NoCall
<1> DEFINE p == r.path
           S == STRING \cup Tokens \cup {"docs"}
<1>1. p \in Seq(S) /\ p # << >> /\ p[1] = "/"
  <2>1. p \in Seq(STRING) /\ p # << >> /\ p[1] = "/"
    BY HttpServerAssumption
  <2> QED
    BY <2>1, WiderSeq
<1>0. /\ "/" \in S /\ "healthz" \in S /\ "jobs" \in S /\ "pr" \in S
      /\ "int" \in S /\ "ers" \in S /\ "esets" \in S /\ "status" \in S
      /\ "docs" \in S
  BY DEF Tokens
<1> HIDE DEF p, S
<1>2. Tokens \subseteq S
  BY <1>0 DEF Tokens
<1>3. /\ \A op \in Ops : IsPathOf(op, p) => Route(p) = Leaf(op, ArgIn(op, p))
      /\ (\A op \in Ops : ~ IsPathOf(op, p)) => Route(p) = NoCall
  BY <1>1, <1>2, RoutedPath
<1>4. \A t \in Documented :
        /\ Designates(t, p) <=> IsPathOf(t.op, p)
        /\ IsPathOf(t.op, p) => ArgOf(t, p) = ArgIn(t.op, p)
  BY <1>1, <1>2, DesignatedPath
<1>5. \A t \in Documented : t.op \in Ops
  BY DEF Ops
<1>6. \A op \in Ops : \E t \in Documented : t.op = op
  BY DEF Ops
<1>7. \A t \in Documented : Designates(t, p) => Route(p) = Leaf(t.op, ArgOf(t, p))
  BY <1>3, <1>4, <1>5
<1>8. Route(p) # NoCall => \E op \in Ops : IsPathOf(op, p)
  BY <1>3
<1>9. Route(p) # NoCall => \E t \in Documented : Designates(t, p)
  BY <1>4, <1>6, <1>8
<1>10. Route(p).op = "none" => Route(p) = NoCall
  BY <1>3, <1>8, OpsListed DEF Leaf
<1>11. Route(p).op = "printDocument" => Route(p).arg = << >>
  <2>1. ASSUME Route(p).op = "printDocument"
        PROVE  Route(p) = Leaf("printDocument", ArgIn("printDocument", p))
    BY <2>1, <1>3, <1>8 DEF Leaf, NoCall
  <2> QED
    BY <2>1 DEF Leaf, ArgIn
<1>12. IsDocs(r) => Route(p) = NoCall
  <2>1. ASSUME IsDocs(r)
        PROVE  p[2] \in {"openapi.yaml", "docs"}
    <3>1. CASE p = <<"/", "openapi.yaml">> \/ p = <<"/", "docs">>
      BY <3>1
    <3>2. CASE IsPrefix(<<"/", "docs", "/">>, p)
      <4> DEFINE b == <<"/", "docs", "/">>
      <4>1. b \in Seq(S) /\ Len(b) = 3 /\ b[2] = "docs"
        BY <1>0
      <4>4. 2 \in 1 .. Len(b)
        BY <4>1
      <4>2. IsPrefix(b, p)
        BY <3>2
      <4> HIDE DEF b
      <4>3. \A i \in 1 .. Len(b) : b[i] = p[i]
        <5>1. b \in Seq(S) /\ p \in Seq(S)
          BY <1>1, <4>1
        <5> QED
          BY <5>1, <4>2, Begins
      <4> QED
        BY <4>1, <4>3, <4>4
    <3> QED
      BY <2>1, <3>1, <3>2 DEF IsDocs, p
  <2>2. p[2] \in {"openapi.yaml", "docs"} => \A op \in Ops : ~ IsPathOf(op, p)
    BY OpsListed DEF IsPathOf
  <2> QED
    BY <2>1, <2>2, <1>3
<1> QED
  BY <1>7, <1>9, <1>10, <1>11, <1>12 DEF p

-----------------------------------------------------------------------------
(* The inductive invariant.                                                *)

PCs == {"idle", "route", "auth", "params", "read", "decode", "handle", "print",
        "close", "done"}

(* The server works on a request the router has found an operation for.    *)
InHand == {"auth", "params", "read", "decode", "handle", "print"}

Ended == {"close", "done"}

IsApi(r) == ~ IsDocs(r) /\ IsClean(r.path)

Found(r) == Route(r.path)

Decoded(found) == Leaf(found.op, Unescape(found.arg))

Complete(b) ==
  b.type = "multipart" /\ b.whole /\ b.fields /\ b.file /\ ~ Exceeds(b)

(* What the steps before the handler ask of a request, taken together.     *)
Admitted(r) ==
  /\ IsApi(r) /\ Found(r).op # "none" /\ r.method = MethodOf(Found(r).op)
  /\ Authorized(r, Found(r).op)
  /\ Found(r).op \in Parameterised => Found(r).arg # << >>
  /\ Found(r).op = "printDocument" => Complete(r.body)

HttpTypeOK ==
  /\ pc \in [Conns -> PCs]
  /\ req \in [Conns -> Asked \cup {NoRequest}]
  /\ \A c \in Conns : pc[c] # "idle" => req[c] \in Asked
  /\ call = [c \in Conns |-> Leaf(call[c].op, call[c].arg)]
  /\ served = [c \in Conns |-> Leaf(served[c].op, served[c].arg)]
  /\ answer = [c \in Conns |-> Reply(answer[c].status, answer[c].code)]
  /\ spool \in [Conns -> Nat] /\ copy \in [Conns -> Nat]
  /\ starved \in [Conns -> BOOLEAN]

(* Before the answer, nothing is answered or handed on.                    *)
BeginInv(c) ==
  /\ pc[c] \in {"idle", "route"} => call[c] = NoCall
  /\ pc[c] \notin Ended => answer[c] = NoAnswer
  /\ pc[c] \notin Ended \cup {"print"} => served[c] = NoCall
  /\ pc[c] = "route" => IsApi(req[c])

(* What is known of a request in hand, check by check.                     *)
InHandInv(c) ==
  pc[c] \in InHand =>
    LET r == req[c]  found == Found(r) IN
    /\ IsApi(r) /\ found.op # "none" /\ r.method = MethodOf(found.op)
    /\ call[c] = IF pc[c] \in {"handle", "print"} THEN Decoded(found) ELSE found
    /\ pc[c] # "auth" => Authorized(r, found.op)
    /\ pc[c] \in {"read", "decode"} => found.op = "printDocument"
    /\ pc[c] = "params" => found.op # "printDocument"
    /\ pc[c] = "decode" => r.body.type = "multipart"
    /\ pc[c] \in {"handle", "print"} => Admitted(r)
    /\ pc[c] = "print" => found.op = "printDocument" /\ served[c] = Decoded(found)

(* What its answer says of a request.                                      *)
EndedInv(c) ==
  pc[c] \in Ended =>
    LET r == req[c]  found == Found(r)  status == answer[c].status IN
    /\ ~ IsApi(r) => call[c] = NoCall
    /\ IsApi(r) =>
         /\ call[c].op = found.op
         /\ status = 404 <=> found.op = "none"
         /\ status \in {204, 405} <=>
              found.op # "none" /\ r.method # MethodOf(found.op)
    /\ served[c] # NoCall => Admitted(r) /\ served[c] = Decoded(found)
    /\ Admitted(r) /\ ~ starved[c] => served[c] = Decoded(found)

(* Room in /tmp is taken for clients with the key only, and only until     *)
(* their request has ended, but for the copy of a document turned down.    *)
SpoolInv(c) ==
  /\ spool[c] # 0 =>
       pc[c] \in {"decode", "handle", "print", "close"} /\ req[c].key = "right"
  /\ copy[c] # 0 =>
       /\ pc[c] = "print" \/ answer[c].code \in TurnedDown
       /\ req[c].key = "right"

(* What the status 413 says of an upload, and what its absence says.       *)
LimitInv(c) ==
  pc[c] \in Ended =>
    LET r == req[c]  b == r.body IN
    /\ answer[c].status = 413 => b.size > MaxUploadBytes \/ b.form > FormRoom
    /\ call[c].op = "printDocument" /\ answer[c].status # 413
         /\ r.method = "POST" /\ r.key = "right" /\ b.type = "multipart"
         => ~ Exceeds(b) \/ starved[c]

HttpInv ==
  /\ HttpTypeOK
  /\ \A c \in Conns : /\ BeginInv(c) /\ InHandInv(c) /\ EndedInv(c)
                      /\ SpoolInv(c) /\ LimitInv(c)

(* The routed operation of a request, and its decoded parameter.           *)
LEMMA FoundFacts ==
  ASSUME NEW r
  PROVE  /\ Found(r) = Leaf(Found(r).op, Found(r).arg)
         /\ Found(r).op \in Ops \cup {"none"}
         /\ Decoded(Found(r)).op = Found(r).op
         /\ Found(r).op # "none" => Decoded(Found(r)) # NoCall
         /\ r \in Asked /\ Found(r).op = "printDocument" => Decoded(Found(r)) = Found(r)
         /\ r \in Asked /\ Found(r).op = "none" => Found(r) = NoCall
<1> DEFINE f == Found(r)
<1>1. f = Leaf(f.op, f.arg) /\ f.op \in Ops \cup {"none"}
  BY RouteType DEF Found
<1>2. /\ r \in Asked /\ f.op = "printDocument" => f.arg = << >>
      /\ r \in Asked /\ f.op = "none" => f = NoCall
  BY RouteDesignates DEF Found
<1> HIDE DEF f
<1>3. Unescape(<< >>) = << >>
  BY DEF Unescape
<1>4. Decoded(f) = Leaf(f.op, Unescape(f.arg)) /\ Decoded(f).op = f.op
  BY DEF Decoded, Leaf
<1>5. f.op # "none" => Decoded(f) # NoCall
  BY <1>4 DEF NoCall
<1>6. r \in Asked /\ f.op = "printDocument" => Decoded(f) = f
  BY <1>1, <1>2, <1>3, <1>4
<1> QED
  BY <1>1, <1>2, <1>4, <1>5, <1>6 DEF f

(* What a step of one request leaves of the others.                        *)
Alone(c) ==
  \A d \in Conns \ {c} :
    /\ pc'[d] = pc[d] /\ req'[d] = req[d] /\ call'[d] = call[d]
    /\ spool'[d] = spool[d] /\ copy'[d] = copy[d] /\ served'[d] = served[d]
    /\ answer'[d] = answer[d] /\ starved'[d] = starved[d]

ConnInv(c) ==
  /\ BeginInv(c) /\ InHandInv(c) /\ EndedInv(c) /\ SpoolInv(c) /\ LimitInv(c)

LEMMA OthersKeep ==
  ASSUME HttpInv, NEW c \in Conns, Alone(c), HttpTypeOK', ConnInv(c)'
  PROVE  HttpInv'
<1>1. ASSUME NEW d \in Conns \ {c}
      PROVE  ConnInv(d)'
  <2>1. /\ pc'[d] = pc[d] /\ req'[d] = req[d] /\ call'[d] = call[d]
        /\ spool'[d] = spool[d] /\ copy'[d] = copy[d] /\ served'[d] = served[d]
        /\ answer'[d] = answer[d] /\ starved'[d] = starved[d]
    BY <1>1 DEF Alone
  <2>2. ConnInv(d)
    BY <1>1 DEF HttpInv, ConnInv
  <2>3. BeginInv(d)'
    BY <2>1, <2>2 DEF ConnInv, BeginInv
  <2>4. InHandInv(d)'
    BY <2>1, <2>2 DEF ConnInv, InHandInv
  <2>5. EndedInv(d)'
    BY <2>1, <2>2 DEF ConnInv, EndedInv
  <2>6. SpoolInv(d)'
    BY <2>1, <2>2 DEF ConnInv, SpoolInv
  <2>7. LimitInv(d)'
    BY <2>1, <2>2 DEF ConnInv, LimitInv
  <2> QED
    BY <2>3, <2>4, <2>5, <2>6, <2>7 DEF ConnInv
<1> QED
  BY <1>1 DEF HttpInv, ConnInv

(* Either a variable is not touched, or its value at one request is set.   *)
Put(now, before, c, x) ==
  \/ now = before /\ x = before[c]
  \/ now = [before EXCEPT ![c] = x]

(* A step of one request that sets its part of the state to these values.  *)
LEMMA StepKeeps ==
  ASSUME HttpInv, NEW c \in Conns,
         NEW q \in PCs, q # "idle", Put(pc', pc, c, q),
         NEW r \in Asked, Put(req', req, c, r),
         NEW f, f = Leaf(f.op, f.arg), Put(call', call, c, f),
         NEW n \in Nat, Put(spool', spool, c, n),
         NEW k \in Nat, Put(copy', copy, c, k),
         NEW g, g = Leaf(g.op, g.arg), Put(served', served, c, g),
         NEW a, a = Reply(a.status, a.code), Put(answer', answer, c, a),
         NEW b \in BOOLEAN, Put(starved', starved, c, b),
         ( /\ pc'[c] = q /\ req'[c] = r /\ call'[c] = f /\ spool'[c] = n
           /\ copy'[c] = k /\ served'[c] = g /\ answer'[c] = a /\ starved'[c] = b )
           => ConnInv(c)'
  PROVE  HttpInv'
<1>1. HttpTypeOK
  BY DEF HttpInv
<1>2. /\ pc \in [Conns -> PCs] /\ req \in [Conns -> Asked \cup {NoRequest}]
      /\ spool \in [Conns -> Nat] /\ copy \in [Conns -> Nat]
      /\ starved \in [Conns -> BOOLEAN]
  BY <1>1 DEF HttpTypeOK
<1>3. pc' = [pc EXCEPT ![c] = q] /\ req' = [req EXCEPT ![c] = r]
  BY <1>2 DEF Put
<1>4. /\ spool' = [spool EXCEPT ![c] = n] /\ copy' = [copy EXCEPT ![c] = k]
      /\ starved' = [starved EXCEPT ![c] = b]
  BY <1>2 DEF Put
<1>5. /\ call = [d \in Conns |-> call[d]]
      /\ \A d \in Conns : call[d] = Leaf(call[d].op, call[d].arg)
  BY <1>1 DEF HttpTypeOK
<1>6. /\ served = [d \in Conns |-> served[d]]
      /\ \A d \in Conns : served[d] = Leaf(served[d].op, served[d].arg)
  BY <1>1 DEF HttpTypeOK
<1>7. /\ answer = [d \in Conns |-> answer[d]]
      /\ \A d \in Conns : answer[d] = Reply(answer[d].status, answer[d].code)
  BY <1>1 DEF HttpTypeOK
<1>8. call' = [d \in Conns |-> IF d = c THEN f ELSE call[d]]
  BY <1>5 DEF Put
<1>9. served' = [d \in Conns |-> IF d = c THEN g ELSE served[d]]
  BY <1>6 DEF Put
<1>10. answer' = [d \in Conns |-> IF d = c THEN a ELSE answer[d]]
  BY <1>7 DEF Put
<1>11. call' = [d \in Conns |-> Leaf(call'[d].op, call'[d].arg)]
  BY <1>5, <1>8
<1>12. served' = [d \in Conns |-> Leaf(served'[d].op, served'[d].arg)]
  BY <1>6, <1>9
<1>13. answer' = [d \in Conns |-> Reply(answer'[d].status, answer'[d].code)]
  BY <1>7, <1>10
<1>14. /\ pc' \in [Conns -> PCs] /\ req' \in [Conns -> Asked \cup {NoRequest}]
       /\ spool' \in [Conns -> Nat] /\ copy' \in [Conns -> Nat]
       /\ starved' \in [Conns -> BOOLEAN]
  BY <1>2, <1>3, <1>4
<1>15. \A d \in Conns : pc'[d] # "idle" => req'[d] \in Asked
  BY <1>1, <1>2, <1>3 DEF HttpTypeOK
<1>16. HttpTypeOK'
  BY <1>11, <1>12, <1>13, <1>14, <1>15 DEF HttpTypeOK
<1>17. Alone(c)
  BY <1>2, <1>3, <1>4, <1>8, <1>9, <1>10 DEF Alone
<1>18. /\ pc'[c] = q /\ req'[c] = r /\ call'[c] = f /\ spool'[c] = n
       /\ copy'[c] = k /\ served'[c] = g /\ answer'[c] = a /\ starved'[c] = b
  BY <1>2, <1>3, <1>4, <1>8, <1>9, <1>10
<1> QED
  BY <1>16, <1>17, <1>18, OthersKeep

LEMMA InitKeeps == Init => HttpInv
<1> SUFFICES ASSUME Init PROVE HttpInv
  OBVIOUS
<1>1. HttpTypeOK
  BY DEF Init, HttpTypeOK, PCs, NoCall, NoAnswer, Leaf, Reply
<1>2. \A c \in Conns : ConnInv(c)
  BY DEF Init, ConnInv, BeginInv, InHandInv, EndedInv, SpoolInv, LimitInv, InHand, Ended
<1> QED
  BY <1>1, <1>2 DEF HttpInv, ConnInv

LEMMA ReceiveKeeps ==
  ASSUME HttpInv, NEW c \in Conns, Receive(c)
  PROVE  HttpInv'
<1>1. PICK r \in Asked :
        /\ req' = [req EXCEPT ![c] = r]
        /\ IF IsDocs(r) \/ ~ IsClean(r.path)
             THEN Answer(c, "idle", MuxAnswer(r))
             ELSE Go(c, "idle", "route") /\ UNCHANGED answer
  BY DEF Receive
<1>2. UNCHANGED << call, spool, copy, served, starved >>
  BY DEF Receive
<1>3. pc[c] = "idle" /\ call[c] = NoCall /\ served[c] = NoCall /\ answer[c] = NoAnswer
  BY <1>1 DEF Answer, Go, HttpInv, BeginInv, Ended
<1>4. spool[c] = 0 /\ copy[c] = 0 /\ starved[c] \in BOOLEAN
  BY <1>3 DEF HttpInv, HttpTypeOK, SpoolInv, NoAnswer, TurnedDown
<1> DEFINE q == IF IsApi(r) THEN "route" ELSE "close"
           a == IF IsApi(r) THEN NoAnswer ELSE MuxAnswer(r)
<1>5. /\ pc' = [pc EXCEPT ![c] = q]
      /\ answer' = IF IsApi(r) THEN answer ELSE [answer EXCEPT ![c] = a]
  BY <1>1 DEF IsApi, Answer, Go
<1>6. /\ a = Reply(a.status, a.code) /\ a.status # 413
      /\ IsApi(r) => a = answer[c]
  BY <1>3 DEF MuxAnswer, NoAnswer, Reply
<1>7. ASSUME pc'[c] = q, req'[c] = r, call'[c] = NoCall, spool'[c] = 0,
             copy'[c] = 0, served'[c] = NoCall, answer'[c] = a
      PROVE  ConnInv(c)'
  <2>1. CASE IsApi(r)
    BY <1>7, <2>1 DEF ConnInv, BeginInv, InHandInv, EndedInv, SpoolInv, LimitInv,
                      InHand, Ended
  <2>2. CASE ~ IsApi(r)
    <3>1. ~ Admitted(r)
      BY <2>2 DEF Admitted
    <3> HIDE DEF a
    <3>2. /\ pc'[c] = "close" /\ req'[c] = r /\ call'[c] = NoCall /\ spool'[c] = 0
          /\ copy'[c] = 0 /\ served'[c] = NoCall /\ answer'[c].status # 413
      BY <1>6, <1>7, <2>2
    <3> QED
      BY <3>1, <3>2, <2>2 DEF ConnInv, BeginInv, InHandInv, EndedInv, SpoolInv,
         LimitInv, InHand, Ended, NoCall
  <2> QED
    BY <2>1, <2>2
<1>8. q \in PCs /\ q # "idle"
  BY DEF PCs
<1> HIDE DEF q, a
<1>9. /\ Put(pc', pc, c, q) /\ Put(req', req, c, r) /\ Put(call', call, c, NoCall)
      /\ Put(spool', spool, c, 0) /\ Put(copy', copy, c, 0)
      /\ Put(served', served, c, NoCall)
      /\ Put(answer', answer, c, a) /\ Put(starved', starved, c, starved[c])
  BY <1>1, <1>2, <1>3, <1>4, <1>5, <1>6 DEF Put
<1>10. NoCall = Leaf(NoCall.op, NoCall.arg)
  BY DEF NoCall, Leaf
<1> QED
  BY <1>4, <1>6, <1>7, <1>8, <1>9, <1>10, StepKeeps

(* What the invariant says of a request that has come in.                  *)
LEMMA AtRequest ==
  ASSUME HttpInv, NEW c \in Conns, pc[c] # "idle"
  PROVE  /\ ConnInv(c) /\ req[c] \in Asked
         /\ call[c] = Leaf(call[c].op, call[c].arg)
         /\ served[c] = Leaf(served[c].op, served[c].arg)
         /\ answer[c] = Reply(answer[c].status, answer[c].code)
         /\ spool[c] \in Nat /\ copy[c] \in Nat /\ starved[c] \in BOOLEAN
         /\ pc[c] \notin Ended \cup {"print"} => copy[c] = 0
<1>1. /\ ConnInv(c) /\ req[c] \in Asked
      /\ spool[c] \in Nat /\ copy[c] \in Nat /\ starved[c] \in BOOLEAN
  BY DEF HttpInv, HttpTypeOK, ConnInv
<1>2. call[c] = Leaf(call[c].op, call[c].arg)
  BY DEF HttpInv, HttpTypeOK
<1>3. served[c] = Leaf(served[c].op, served[c].arg)
  BY DEF HttpInv, HttpTypeOK
<1>4. answer[c] = Reply(answer[c].status, answer[c].code)
  BY DEF HttpInv, HttpTypeOK
<1>5. pc[c] \notin Ended \cup {"print"} => copy[c] = 0
  BY <1>1 DEF ConnInv, BeginInv, SpoolInv, NoAnswer, TurnedDown
<1> QED
  BY <1>1, <1>2, <1>3, <1>4, <1>5

LEMMA ErrorAnswers ==
  ASSUME NEW err \in {"security", "params", "content_type", "decode", "max_bytes"}
  PROVE  LET a == ErrorAnswer(err)
         IN  /\ a = Reply(a.status, a.code)
             /\ a.status \in {400, 401, 413, 415}
             /\ a.status = 413 <=> err = "max_bytes"
  BY DEF ErrorAnswer, ErrorCode, Reply

LEMMA DispatchKeeps ==
  ASSUME HttpInv, NEW c \in Conns, Dispatch(c)
  PROVE  HttpInv'
<1> DEFINE r == req[c]
           found == Found(r)
<1>1. /\ pc[c] = "route"
      /\ call' = [call EXCEPT ![c] = found]
      /\ UNCHANGED << req, spool, copy, served, starved >>
  BY DEF Dispatch, Found
<1>2. \/ /\ found.op = "none" /\ Answer(c, "route", Reply(404, "none"))
      \/ /\ found.op # "none" /\ r.method # MethodOf(found.op)
         /\ Answer(c, "route", NotAllowed(r.method))
      \/ /\ found.op # "none" /\ r.method = MethodOf(found.op)
         /\ Go(c, "route", "auth") /\ UNCHANGED answer
  BY DEF Dispatch, Found
<1>3. /\ IsApi(r) /\ r \in Asked /\ served[c] = NoCall /\ answer[c] = NoAnswer
      /\ spool[c] \in Nat /\ copy[c] = 0 /\ starved[c] \in BOOLEAN
      /\ SpoolInv(c)
  BY <1>1, AtRequest DEF ConnInv, BeginInv, Ended
<1>4. /\ found = Leaf(found.op, found.arg)
      /\ found.op = "none" => found = NoCall
  BY <1>3, FoundFacts
<1>5. /\ NoCall = Leaf(NoCall.op, NoCall.arg)
      /\ NoAnswer = Reply(NoAnswer.status, NoAnswer.code)
  BY DEF NoCall, Leaf, NoAnswer, Reply
<1> HIDE DEF found
<1>6. ASSUME NEW a, a = Reply(a.status, a.code), NEW q \in {"close", "auth"},
             pc' = [pc EXCEPT ![c] = q], Put(answer', answer, c, a),
             q = "auth" => /\ a = NoAnswer /\ found.op # "none"
                           /\ r.method = MethodOf(found.op),
             q = "close" => /\ a.status # 413
                            /\ a.status = 404 <=> found.op = "none"
                            /\ a.status \in {204, 405} <=>
                                 found.op # "none" /\ r.method # MethodOf(found.op)
                            /\ found.op # "none" => r.method # MethodOf(found.op)
      PROVE  HttpInv'
  <2>1. ASSUME pc'[c] = q, req'[c] = r, call'[c] = found, spool'[c] = spool[c],
               copy'[c] = 0, served'[c] = NoCall, answer'[c] = a,
               starved'[c] = starved[c]
        PROVE  ConnInv(c)'
    <3>1. SpoolInv(c)'
      BY <2>1, <1>1, <1>3, <1>6 DEF SpoolInv
    <3>2. CASE q = "auth"
      <4>1. BeginInv(c)' /\ EndedInv(c)' /\ LimitInv(c)'
        BY <2>1, <3>2, <1>6 DEF BeginInv, EndedInv, LimitInv, Ended
      <4>2. InHandInv(c)'
        BY <2>1, <3>2, <1>3, <1>6 DEF InHandInv, InHand, found
      <4> QED
        BY <3>1, <4>1, <4>2 DEF ConnInv
    <3>3. CASE q = "close"
      <4>1. BeginInv(c)' /\ InHandInv(c)'
        BY <2>1, <3>3 DEF BeginInv, InHandInv, InHand, Ended
      <4>2. ~ Admitted(r)
        BY <3>3, <1>6 DEF Admitted, found
      <4>3. EndedInv(c)'
        BY <2>1, <3>3, <4>2, <1>3, <1>6 DEF EndedInv, Ended, found
      <4>4. LimitInv(c)'
        BY <2>1, <3>3, <1>6 DEF LimitInv, Ended, MethodOf
      <4> QED
        BY <3>1, <4>1, <4>3, <4>4 DEF ConnInv
    <3> QED
      BY <3>2, <3>3, <1>6
  <2>2. q \in PCs /\ q # "idle"
    BY <1>6 DEF PCs
  <2>3. /\ Put(pc', pc, c, q) /\ Put(req', req, c, r) /\ Put(call', call, c, found)
        /\ Put(spool', spool, c, spool[c]) /\ Put(copy', copy, c, 0)
        /\ Put(served', served, c, NoCall)
        /\ Put(answer', answer, c, a) /\ Put(starved', starved, c, starved[c])
    BY <1>1, <1>3, <1>6 DEF Put
  <2>4. /\ r \in Asked /\ spool[c] \in Nat /\ starved[c] \in BOOLEAN
        /\ found = Leaf(found.op, found.arg) /\ NoCall = Leaf(NoCall.op, NoCall.arg)
        /\ a = Reply(a.status, a.code)
    BY <1>3, <1>4, <1>5, <1>6
  <2> QED
    BY <2>1, <2>2, <2>3, <2>4, StepKeeps
<1>7. CASE /\ found.op = "none" /\ Answer(c, "route", Reply(404, "none"))
  <2> DEFINE a == Reply(404, "none")
  <2>1. /\ pc' = [pc EXCEPT ![c] = "close"]
        /\ Put(answer', answer, c, a)
    BY <1>7 DEF Answer, Go, Put
  <2>2. a = Reply(a.status, a.code) /\ a.status = 404
    BY DEF Reply
  <2> HIDE DEF a
  <2> QED
    <3>1. /\ a.status # 413 /\ (a.status = 404 <=> found.op = "none")
          /\ a.status \in {204, 405} <=>
               found.op # "none" /\ r.method # MethodOf(found.op)
          /\ found.op # "none" => r.method # MethodOf(found.op)
      BY <2>2, <1>7
    <3> QED
      BY <2>1, <2>2, <3>1, <1>6
<1>8. CASE /\ found.op # "none" /\ r.method # MethodOf(found.op)
           /\ Answer(c, "route", NotAllowed(r.method))
  <2> DEFINE a == NotAllowed(r.method)
  <2>1. /\ pc' = [pc EXCEPT ![c] = "close"]
        /\ Put(answer', answer, c, a)
    BY <1>8 DEF Answer, Go, Put
  <2>2. a = Reply(a.status, a.code) /\ a.status \in {204, 405}
    BY DEF NotAllowed, Reply
  <2> HIDE DEF a
  <2> QED
    BY <2>1, <2>2, <1>6, <1>8
<1>9. CASE /\ found.op # "none" /\ r.method = MethodOf(found.op)
           /\ Go(c, "route", "auth") /\ UNCHANGED answer
  <2>1. /\ pc' = [pc EXCEPT ![c] = "auth"]
        /\ Put(answer', answer, c, NoAnswer)
    BY <1>3, <1>9 DEF Go, Put
  <2> QED
    BY <2>1, <1>5, <1>6, <1>9
<1> QED
  BY <1>2, <1>7, <1>8, <1>9

LEMMA AuthenticateKeeps ==
  ASSUME HttpInv, NEW c \in Conns, Authenticate(c)
  PROVE  HttpInv'
<1> DEFINE r == req[c]
           found == Found(r)
<1>1. pc[c] = "auth" /\ UNCHANGED << req, call, spool, copy, served, starved >>
  BY DEF Authenticate
<1>2. /\ ConnInv(c) /\ r \in Asked /\ call[c] = Leaf(call[c].op, call[c].arg)
      /\ served[c] = Leaf(served[c].op, served[c].arg)
      /\ answer[c] = Reply(answer[c].status, answer[c].code)
      /\ spool[c] \in Nat /\ copy[c] = 0 /\ starved[c] \in BOOLEAN
  BY <1>1, AtRequest DEF Ended
<1>3. /\ IsApi(r) /\ found.op # "none" /\ r.method = MethodOf(found.op)
      /\ call[c] = found /\ served[c] = NoCall /\ answer[c] = NoAnswer /\ SpoolInv(c)
  BY <1>1, <1>2 DEF ConnInv, InHandInv, InHand, BeginInv, Ended
<1> HIDE DEF found
<1> DEFINE q == IF Authorized(r, found.op) THEN AfterAuth(found.op) ELSE "close"
           a == IF Authorized(r, found.op) THEN NoAnswer ELSE ErrorAnswer("security")
<1>4. /\ pc' = [pc EXCEPT ![c] = q]
      /\ Put(answer', answer, c, a)
  BY <1>1, <1>3 DEF Authenticate, Fail, Answer, Go, Put
<1>5. /\ a = Reply(a.status, a.code)
      /\ Authorized(r, found.op) => a = NoAnswer
      /\ ~ Authorized(r, found.op) => a.status \in {400, 401, 413, 415} /\ a.status # 413
  BY ErrorAnswers DEF NoAnswer, Reply
<1>6. /\ q \in PCs /\ q # "idle"
      /\ Authorized(r, found.op) =>
           q = IF found.op = "printDocument" THEN "read" ELSE "params"
      /\ ~ Authorized(r, found.op) => q = "close"
  BY DEF PCs, AfterAuth
<1> HIDE DEF q, a
<1>7. ASSUME pc'[c] = q, req'[c] = r, call'[c] = call[c], spool'[c] = spool[c],
             copy'[c] = 0, served'[c] = served[c], answer'[c] = a
      PROVE  ConnInv(c)'
  <2>1. SpoolInv(c)'
    BY <1>1, <1>3, <1>6, <1>7 DEF SpoolInv
  <2>2. CASE Authorized(r, found.op)
    <3>1. q \in {"read", "params"} /\ (q = "read" <=> found.op = "printDocument")
      BY <2>2, <1>6
    <3>2. BeginInv(c)' /\ EndedInv(c)' /\ LimitInv(c)'
      BY <3>1, <2>2, <1>3, <1>5, <1>7 DEF BeginInv, EndedInv, LimitInv, Ended
    <3>3. InHandInv(c)'
      BY <3>1, <2>2, <1>3, <1>7 DEF InHandInv, InHand, found
    <3> QED
      BY <2>1, <3>2, <3>3 DEF ConnInv
  <2>3. CASE ~ Authorized(r, found.op)
    <3>1. q = "close" /\ ~ Admitted(r)
      BY <2>3, <1>6 DEF Admitted, found
    <3>2. BeginInv(c)' /\ InHandInv(c)'
      BY <3>1, <1>7 DEF BeginInv, InHandInv, InHand, Ended
    <3>3. EndedInv(c)'
      BY <3>1, <2>3, <1>3, <1>5, <1>7 DEF EndedInv, Ended, found
    <3>4. LimitInv(c)'
      BY <3>1, <2>3, <1>3, <1>5, <1>7 DEF LimitInv, Ended, Authorized
    <3> QED
      BY <2>1, <3>2, <3>3, <3>4 DEF ConnInv
  <2> QED
    BY <2>2, <2>3
<1>8. /\ Put(pc', pc, c, q) /\ Put(req', req, c, r) /\ Put(call', call, c, call[c])
      /\ Put(spool', spool, c, spool[c]) /\ Put(copy', copy, c, 0)
      /\ Put(served', served, c, served[c])
      /\ Put(starved', starved, c, starved[c])
  BY <1>1, <1>2, <1>4 DEF Put
<1>9. q \in PCs /\ q # "idle" /\ a = Reply(a.status, a.code)
  BY <1>5, <1>6
<1>10. Put(answer', answer, c, a)
  BY <1>4
<1> QED
  BY <1>2, <1>7, <1>8, <1>9, <1>10, StepKeeps

LEMMA DecodeParamsKeeps ==
  ASSUME HttpInv, NEW c \in Conns, DecodeParams(c)
  PROVE  HttpInv'
<1> DEFINE r == req[c]
           found == Found(r)
           bad == found.op \in Parameterised /\ found.arg = << >>
<1>1. pc[c] = "params" /\ UNCHANGED << req, spool, copy, served, starved >>
  BY DEF DecodeParams, Fail, Answer, Go
<1>2. /\ ConnInv(c) /\ r \in Asked /\ call[c] = Leaf(call[c].op, call[c].arg)
      /\ served[c] = Leaf(served[c].op, served[c].arg)
      /\ answer[c] = Reply(answer[c].status, answer[c].code)
      /\ spool[c] \in Nat /\ copy[c] = 0 /\ starved[c] \in BOOLEAN
  BY <1>1, AtRequest DEF Ended
<1>3. /\ IsApi(r) /\ found.op # "none" /\ r.method = MethodOf(found.op)
      /\ call[c] = found /\ served[c] = NoCall /\ answer[c] = NoAnswer /\ SpoolInv(c)
      /\ Authorized(r, found.op) /\ found.op # "printDocument"
  BY <1>1, <1>2 DEF ConnInv, InHandInv, InHand, BeginInv, Ended
<1>0. /\ Decoded(found) = Leaf(found.op, Unescape(found.arg))
      /\ found = Leaf(found.op, found.arg)
  BY <1>2, <1>3 DEF Decoded
<1> HIDE DEF found
<1> DEFINE q == IF bad THEN "close" ELSE "handle"
           a == IF bad THEN ErrorAnswer("params") ELSE NoAnswer
           f == IF bad THEN found ELSE Decoded(found)
<1>4. /\ pc' = [pc EXCEPT ![c] = q]
      /\ Put(answer', answer, c, a)
  BY <1>1, <1>3 DEF DecodeParams, Fail, Answer, Go, Put
<1>5. Put(call', call, c, f)
  <2>1. CASE bad
    BY <2>1, <1>3 DEF DecodeParams, Put
  <2>2. CASE ~ bad
    <3>1. call' = [call EXCEPT ![c] = [call[c] EXCEPT !.arg = Unescape(call[c].arg)]]
      BY <2>2, <1>3 DEF DecodeParams
    <3>2. [call[c] EXCEPT !.arg = Unescape(call[c].arg)] = Decoded(found)
      BY <1>0, <1>3 DEF Leaf
    <3> QED
      BY <3>1, <3>2, <2>2 DEF Put
  <2> QED
    BY <2>1, <2>2
<1>6. /\ a = Reply(a.status, a.code)
      /\ ~ bad => a = NoAnswer
      /\ bad => a.status \in {400, 401, 413, 415} /\ a.status # 413
  BY ErrorAnswers DEF NoAnswer, Reply
<1>7. f = Leaf(f.op, f.arg) /\ f.op = found.op
  BY <1>0 DEF Leaf
<1> HIDE DEF a, f
<1>8. ASSUME pc'[c] = q, req'[c] = r, call'[c] = f, spool'[c] = spool[c],
             copy'[c] = 0, served'[c] = served[c], answer'[c] = a
      PROVE  ConnInv(c)'
  <2>1. SpoolInv(c)'
    BY <1>1, <1>3, <1>8 DEF SpoolInv
  <2>2. CASE ~ bad
    <3>1. Admitted(r)
      BY <2>2, <1>3 DEF Admitted, found
    <3>2. BeginInv(c)' /\ EndedInv(c)' /\ LimitInv(c)'
      BY <2>2, <1>3, <1>6, <1>8 DEF BeginInv, EndedInv, LimitInv, Ended
    <3>3. InHandInv(c)'
      BY <3>1, <2>2, <1>3, <1>8 DEF InHandInv, InHand, found, f
    <3> QED
      BY <2>1, <3>2, <3>3 DEF ConnInv
  <2>3. CASE bad
    <3>1. ~ Admitted(r)
      BY <2>3 DEF Admitted, found
    <3>2. BeginInv(c)' /\ InHandInv(c)'
      BY <2>3, <1>8 DEF BeginInv, InHandInv, InHand, Ended
    <3>3. EndedInv(c)'
      BY <3>1, <2>3, <1>3, <1>6, <1>7, <1>8 DEF EndedInv, Ended, found
    <3>4. LimitInv(c)'
      BY <2>3, <1>3, <1>6, <1>7, <1>8 DEF LimitInv, Ended
    <3> QED
      BY <2>1, <3>2, <3>3, <3>4 DEF ConnInv
  <2> QED
    BY <2>2, <2>3
<1>9. q \in PCs /\ q # "idle"
  BY DEF PCs
<1> HIDE DEF q
<1>10. /\ Put(pc', pc, c, q) /\ Put(req', req, c, r)
       /\ Put(spool', spool, c, spool[c]) /\ Put(copy', copy, c, 0)
       /\ Put(served', served, c, served[c])
       /\ Put(starved', starved, c, starved[c])
  BY <1>1, <1>2, <1>4 DEF Put
<1>11. Put(answer', answer, c, a)
  BY <1>4
<1>12. a = Reply(a.status, a.code) /\ f = Leaf(f.op, f.arg)
  BY <1>6, <1>7
<1> HIDE DEF bad
<1> QED
  BY <1>2, <1>5, <1>8, <1>9, <1>10, <1>11, <1>12, StepKeeps

LEMMA LeastOfTwo ==
  ASSUME NEW x \in Nat, NEW y \in Nat
  PROVE  Min({x, y}) \in Nat /\ Min({x, y}) <= x
<1>1. {x, y} \in SUBSET Nat /\ {x, y} # {}
  OBVIOUS
<1>2. Min({x, y}) \in {x, y} /\ \A z \in {x, y} : Min({x, y}) <= z
  BY <1>1, LeastNumber DEF Min
<1> QED
  BY <1>2

LEMMA SpooledType ==
  ASSUME NEW r \in Asked
  PROVE  Spooled(r.body) \in Nat
<1>1. r.body.size \in Nat /\ BodyLimit \in Nat
  BY HttpServerAssumption DEF BodyLimit
<1>2. Min({r.body.size, BodyLimit}) \in Nat
  BY <1>1, LeastOfTwo
<1> QED
  BY <1>2 DEF Spooled

LEMMA ReadBodyKeeps ==
  ASSUME HttpInv, NEW c \in Conns, ReadBody(c)
  PROVE  HttpInv'
<1> DEFINE r == req[c]
           b == req[c].body
           found == Found(r)
<1>1. pc[c] = "read" /\ UNCHANGED << req, call, copy, served >>
  BY DEF ReadBody
<1>2. /\ ConnInv(c) /\ r \in Asked /\ call[c] = Leaf(call[c].op, call[c].arg)
      /\ served[c] = Leaf(served[c].op, served[c].arg)
      /\ answer[c] = Reply(answer[c].status, answer[c].code)
      /\ spool[c] \in Nat /\ copy[c] = 0 /\ starved[c] \in BOOLEAN
  BY <1>1, AtRequest DEF Ended
<1>3. /\ IsApi(r) /\ found.op = "printDocument" /\ r.method = MethodOf(found.op)
      /\ call[c] = found /\ served[c] = NoCall /\ answer[c] = NoAnswer /\ SpoolInv(c)
      /\ r.key = "right"
  BY <1>1, <1>2 DEF ConnInv, InHandInv, InHand, BeginInv, Ended, Authorized
<1>4. Spooled(b) \in Nat
  BY <1>2, SpooledType
<1>5. \/ /\ b.type # "multipart"
         /\ Fail(c, "read", IF b.type = "other" THEN "content_type" ELSE "decode")
         /\ UNCHANGED << spool, starved >>
      \/ /\ b.type = "multipart"
         /\ Go(c, "read", "decode")
         /\ spool' = [spool EXCEPT ![c] = Spooled(b)]
         /\ UNCHANGED << answer, starved >>
      \/ /\ b.type = "multipart"
         /\ Fail(c, "read", "decode")
         /\ starved' = [starved EXCEPT ![c] = TRUE]
         /\ UNCHANGED spool
  BY DEF ReadBody
<1> HIDE DEF found
<1>6. ASSUME NEW err \in {"content_type", "decode"}, NEW s \in BOOLEAN,
             Fail(c, "read", err), UNCHANGED spool, Put(starved', starved, c, s),
             b.type # "multipart" \/ s
      PROVE  HttpInv'
  <2> DEFINE a == ErrorAnswer(err)
  <2>1. a = Reply(a.status, a.code) /\ a.status \in {400, 401, 413, 415} /\ a.status # 413
    BY <1>6, ErrorAnswers
  <2>2. pc' = [pc EXCEPT ![c] = "close"] /\ Put(answer', answer, c, a)
    BY <1>6 DEF Fail, Answer, Go, Put
  <2> HIDE DEF a
  <2>3. ASSUME pc'[c] = "close", req'[c] = r, call'[c] = call[c], spool'[c] = spool[c],
               copy'[c] = 0, served'[c] = served[c], answer'[c] = a, starved'[c] = s
        PROVE  ConnInv(c)'
    <3>1. BeginInv(c)' /\ InHandInv(c)' /\ SpoolInv(c)'
      BY <2>3, <1>1, <1>3 DEF BeginInv, InHandInv, SpoolInv, InHand, Ended
    <3>2. EndedInv(c)'
      <4>1. ~ Admitted(r) \/ s
        BY <1>3, <1>6 DEF Admitted, Complete, found
      <4> QED
        BY <4>1, <2>1, <2>3, <1>3 DEF EndedInv, Ended, found
    <3>3. LimitInv(c)'
      BY <2>1, <2>3, <1>6 DEF LimitInv, Ended
    <3> QED
      BY <3>1, <3>2, <3>3 DEF ConnInv
  <2>4. /\ Put(pc', pc, c, "close") /\ Put(req', req, c, r) /\ Put(call', call, c, call[c])
        /\ Put(spool', spool, c, spool[c]) /\ Put(copy', copy, c, 0)
        /\ Put(served', served, c, served[c])
        /\ Put(answer', answer, c, a) /\ Put(starved', starved, c, s)
        /\ "close" \in PCs
    BY <1>1, <1>2, <1>6, <2>2 DEF Put, PCs
  <2>5. a = Reply(a.status, a.code) /\ s \in BOOLEAN
    BY <2>1
  <2> QED
    BY <1>2, <2>3, <2>4, <2>5, StepKeeps
<1>7. CASE /\ b.type = "multipart"
           /\ Go(c, "read", "decode")
           /\ spool' = [spool EXCEPT ![c] = Spooled(b)]
           /\ UNCHANGED << answer, starved >>
  <2>1. ASSUME pc'[c] = "decode", req'[c] = r, call'[c] = call[c],
               spool'[c] = Spooled(b), copy'[c] = 0, served'[c] = served[c],
               answer'[c] = answer[c], starved'[c] = starved[c]
        PROVE  ConnInv(c)'
    <3>1. BeginInv(c)' /\ EndedInv(c)' /\ SpoolInv(c)' /\ LimitInv(c)'
      BY <2>1, <1>3 DEF BeginInv, EndedInv, SpoolInv, LimitInv, Ended
    <3>2. InHandInv(c)'
      BY <2>1, <1>3, <1>7 DEF InHandInv, InHand, Authorized, found
    <3> QED
      BY <3>1, <3>2 DEF ConnInv
  <2>2. /\ Put(pc', pc, c, "decode") /\ Put(req', req, c, r) /\ Put(call', call, c, call[c])
        /\ Put(spool', spool, c, Spooled(b)) /\ Put(copy', copy, c, 0)
        /\ Put(served', served, c, served[c])
        /\ Put(answer', answer, c, answer[c]) /\ Put(starved', starved, c, starved[c])
        /\ "decode" \in PCs
    BY <1>1, <1>2, <1>7 DEF Put, PCs, Go
  <2> QED
    BY <1>2, <1>4, <2>1, <2>2, StepKeeps
<1>8. CASE /\ b.type # "multipart"
           /\ Fail(c, "read", IF b.type = "other" THEN "content_type" ELSE "decode")
           /\ UNCHANGED << spool, starved >>
  BY <1>2, <1>6, <1>8 DEF Put
<1>9. CASE /\ b.type = "multipart"
           /\ Fail(c, "read", "decode")
           /\ starved' = [starved EXCEPT ![c] = TRUE]
           /\ UNCHANGED spool
  BY <1>6, <1>9 DEF Put
<1> QED
  BY <1>5, <1>7, <1>8, <1>9

LEMMA DecodeRequestKeeps ==
  ASSUME HttpInv, NEW c \in Conns, DecodeRequest(c)
  PROVE  HttpInv'
<1> DEFINE r == req[c]
           b == req[c].body
           found == Found(r)
<1>1. pc[c] = "decode" /\ UNCHANGED << req, call, copy, served, starved >>
  BY DEF DecodeRequest
<1>2. /\ ConnInv(c) /\ r \in Asked /\ call[c] = Leaf(call[c].op, call[c].arg)
      /\ served[c] = Leaf(served[c].op, served[c].arg)
      /\ answer[c] = Reply(answer[c].status, answer[c].code)
      /\ spool[c] \in Nat /\ copy[c] = 0 /\ starved[c] \in BOOLEAN
  BY <1>1, AtRequest DEF Ended
<1>3. /\ IsApi(r) /\ found.op = "printDocument" /\ r.method = MethodOf(found.op)
      /\ call[c] = found /\ served[c] = NoCall /\ answer[c] = NoAnswer /\ SpoolInv(c)
      /\ r.key = "right" /\ b.type = "multipart"
  BY <1>1, <1>2 DEF ConnInv, InHandInv, InHand, BeginInv, Ended, Authorized
<1>4. Decoded(found) = found
  BY <1>2, <1>3, FoundFacts
<1>5. \/ /\ Exceeds(b)
         /\ Fail(c, "decode", "max_bytes") /\ spool' = [spool EXCEPT ![c] = 0]
      \/ /\ ~ Exceeds(b) /\ ~ (b.whole /\ b.fields /\ b.file)
         /\ Fail(c, "decode", "decode") /\ spool' = [spool EXCEPT ![c] = 0]
      \/ /\ ~ Exceeds(b) /\ b.whole /\ b.fields /\ b.file
         /\ Go(c, "decode", "handle") /\ UNCHANGED << answer, spool >>
  BY DEF DecodeRequest
<1> HIDE DEF found
<1>6. ASSUME NEW err \in {"max_bytes", "decode"},
             Fail(c, "decode", err), spool' = [spool EXCEPT ![c] = 0],
             err = "max_bytes" <=> Exceeds(b), ~ Complete(b)
      PROVE  HttpInv'
  <2> DEFINE a == ErrorAnswer(err)
  <2>1. /\ a = Reply(a.status, a.code) /\ a.status \in {400, 401, 413, 415}
        /\ a.status = 413 <=> Exceeds(b)
    BY <1>6, ErrorAnswers
  <2>2. pc' = [pc EXCEPT ![c] = "close"] /\ Put(answer', answer, c, a)
    BY <1>6 DEF Fail, Answer, Go, Put
  <2> HIDE DEF a
  <2>3. ASSUME pc'[c] = "close", req'[c] = r, call'[c] = call[c], spool'[c] = 0,
               copy'[c] = 0, served'[c] = served[c], answer'[c] = a,
               starved'[c] = starved[c]
        PROVE  ConnInv(c)'
    <3>1. BeginInv(c)' /\ InHandInv(c)' /\ SpoolInv(c)'
      BY <2>3, <1>3 DEF BeginInv, InHandInv, SpoolInv, InHand, Ended
    <3>2. EndedInv(c)'
      <4>1. ~ Admitted(r)
        BY <1>3, <1>6 DEF Admitted, found
      <4> QED
        BY <4>1, <2>1, <2>3, <1>3 DEF EndedInv, Ended, found
    <3>3. LimitInv(c)'
      <4>1. Exceeds(b) => b.size > MaxUploadBytes \/ b.form > FormRoom
        BY <1>2, HttpServerAssumption DEF Exceeds, BodyLimit
      <4> QED
        BY <4>1, <2>1, <2>3 DEF LimitInv, Ended
    <3> QED
      BY <3>1, <3>2, <3>3 DEF ConnInv
  <2>4. /\ Put(pc', pc, c, "close") /\ Put(req', req, c, r) /\ Put(call', call, c, call[c])
        /\ Put(spool', spool, c, 0) /\ Put(copy', copy, c, 0)
        /\ Put(served', served, c, served[c])
        /\ Put(answer', answer, c, a) /\ Put(starved', starved, c, starved[c])
        /\ "close" \in PCs
    BY <1>1, <1>2, <1>6, <2>2 DEF Put, PCs
  <2>5. a = Reply(a.status, a.code)
    BY <2>1
  <2> QED
    BY <1>2, <2>3, <2>4, <2>5, StepKeeps
<1>7. CASE /\ ~ Exceeds(b) /\ b.whole /\ b.fields /\ b.file
           /\ Go(c, "decode", "handle") /\ UNCHANGED << answer, spool >>
  <2>1. ASSUME pc'[c] = "handle", req'[c] = r, call'[c] = call[c],
               spool'[c] = spool[c], copy'[c] = 0, served'[c] = served[c],
               answer'[c] = answer[c], starved'[c] = starved[c]
        PROVE  ConnInv(c)'
    <3>1. BeginInv(c)' /\ EndedInv(c)' /\ SpoolInv(c)' /\ LimitInv(c)'
      BY <2>1, <1>3 DEF BeginInv, EndedInv, SpoolInv, LimitInv, Ended
    <3>2. Admitted(r)
      BY <1>3, <1>7 DEF Admitted, Complete, Authorized, Parameterised, found
    <3>3. InHandInv(c)'
      BY <2>1, <3>2, <1>3, <1>4 DEF InHandInv, InHand, Authorized, found
    <3> QED
      BY <3>1, <3>3 DEF ConnInv
  <2>2. /\ Put(pc', pc, c, "handle") /\ Put(req', req, c, r) /\ Put(call', call, c, call[c])
        /\ Put(spool', spool, c, spool[c]) /\ Put(copy', copy, c, 0)
        /\ Put(served', served, c, served[c])
        /\ Put(answer', answer, c, answer[c]) /\ Put(starved', starved, c, starved[c])
        /\ "handle" \in PCs
    BY <1>1, <1>2, <1>7 DEF Put, PCs, Go
  <2> QED
    BY <1>2, <2>1, <2>2, StepKeeps
<1>8. CASE /\ Exceeds(b)
           /\ Fail(c, "decode", "max_bytes") /\ spool' = [spool EXCEPT ![c] = 0]
  BY <1>6, <1>8 DEF Complete
<1>9. CASE /\ ~ Exceeds(b) /\ ~ (b.whole /\ b.fields /\ b.file)
           /\ Fail(c, "decode", "decode") /\ spool' = [spool EXCEPT ![c] = 0]
  BY <1>6, <1>9 DEF Complete
<1> QED
  BY <1>5, <1>7, <1>8, <1>9

LEMMA HandleKeeps ==
  ASSUME HttpInv, NEW c \in Conns, Handle(c)
  PROVE  HttpInv'
<1> DEFINE r == req[c]
           b == req[c].body
           found == Found(r)
<1>1. /\ pc[c] = "handle" /\ UNCHANGED << req, call, spool, starved >>
      /\ served' = [served EXCEPT ![c] = call[c]]
  BY DEF Handle
<1>2. /\ ConnInv(c) /\ r \in Asked /\ call[c] = Leaf(call[c].op, call[c].arg)
      /\ answer[c] = Reply(answer[c].status, answer[c].code)
      /\ spool[c] \in Nat /\ copy[c] = 0 /\ starved[c] \in BOOLEAN /\ b.size \in Nat
  BY <1>1, AtRequest, HttpServerAssumption DEF Ended
<1>3. /\ IsApi(r) /\ found.op # "none" /\ r.method = MethodOf(found.op)
      /\ call[c] = Decoded(found) /\ SpoolInv(c) /\ Admitted(r) /\ answer[c] = NoAnswer
  BY <1>1, <1>2 DEF ConnInv, InHandInv, InHand, BeginInv, Ended
<1>4. call[c].op = found.op
  BY <1>3, FoundFacts
<1>5. found.op = "printDocument" => ~ Exceeds(b) /\ r.key = "right"
  BY <1>3 DEF Admitted, Complete, Authorized, found
<1>6. \/ /\ found.op # "printDocument"
         /\ Answer(c, "handle", Reply(200, "none")) /\ UNCHANGED copy
      \/ Answer(c, "handle", Reply(400, "unsupported")) /\ UNCHANGED copy
      \/ /\ b.size > MaxUploadBytes
         /\ Answer(c, "handle", Reply(413, "file_too_large")) /\ UNCHANGED copy
      \/ found.op = "printDocument" /\ CopyPrintFile(c)
  BY <1>4 DEF Handle
<1> HIDE DEF found
<1>7. ASSUME NEW a, a = Reply(a.status, a.code), NEW k \in Nat,
             Answer(c, "handle", a), Put(copy', copy, c, k),
             a.status \in {200, 400, 413, 500},
             a.status = 413 => b.size > MaxUploadBytes,
             k # 0 => a.code \in TurnedDown /\ found.op = "printDocument"
      PROVE  HttpInv'
  <2>1. ASSUME pc'[c] = "close", req'[c] = r, call'[c] = call[c], spool'[c] = spool[c],
               copy'[c] = k, served'[c] = call[c], answer'[c] = a,
               starved'[c] = starved[c]
        PROVE  ConnInv(c)'
    <3>1. BeginInv(c)' /\ InHandInv(c)'
      BY <2>1 DEF BeginInv, InHandInv, InHand, Ended
    <3>2. SpoolInv(c)'
      BY <2>1, <1>1, <1>3, <1>5, <1>7 DEF SpoolInv
    <3>3. EndedInv(c)'
      BY <2>1, <1>3, <1>4, <1>7 DEF EndedInv, Ended, found
    <3>4. LimitInv(c)'
      BY <2>1, <1>4, <1>5, <1>7 DEF LimitInv, Ended
    <3> QED
      BY <3>1, <3>2, <3>3, <3>4 DEF ConnInv
  <2>2. /\ Put(pc', pc, c, "close") /\ Put(req', req, c, r) /\ Put(call', call, c, call[c])
        /\ Put(spool', spool, c, spool[c]) /\ Put(copy', copy, c, k)
        /\ Put(served', served, c, call[c]) /\ Put(answer', answer, c, a)
        /\ Put(starved', starved, c, starved[c]) /\ "close" \in PCs
    BY <1>1, <1>7 DEF Put, PCs, Answer, Go
  <2> QED
    BY <1>2, <1>7, <2>1, <2>2, StepKeeps
<1>8. ASSUME Go(c, "handle", "print"), UNCHANGED answer, found.op = "printDocument",
             copy' = [copy EXCEPT ![c] = b.size]
      PROVE  HttpInv'
  <2>1. ASSUME pc'[c] = "print", req'[c] = r, call'[c] = call[c], spool'[c] = spool[c],
               copy'[c] = b.size, served'[c] = call[c], answer'[c] = answer[c],
               starved'[c] = starved[c]
        PROVE  ConnInv(c)'
    <3>1. BeginInv(c)' /\ EndedInv(c)' /\ LimitInv(c)'
      BY <2>1, <1>3 DEF BeginInv, EndedInv, LimitInv, Ended
    <3>2. SpoolInv(c)'
      BY <2>1, <1>1, <1>3, <1>5, <1>8 DEF SpoolInv
    <3>3. InHandInv(c)'
      BY <2>1, <1>3, <1>5, <1>8 DEF InHandInv, InHand, Authorized, found
    <3> QED
      BY <3>1, <3>2, <3>3 DEF ConnInv
  <2>2. /\ Put(pc', pc, c, "print") /\ Put(req', req, c, r) /\ Put(call', call, c, call[c])
        /\ Put(spool', spool, c, spool[c]) /\ Put(copy', copy, c, b.size)
        /\ Put(served', served, c, call[c]) /\ Put(answer', answer, c, answer[c])
        /\ Put(starved', starved, c, starved[c]) /\ "print" \in PCs
    BY <1>1, <1>8 DEF Put, PCs, Go
  <2> QED
    BY <1>2, <2>1, <2>2, StepKeeps
<1>9. ASSUME NEW status \in {200, 400, 413, 500}, NEW code,
             Answer(c, "handle", Reply(status, code)),
             NEW k \in Nat, Put(copy', copy, c, k),
             status = 413 => b.size > MaxUploadBytes,
             k # 0 => code \in TurnedDown /\ found.op = "printDocument"
      PROVE  HttpInv'
  <2> DEFINE a == Reply(status, code)
  <2>1. a = Reply(a.status, a.code) /\ a.status = status /\ a.code = code
    BY DEF Reply
  <2>2. Answer(c, "handle", a)
    BY <1>9
  <2> HIDE DEF a
  <2> QED
    BY <2>1, <2>2, <1>7, <1>9
<1>10. UNCHANGED copy => Put(copy', copy, c, 0)
  BY <1>2 DEF Put
<1>11. ASSUME CopyPrintFile(c), found.op = "printDocument"
       PROVE  HttpInv'
  <2>1. \/ /\ copy' = [copy EXCEPT ![c] = b.size]
           /\ \/ b.size = 0 /\ Answer(c, "handle", Reply(400, "empty_document"))
              \/ Answer(c, "handle", Reply(400, "invalid_document"))
              \/ Go(c, "handle", "print") /\ UNCHANGED answer
        \/ /\ \E n \in 0 .. b.size - 1 : copy' = [copy EXCEPT ![c] = n]
           /\ Answer(c, "handle", Reply(500, "store_document"))
    BY <1>11 DEF CopyPrintFile
  <2>2. CASE /\ copy' = [copy EXCEPT ![c] = b.size]
             /\ b.size = 0 /\ Answer(c, "handle", Reply(400, "empty_document"))
    <3>1. Put(copy', copy, c, 0)
      BY <2>2 DEF Put
    <3>2. Answer(c, "handle", Reply(400, "empty_document"))
      BY <2>2
    <3> QED
      BY <3>1, <3>2, <1>9
  <2>3. CASE /\ copy' = [copy EXCEPT ![c] = b.size]
             /\ Answer(c, "handle", Reply(400, "invalid_document"))
    <3>1. Put(copy', copy, c, b.size) /\ "invalid_document" \in TurnedDown
      BY <2>3 DEF Put, TurnedDown
    <3>2. b.size \in Nat /\ found.op = "printDocument"
      BY <1>2, <1>11
    <3>3. Answer(c, "handle", Reply(400, "invalid_document"))
      BY <2>3
    <3> QED
      BY <3>1, <3>2, <3>3, <1>9
  <2>4. CASE /\ copy' = [copy EXCEPT ![c] = b.size]
             /\ Go(c, "handle", "print") /\ UNCHANGED answer
    BY <2>4, <1>8, <1>11
  <2>5. CASE /\ \E n \in 0 .. b.size - 1 : copy' = [copy EXCEPT ![c] = n]
             /\ Answer(c, "handle", Reply(500, "store_document"))
    <3>1. PICK n \in 0 .. b.size - 1 : copy' = [copy EXCEPT ![c] = n]
      BY <2>5
    <3>2. Put(copy', copy, c, n) /\ n \in Nat /\ "store_document" \in TurnedDown
      BY <3>1, <1>2 DEF Put, TurnedDown
    <3>3. Answer(c, "handle", Reply(500, "store_document"))
      BY <2>5
    <3> QED
      BY <3>2, <3>3, <1>9, <1>11
  <2> QED
    BY <2>1, <2>2, <2>3, <2>4, <2>5
<1>12. CASE Answer(c, "handle", Reply(200, "none")) /\ UNCHANGED copy
  BY <1>9, <1>10, <1>12
<1>13. CASE Answer(c, "handle", Reply(400, "unsupported")) /\ UNCHANGED copy
  BY <1>9, <1>10, <1>13
<1>14. CASE /\ b.size > MaxUploadBytes
            /\ Answer(c, "handle", Reply(413, "file_too_large")) /\ UNCHANGED copy
  BY <1>9, <1>10, <1>14
<1> QED
  BY <1>6, <1>11, <1>12, <1>13, <1>14

LEMMA RunLPKeeps ==
  ASSUME HttpInv, NEW c \in Conns, RunLP(c)
  PROVE  HttpInv'
<1> DEFINE r == req[c]
           b == req[c].body
           found == Found(r)
<1>1. /\ pc[c] = "print" /\ pc' = [pc EXCEPT ![c] = "close"]
      /\ copy' = [copy EXCEPT ![c] = 0]
      /\ UNCHANGED << req, call, spool, served, starved >>
  BY DEF RunLP, Answer, Go
<1>2. PICK status \in {202, 500} : \E code : Answer(c, "print", Reply(status, code))
  BY DEF RunLP
<1>3. PICK code : Answer(c, "print", Reply(status, code))
  BY <1>2
<1> DEFINE a == Reply(status, code)
<1>4. a = Reply(a.status, a.code) /\ a.status \in {202, 500} /\ Put(answer', answer, c, a)
  BY <1>3 DEF Reply, Answer, Put
<1> HIDE DEF a
<1>5. /\ ConnInv(c) /\ r \in Asked /\ call[c] = Leaf(call[c].op, call[c].arg)
      /\ served[c] = Leaf(served[c].op, served[c].arg)
      /\ spool[c] \in Nat /\ starved[c] \in BOOLEAN
  BY <1>1, AtRequest
<1>6. /\ IsApi(r) /\ found.op = "printDocument" /\ r.method = MethodOf(found.op)
      /\ call[c] = Decoded(found) /\ served[c] = Decoded(found) /\ SpoolInv(c)
      /\ Admitted(r)
  BY <1>1, <1>5 DEF ConnInv, InHandInv, InHand
<1>7. ~ Exceeds(b) /\ call[c].op = found.op
  BY <1>6, FoundFacts DEF Admitted, Complete, found
<1> HIDE DEF found
<1>8. ASSUME pc'[c] = "close", req'[c] = r, call'[c] = call[c], spool'[c] = spool[c],
             copy'[c] = 0, served'[c] = served[c], answer'[c] = a,
             starved'[c] = starved[c]
      PROVE  ConnInv(c)'
  <2>1. BeginInv(c)' /\ InHandInv(c)' /\ SpoolInv(c)'
    BY <1>1, <1>6, <1>8 DEF BeginInv, InHandInv, SpoolInv, InHand, Ended
  <2>2. EndedInv(c)'
    BY <1>4, <1>6, <1>7, <1>8 DEF EndedInv, Ended, found
  <2>3. LimitInv(c)'
    BY <1>4, <1>7, <1>8 DEF LimitInv, Ended
  <2> QED
    BY <2>1, <2>2, <2>3 DEF ConnInv
<1>9. /\ Put(pc', pc, c, "close") /\ Put(req', req, c, r) /\ Put(call', call, c, call[c])
      /\ Put(spool', spool, c, spool[c]) /\ Put(copy', copy, c, 0)
      /\ Put(served', served, c, served[c]) /\ Put(starved', starved, c, starved[c])
      /\ "close" \in PCs
  BY <1>1 DEF Put, PCs
<1> QED
  BY <1>4, <1>5, <1>8, <1>9, StepKeeps

LEMMA CloseKeeps ==
  ASSUME HttpInv, NEW c \in Conns, Close(c)
  PROVE  HttpInv'
<1> DEFINE r == req[c]
<1>1. /\ pc[c] = "close" /\ pc' = [pc EXCEPT ![c] = "done"]
      /\ spool' = [spool EXCEPT ![c] = 0]
      /\ UNCHANGED << req, call, copy, served, answer, starved >>
  BY DEF Close, Go
<1>2. /\ ConnInv(c) /\ r \in Asked /\ call[c] = Leaf(call[c].op, call[c].arg)
      /\ served[c] = Leaf(served[c].op, served[c].arg)
      /\ answer[c] = Reply(answer[c].status, answer[c].code)
      /\ copy[c] \in Nat /\ starved[c] \in BOOLEAN
  BY <1>1, AtRequest
<1>3. ASSUME pc'[c] = "done", req'[c] = r, call'[c] = call[c], spool'[c] = 0,
             copy'[c] = copy[c], served'[c] = served[c], answer'[c] = answer[c],
             starved'[c] = starved[c]
      PROVE  ConnInv(c)'
  <2>1. BeginInv(c)' /\ InHandInv(c)'
    BY <1>3 DEF BeginInv, InHandInv, InHand, Ended
  <2>4. SpoolInv(c)'
    BY <1>1, <1>2, <1>3 DEF ConnInv, SpoolInv
  <2>2. EndedInv(c)'
    BY <1>1, <1>2, <1>3 DEF ConnInv, EndedInv, Ended
  <2>3. LimitInv(c)'
    BY <1>1, <1>2, <1>3 DEF ConnInv, LimitInv, Ended
  <2> QED
    BY <2>1, <2>2, <2>3, <2>4 DEF ConnInv
<1>4. /\ Put(pc', pc, c, "done") /\ Put(req', req, c, r) /\ Put(call', call, c, call[c])
      /\ Put(spool', spool, c, 0) /\ Put(copy', copy, c, copy[c])
      /\ Put(served', served, c, served[c]) /\ Put(answer', answer, c, answer[c])
      /\ Put(starved', starved, c, starved[c]) /\ "done" \in PCs
  BY <1>1 DEF Put, PCs
<1> QED
  BY <1>2, <1>3, <1>4, StepKeeps

(* HttpInv is inductive.                                                   *)
THEOREM HttpInvariance == Spec => []HttpInv
<1>1. ASSUME HttpInv, [Next]_vars
      PROVE  HttpInv'
  <2>1. ASSUME NEW c \in Conns, Receive(c)
        PROVE  HttpInv'
    BY <1>1, <2>1, ReceiveKeeps
  <2>2. ASSUME NEW c \in Conns, Step(c)
        PROVE  HttpInv'
    BY <1>1, <2>2, DispatchKeeps, AuthenticateKeeps, DecodeParamsKeeps, ReadBodyKeeps,
       DecodeRequestKeeps, HandleKeeps, RunLPKeeps, CloseKeeps DEF Step
  <2>3. CASE UNCHANGED vars
    <3>1. HttpTypeOK'
      BY <1>1, <2>3 DEF HttpInv, HttpTypeOK, vars
    <3>2. ASSUME NEW c \in Conns
          PROVE  ConnInv(c)'
      <4>1. ConnInv(c)
        BY <1>1 DEF HttpInv, ConnInv
      <4> QED
        BY <4>1, <2>3 DEF ConnInv, BeginInv, InHandInv, EndedInv, SpoolInv, LimitInv,
           vars
    <3> QED
      BY <3>1, <3>2 DEF HttpInv, ConnInv
  <2> QED
    BY <1>1, <2>1, <2>2, <2>3 DEF Next
<1> QED
  BY <1>1, InitKeeps, PTL DEF Spec

-----------------------------------------------------------------------------
(* What follows from it.                                                   *)

(* Without the key nothing of a request is spooled to /tmp and no handler  *)
(* but that of the health check runs, for any interleaving of the requests *)
(* (the order of security and decoding in the generated handlers).         *)
THEOREM KeyFirst == Spec => []NothingWithoutKey
<1>1. HttpInv => NothingWithoutKey
  <2> SUFFICES ASSUME HttpInv, NEW c \in Conns, pc[c] # "idle", req[c].key # "right"
               PROVE  /\ spool[c] = 0 /\ copy[c] = 0
                      /\ served[c].op \in {"none", "healthCheck"}
    BY DEF NothingWithoutKey
  <2>1. ConnInv(c)
    BY DEF HttpInv, ConnInv
  <2>2. spool[c] = 0 /\ copy[c] = 0
    BY <2>1 DEF ConnInv, SpoolInv
  <2>3. CASE served[c] = NoCall
    BY <2>2, <2>3 DEF NoCall
  <2>4. CASE served[c] # NoCall
    <3>1. Admitted(req[c]) /\ served[c] = Decoded(Found(req[c]))
      BY <2>1, <2>4 DEF ConnInv, BeginInv, InHandInv, EndedInv, InHand
    <3>2. Found(req[c]).op = "healthCheck"
      BY <3>1 DEF Admitted, Authorized
    <3> QED
      BY <2>2, <3>1, <3>2, FoundFacts
  <2> QED
    BY <2>3, <2>4
<1> QED
  BY <1>1, HttpInvariance, PTL

(* The status 413 is given to every authorised upload that is cut off at   *)
(* the limit of the body, and only to one over a limit (apiErrorHandler    *)
(* and PrintDocument).                                                     *)
THEOREM TooLarge == Spec => []TooLargeIsSaidSo
<1>1. HttpInv => TooLargeIsSaidSo
  <2> SUFFICES ASSUME HttpInv, NEW c \in Conns
               PROVE  LET b == req[c].body
                      IN  /\ answer[c].status = 413 =>
                               b.size > MaxUploadBytes \/ b.form > FormRoom
                          /\ call[c].op = "printDocument" /\ pc[c] = "done"
                               /\ answer[c].status # 413 /\ req[c].method = "POST"
                               /\ req[c].key = "right" /\ b.type = "multipart"
                               => ~ Exceeds(b) \/ starved[c]
    BY DEF TooLargeIsSaidSo
  <2>1. ConnInv(c)
    BY DEF HttpInv, ConnInv
  <2>2. pc[c] \notin Ended => answer[c].status # 413 /\ pc[c] # "done"
    BY <2>1 DEF ConnInv, BeginInv, NoAnswer, Ended
  <2> QED
    BY <2>1, <2>2 DEF ConnInv, LimitInv, Ended
<1> QED
  BY <1>1, HttpInvariance, PTL

(* The method of an operation in the tree is that of its template.         *)
LEMMA MethodsAgree ==
  ASSUME NEW t \in Documented
  PROVE  /\ t.op \in Ops /\ t.op # "none" /\ MethodOf(t.op) = t.method
         /\ t.op \in Parameterised <=> t.param
  BY DEF Documented, Template, Ops, MethodOf, Parameterised

(* The prefix tree of the router and the path templates of openapi.yaml    *)
(* agree for every path: 404 and 405 are answered for what is not          *)
(* documented, and no other operation is chosen than the documented one.   *)
THEOREM TreeIsTemplates == Spec => []RoutedAsDocumented
<1>1. HttpInv => RoutedAsDocumented
  <2> SUFFICES ASSUME HttpInv, NEW c \in Conns, pc[c] \notin {"idle", "route"},
                      ~ IsDocs(req[c]), IsClean(req[c].path)
               PROVE  LET ts == { t \in Documented : Designates(t, req[c].path) }
                      IN  /\ answer[c].status = 404 <=> ts = {}
                          /\ answer[c].status \in {204, 405} <=>
                               ts # {} /\ \A t \in ts : t.method # req[c].method
                          /\ \A t \in ts : call[c].op = t.op
    BY DEF RoutedAsDocumented
  <2> DEFINE r == req[c]
             found == Found(r)
             ts == { t \in Documented : Designates(t, r.path) }
  <2>1. ConnInv(c) /\ r \in Asked /\ IsApi(r)
    BY AtRequest DEF IsApi
  <2>2. /\ \A t \in ts : found.op = t.op
        /\ found.op # "none" <=> ts # {}
        /\ \A t \in ts : t.method = MethodOf(found.op)
    <3>1. \A t \in ts : found = Leaf(t.op, ArgOf(t, r.path))
      BY <2>1, RouteDesignates DEF Found
    <3>2. ASSUME NEW t \in ts
          PROVE  found.op = t.op
      <4>1. found = Leaf(t.op, ArgOf(t, r.path))
        BY <3>1, <3>2
      <4> HIDE DEF found, ts
      <4> QED
        BY <4>1 DEF Leaf
    <3>3. found.op # "none" => ts # {}
      BY <2>1, RouteDesignates DEF Found, NoCall
    <3> QED
      BY <3>2, <3>3, MethodsAgree
  <2>3. /\ call[c].op = found.op
        /\ answer[c].status = 404 <=> found.op = "none"
        /\ answer[c].status \in {204, 405} <=>
             found.op # "none" /\ r.method # MethodOf(found.op)
    <3>1. CASE pc[c] \in Ended
      BY <2>1, <3>1 DEF ConnInv, EndedInv
    <3>2. CASE pc[c] \notin Ended
      <4>1. pc[c] \in InHand
        BY <3>2 DEF HttpInv, HttpTypeOK, PCs, InHand, Ended
      <4>2. answer[c].status = 0
        BY <2>1, <3>2 DEF ConnInv, BeginInv, NoAnswer
      <4>3. found.op # "none" /\ r.method = MethodOf(found.op)
            /\ call[c] \in {found, Decoded(found)}
        BY <2>1, <4>1 DEF ConnInv, InHandInv
      <4>4. call[c].op = found.op
        BY <4>3, FoundFacts
      <4> QED
        BY <4>2, <4>3, <4>4
    <3> QED
      BY <3>1, <3>2
  <2> HIDE DEF found, ts
  <2>4. (ts # {} /\ \A t \in ts : t.method # r.method) <=>
          ts # {} /\ r.method # MethodOf(found.op)
    BY <2>2
  <2>5. /\ answer[c].status = 404 <=> ts = {}
        /\ answer[c].status \in {204, 405} <=>
             ts # {} /\ \A t \in ts : t.method # r.method
        /\ \A t \in ts : call[c].op = t.op
    BY <2>2, <2>3, <2>4
  <2> QED
    BY <2>5 DEF ts
<1> QED
  BY <1>1, HttpInvariance, PTL

(* A handler of api.go is given every well-formed request, with its own    *)
(* parameter, and no other (the generated handle...Request functions).     *)
THEOREM HandlersGetTheirOwn == Spec => []HandledIffWellFormed
<1>1. HttpInv => HandledIffWellFormed
  <2> SUFFICES ASSUME HttpInv, NEW c \in Conns, pc[c] = "done", ~ starved[c]
               PROVE  LET ts == { t \in Documented : WellFormed(req[c], t) }
                      IN  /\ ts = {} => served[c] = NoCall
                          /\ \A t \in ts :
                               served[c] = Leaf(t.op, Unescape(ArgOf(t, req[c].path)))
    BY DEF HandledIffWellFormed
  <2> DEFINE r == req[c]
             found == Found(r)
  <2>1. ConnInv(c) /\ r \in Asked
    BY AtRequest
  <2>2. /\ served[c] # NoCall => Admitted(r) /\ served[c] = Decoded(found)
        /\ Admitted(r) => served[c] = Decoded(found)
    BY <2>1 DEF ConnInv, EndedInv, Ended
  <2>3. ASSUME NEW t \in Documented, Designates(t, r.path)
        PROVE  /\ found = Leaf(t.op, ArgOf(t, r.path))
               /\ found.op = t.op /\ found.arg = ArgOf(t, r.path)
               /\ ~ IsDocs(r) /\ found.op # "none"
    <3>1. found = Leaf(t.op, ArgOf(t, r.path))
      BY <2>1, <2>3, RouteDesignates DEF Found
    <3>2. found.op = t.op /\ found.arg = ArgOf(t, r.path) /\ found.op # "none"
      BY <3>1, MethodsAgree DEF Leaf
    <3>3. ~ IsDocs(r)
      BY <3>2, <2>1, RouteDesignates DEF Found, NoCall
    <3> QED
      BY <3>1, <3>2, <3>3
  <2>4. ASSUME NEW t \in Documented, Designates(t, r.path)
        PROVE  WellFormed(r, t) <=> Admitted(r)
    <3>1. /\ found.op = t.op /\ found.arg = ArgOf(t, r.path)
          /\ ~ IsDocs(r) /\ found.op # "none"
      BY <2>3, <2>4
    <3>2. MethodOf(t.op) = t.method /\ (t.op \in Parameterised <=> t.param)
      BY MethodsAgree
    <3>3. t.op = "printDocument" =>
            (Complete(r.body) <=>
               /\ r.body.type = "multipart" /\ r.body.whole /\ r.body.fields
               /\ r.body.file /\ r.body.size + r.body.form <= MaxUploadBytes + FormRoom)
      BY <2>1, HttpServerAssumption DEF Complete, Exceeds, BodyLimit
    <3> QED
      BY <2>4, <3>1, <3>2, <3>3 DEF WellFormed, Admitted, Authorized, IsApi
  <2>5. ASSUME served[c] # NoCall
        PROVE  \E t \in Documented : WellFormed(r, t)
    <3>1. Admitted(r)
      BY <2>2, <2>5
    <3>2. \E t \in Documented : Designates(t, r.path)
      BY <3>1, <2>1, RouteDesignates DEF Admitted, Found, NoCall
    <3> QED
      BY <3>1, <3>2, <2>4
  <2>6. ASSUME NEW t \in Documented, WellFormed(r, t)
        PROVE  served[c] = Leaf(t.op, Unescape(ArgOf(t, r.path)))
    <3>1. Designates(t, r.path)
      BY <2>6 DEF WellFormed
    <3>2. served[c] = Decoded(found)
      BY <2>2, <2>4, <2>6, <3>1
    <3> QED
      BY <2>3, <3>1, <3>2 DEF Decoded
  <2> QED
    BY <2>5, <2>6
<1> QED
  BY <1>1, HttpInvariance, PTL

-----------------------------------------------------------------------------
(* The room in /tmp.                                                       *)

(* With nobody else at work, what is in use is what is left for a request  *)
(* before it has made a copy of its own.                                   *)
LEMMA UsedIfAlone ==
  ASSUME HttpInv, NEW c \in Conns, pc[c] \in {"read", "handle"},
         \A d \in Conns \ {c} :
           pc[d] \notin {"read", "decode", "handle", "print", "close"}
  PROVE  DiskUsed = LeftFor(c)
<1> DEFINE left(d) == IF d = c THEN spool[d]
                      ELSE IF answer[d].code \in TurnedDown THEN copy[d] ELSE 0
<1>1. ASSUME NEW d \in Conns
      PROVE  spool[d] + copy[d] = left(d)
  <2>1. SpoolInv(d) /\ spool[d] \in Nat /\ copy[d] \in Nat
    BY DEF HttpInv, HttpTypeOK
  <2>2. CASE d = c
    BY <2>1, <2>2, AtRequest DEF Ended
  <2>3. CASE d # c
    <3>1. spool[d] = 0 /\ (copy[d] # 0 => answer[d].code \in TurnedDown)
      BY <2>1, <2>3 DEF SpoolInv
    <3> QED
      BY <2>1, <2>3, <3>1
  <2> QED
    BY <2>2, <2>3
<1>2. [d \in Conns |-> spool[d] + copy[d]] = [d \in Conns |-> left(d)]
  BY <1>1
<1> QED
  BY <1>2, Zenon DEF DiskUsed, LeftFor

(* The room of a request in /tmp is given back, but for the copy of a      *)
(* document turned down: there is too little room only while others are    *)
(* served, or when those copies and the request's own files are too much   *)
(* (the form released by the decoder, the closers of the handler, and the  *)
(* removal of the print file).                                             *)
THEOREM SpaceReturns == Spec => SpaceIsGivenBack
<1> DEFINE Keeps ==
             \A c \in Conns :
               ShortOfRoom(c)' /\ ~ ShortOfRoom(c) =>
                 \/ \E d \in Conns \ {c} :
                      pc[d] \in {"read", "decode", "handle", "print", "close"}
                 \/ LeftFor(c) + Wants(c) > DiskRoom
<1>1. ASSUME HttpInv, [Next]_vars
      PROVE  [Keeps]_vars
  <2> SUFFICES ASSUME NEW c \in Conns, ShortOfRoom(c)', ~ ShortOfRoom(c),
                      \A d \in Conns \ {c} :
                        pc[d] \notin {"read", "decode", "handle", "print", "close"}
               PROVE  LeftFor(c) + Wants(c) > DiskRoom
    OBVIOUS
  <2>1. /\ starved \in [Conns -> BOOLEAN]
        /\ answer = [d \in Conns |-> Reply(answer[d].status, answer[d].code)]
    BY <1>1 DEF HttpInv, HttpTypeOK
  <2>2. starved'[c] # starved[c] \/ answer'[c].code # answer[c].code
    BY DEF ShortOfRoom
  <2>3. PICK e \in Conns : Receive(e) \/ Step(e)
    BY <1>1, <2>2 DEF Next, vars
  <2>4. ASSUME NEW from, NEW a, Answer(e, from, a), a.code # "store_document",
               UNCHANGED starved
        PROVE  FALSE
    BY <2>1, <2>2, <2>4 DEF Answer, ShortOfRoom
  <2>5. ~ UNCHANGED << answer, starved >>
    BY <2>2
  <2>6. \A err : ErrorAnswer(err).code # "store_document"
    BY DEF ErrorAnswer, Reply
  <2>7. \A status, code : Reply(status, code).code = code
    BY DEF Reply
  <2>8. CASE Receive(e) \/ Dispatch(e)
    <3>1. \/ UNCHANGED << answer, starved >>
          \/ /\ \E status, from : Answer(e, from, Reply(status, "none"))
             /\ UNCHANGED starved
      BY <2>8 DEF Receive, Dispatch, MuxAnswer, NotAllowed
    <3> QED
      BY <3>1, <2>4, <2>5, <2>7
  <2>9. CASE Authenticate(e) \/ DecodeParams(e) \/ DecodeRequest(e)
    <3>1. \/ UNCHANGED << answer, starved >>
          \/ (\E err, from : Answer(e, from, ErrorAnswer(err))) /\ UNCHANGED starved
      BY <2>9 DEF Authenticate, DecodeParams, DecodeRequest, Fail
    <3> QED
      BY <3>1, <2>4, <2>5, <2>6
  <2>10. CASE RunLP(e) \/ Close(e)
    BY <2>10, <2>4, <2>5, <2>7 DEF RunLP, Close
  <2>11. ASSUME pc[e] \in {"read", "handle"},
                starved'[c] # starved[c] => c = e, answer'[c] # answer[c] => c = e
         PROVE  c = e /\ DiskUsed = LeftFor(c)
    BY <1>1, <2>2, <2>11, UsedIfAlone
  <2>12. CASE ReadBody(e)
    <3>1. \/ (\E err : Answer(e, "read", ErrorAnswer(err))) /\ UNCHANGED starved
          \/ UNCHANGED << answer, starved >>
          \/ /\ DiskUsed + Spooled(req[e].body) > DiskRoom /\ pc[e] = "read"
             /\ answer' = [answer EXCEPT ![e] = ErrorAnswer("decode")]
             /\ starved' = [starved EXCEPT ![e] = TRUE]
      BY <2>12 DEF ReadBody, Fail, Answer
    <3>2. /\ DiskUsed + Spooled(req[e].body) > DiskRoom /\ pc[e] = "read"
          /\ answer' = [answer EXCEPT ![e] = ErrorAnswer("decode")]
          /\ starved' = [starved EXCEPT ![e] = TRUE]
      BY <3>1, <2>4, <2>5, <2>6
    <3>3. c = e /\ DiskUsed = LeftFor(c)
      BY <3>2, <2>1, <2>11
    <3> QED
      BY <3>2, <3>3 DEF Wants
  <2>13. CASE Handle(e)
    <3>1. \/ /\ \E status : \E code \in {"none", "unsupported", "file_too_large",
                                         "empty_document", "invalid_document"} :
                  Answer(e, "handle", Reply(status, code))
             /\ UNCHANGED starved
          \/ UNCHANGED << answer, starved >>
          \/ /\ DiskUsed + req[e].body.size > DiskRoom /\ pc[e] = "handle"
             /\ answer' = [answer EXCEPT ![e] = Reply(500, "store_document")]
             /\ UNCHANGED starved
      BY <2>13 DEF Handle, CopyPrintFile, Answer
    <3>2. /\ DiskUsed + req[e].body.size > DiskRoom /\ pc[e] = "handle"
          /\ answer' = [answer EXCEPT ![e] = Reply(500, "store_document")]
          /\ UNCHANGED starved
      BY <3>1, <2>4, <2>5, <2>7
    <3>3. c = e /\ DiskUsed = LeftFor(c)
      BY <3>2, <2>1, <2>11
    <3> QED
      BY <3>2, <3>3 DEF Wants
  <2> QED
    BY <2>3, <2>8, <2>9, <2>10, <2>12, <2>13 DEF Step
<1>2. Spec => [][Keeps]_vars
  BY <1>1, HttpInvariance, PTL DEF Spec
<1> QED
  BY <1>2 DEF SpaceIsGivenBack
=============================================================================
