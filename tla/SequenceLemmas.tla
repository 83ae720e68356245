--------------------------- MODULE SequenceLemmas ---------------------------
(***************************************************************************)
(* Facts about numbers and sequences that the proofs about paths and about *)
(* job identifiers share, and what the router makes of a path.  A sequence *)
(* is compared there piece by piece, with its beginning, its end and the   *)
(* first place where something is found, so these say what each comparison *)
(* means for the elements.                                                 *)
(***************************************************************************)
EXTENDS Router, Integers, SequenceTheorems, WellFoundedInduction, TLAPS

(* Every set of numbers that has an element has a least one.               *)
LEMMA LeastNumber ==
  ASSUME NEW T \in SUBSET Nat, T # {}
  PROVE  \E x \in T : \A y \in T : x <= y
<1> DEFINE Less == { ss \in Nat \X Nat : ss[1] < ss[2] }
<1>1. IsWellFoundedOn(Less, Nat)
  BY NatLessThanWellFounded DEF OpToRel
<1> HIDE DEF Less
<1>2. PICK x \in T : \A y \in T : ~ (<<y, x>> \in Less)
  BY <1>1, WFMin
<1>3. \A y \in T : <<y, x>> \in Less <=> y < x
  BY DEF Less
<1>4. \A y \in T : y \in Nat /\ ~ (y < x)
  BY <1>2, <1>3
<1> QED
  BY <1>4

(* What is chosen as the least number is one.                              *)
LEMMA LeastChosen ==
  ASSUME NEW T \in SUBSET Nat, T # {}
  PROVE  LET m == CHOOSE x \in T : \A y \in T : x <= y
         IN  m \in T /\ \A y \in T : m <= y
  BY LeastNumber

(* The elements of two sequences joined.                                   *)
IsJoined(j, s, t) ==
  /\ Len(j) = Len(s) + Len(t)
  /\ \A i \in 1 .. Len(s) : j[i] = s[i]
  /\ \A i \in 1 .. Len(t) : j[Len(s) + i] = t[i]

(* Two sequences joined.                                                   *)
LEMMA Joined ==
  ASSUME NEW S, NEW s \in Seq(S), NEW t \in Seq(S)
  PROVE  s \o t \in Seq(S) /\ IsJoined(s \o t, s, t)
  BY DEF IsJoined

(* Two sequences are equal when their elements are.                        *)
LEMMA EqualSeqs ==
  ASSUME NEW S, NEW s \in Seq(S), NEW t \in Seq(S)
  PROVE  s = t <=> Len(s) = Len(t) /\ \A i \in 1 .. Len(s) : s[i] = t[i]
  BY SeqEqual

(* The elements of a part of a sequence, k of them.                        *)
LEMMA Part ==
  ASSUME NEW S, NEW s \in Seq(S), NEW m \in Nat \ {0}, NEW n \in Nat, n <= Len(s),
         NEW k \in Nat, k + m = n + 1
  PROVE  /\ SubSeq(s, m, n) \in Seq(S)
         /\ Len(SubSeq(s, m, n)) = k
         /\ \A i \in 1 .. k : SubSeq(s, m, n)[i] = s[m + i - 1]
<1>1. Len(SubSeq(s, m, n)) = IF m <= n THEN n - m + 1 ELSE 0
  BY SubSeqProperties
<1>2. Len(SubSeq(s, m, n)) = k
  BY <1>1
<1> QED
  BY <1>2, SubSeqProperties

(* Nothing lies between an element and the next one.                       *)
LEMMA NoPart ==
  ASSUME NEW S, NEW s \in Seq(S), NEW m \in Nat, m <= Len(s)
  PROVE  SubSeq(s, m + 1, m) = << >>
<1>1. SubSeq(s, m + 1, m) \in Seq(S) /\ Len(SubSeq(s, m + 1, m)) = 0
  BY Part
<1> QED
  BY <1>1, EmptySeq

(* A sequence begins with another one.                                     *)
LEMMA Begins ==
  ASSUME NEW S, NEW s \in Seq(S), NEW t \in Seq(S)
  PROVE  IsPrefix(s, t) <=>
           Len(s) <= Len(t) /\ \A i \in 1 .. Len(s) : s[i] = t[i]
<1>1. CASE Len(s) <= Len(t)
  <2>1. /\ SubSeq(s, 1, Len(s)) \in Seq(S) /\ Len(SubSeq(s, 1, Len(s))) = Len(s)
        /\ \A i \in 1 .. Len(s) : SubSeq(s, 1, Len(s))[i] = s[i]
    OBVIOUS
  <2>2. /\ SubSeq(t, 1, Len(s)) \in Seq(S) /\ Len(SubSeq(t, 1, Len(s))) = Len(s)
        /\ \A i \in 1 .. Len(s) : SubSeq(t, 1, Len(s))[i] = t[i]
    BY <1>1
  <2>3. SubSeq(s, 1, Len(s)) = SubSeq(t, 1, Len(s)) <=>
          \A i \in 1 .. Len(s) : s[i] = t[i]
    BY <2>1, <2>2, EqualSeqs
  <2> QED
    BY <1>1, <2>3 DEF IsPrefix
<1>2. CASE ~ (Len(s) <= Len(t))
  BY <1>2 DEF IsPrefix
<1> QED
  BY <1>1, <1>2

(* A sequence is a beginning, a middle and an end.                         *)
IsFramed(b, a, s) == s = b \o SubSeq(s, Len(b) + 1, Len(s) - Len(a)) \o a

StartsAndEnds(b, a, s) ==
  /\ \A i \in 1 .. Len(b) : s[i] = b[i]
  /\ \A i \in 1 .. Len(a) : s[Len(s) - Len(a) + i] = a[i]

(* A sequence between a beginning and an end.                              *)
LEMMA Framed ==
  ASSUME NEW S, NEW b \in Seq(S), NEW a \in Seq(S), NEW s \in Seq(S),
         Len(b) + Len(a) <= Len(s)
  PROVE  IsFramed(b, a, s) <=> StartsAndEnds(b, a, s)
<1> DEFINE mid == SubSeq(s, Len(b) + 1, Len(s) - Len(a))
           all == b \o mid \o a
<1>1. Len(b) \in Nat /\ Len(a) \in Nat /\ Len(s) \in Nat
  OBVIOUS
<1>2. /\ mid \in Seq(S) /\ Len(mid) = Len(s) - Len(a) - Len(b)
      /\ \A i \in 1 .. Len(mid) : mid[i] = s[Len(b) + i]
  <2>1. /\ Len(s) - Len(a) - Len(b) \in Nat
        /\ Len(s) - Len(a) \in Nat /\ Len(s) - Len(a) <= Len(s)
        /\ Len(b) + 1 \in Nat \ {0}
        /\ (Len(s) - Len(a) - Len(b)) + (Len(b) + 1) = (Len(s) - Len(a)) + 1
    BY <1>1
  <2>2. \A i \in 1 .. Len(s) - Len(a) - Len(b) : mid[i] = s[Len(b) + 1 + i - 1]
    BY <2>1, Part
  <2>3. mid \in Seq(S) /\ Len(mid) = Len(s) - Len(a) - Len(b)
    BY <2>1, Part
  <2> QED
    BY <2>2, <2>3, <1>1
<1> HIDE DEF mid
<1>3. /\ all \in Seq(S) /\ Len(all) = Len(s)
      /\ \A i \in 1 .. Len(b) : all[i] = b[i]
      /\ \A i \in 1 .. Len(mid) : all[Len(b) + i] = s[Len(b) + i]
      /\ \A i \in 1 .. Len(a) : all[Len(s) - Len(a) + i] = a[i]
  BY <1>1, <1>2
<1> HIDE DEF all
<1>4. s = all <=> \A i \in 1 .. Len(s) : s[i] = all[i]
  BY <1>3, EqualSeqs
<1>5. \A i \in 1 .. Len(s) :
        \/ i \in 1 .. Len(b)
        \/ i - Len(b) \in 1 .. Len(mid)
        \/ i - (Len(s) - Len(a)) \in 1 .. Len(a)
  BY <1>1, <1>2
<1>6. ASSUME \A i \in 1 .. Len(b) : s[i] = b[i],
             \A i \in 1 .. Len(a) : s[Len(s) - Len(a) + i] = a[i],
             NEW i \in 1 .. Len(s)
      PROVE  s[i] = all[i]
  <2>1. CASE i \in 1 .. Len(b)
    BY <2>1, <1>3, <1>6
  <2>2. CASE i - Len(b) \in 1 .. Len(mid)
    <3>1. all[Len(b) + (i - Len(b))] = s[Len(b) + (i - Len(b))]
      BY <2>2, <1>3
    <3> QED
      BY <3>1, <1>1
  <2>3. CASE i - (Len(s) - Len(a)) \in 1 .. Len(a)
    <3> DEFINE k == i - (Len(s) - Len(a))
    <3>1. all[Len(s) - Len(a) + k] = s[Len(s) - Len(a) + k]
      BY <2>3, <1>3, <1>6
    <3> QED
      BY <3>1, <1>1
  <2> QED
    BY <2>1, <2>2, <2>3, <1>5
<1>7. ASSUME \A i \in 1 .. Len(s) : s[i] = all[i]
      PROVE  /\ \A i \in 1 .. Len(b) : s[i] = b[i]
             /\ \A i \in 1 .. Len(a) : s[Len(s) - Len(a) + i] = a[i]
  <2>1. \A i \in 1 .. Len(b) : i \in 1 .. Len(s)
    BY <1>1
  <2>2. \A i \in 1 .. Len(a) : Len(s) - Len(a) + i \in 1 .. Len(s)
    BY <1>1
  <2> QED
    BY <2>1, <2>2, <1>3, <1>7
<1> QED
  BY <1>4, <1>6, <1>7 DEF all, mid, IsFramed, StartsAndEnds

(* A sequence of elements of a set is one of a larger set.                *)
LEMMA WiderSeq ==
  ASSUME NEW A, NEW B, A \subseteq B
  PROVE  Seq(A) \subseteq Seq(B)
  OBVIOUS

-----------------------------------------------------------------------------
(* The router.                                                             *)
Ops == { t.op : t \in Documented }

(* Every path is routed to an operation or to none.                        *)
LEMMA RouteType ==
  ASSUME NEW path
  PROVE  /\ Route(path) = Leaf(Route(path).op, Route(path).arg)
         /\ Route(path).op \in Ops \cup {"none"}
<1>1. \A elem : RouteStatus(elem) \in
                  {NoCall, Leaf("getPrinterStatus", RouteStatus(elem).arg)}
  BY DEF RouteStatus, NoCall, Leaf
<1>2. \A elem : RoutePrint(elem) \in
                  {NoCall, Leaf("printDocument", << >>), Leaf("listPrinters", << >>),
                   RouteStatus(Rest(elem, 2))}
  BY DEF RoutePrint
<1> DEFINE elem == Tail(path)
<1>3. Route(path) \in {NoCall, Leaf("healthCheck", << >>), Leaf("listPresets", << >>),
                       Leaf("getPrintJob", Rest(elem, 2)), RoutePrint(Rest(elem, 2))}
  BY DEF Route
<1> QED
  BY <1>1, <1>2, <1>3 DEF NoCall, Leaf, Ops, Documented, Template

(* The rest of a sequence, and whether it begins with two given elements.  *)
LEMMA RestOf ==
  ASSUME NEW S, NEW s \in Seq(S), NEW n \in Nat
  PROVE  /\ Rest(s, n) \in Seq(S)
         /\ Len(Rest(s, n)) = IF n <= Len(s) THEN Len(s) - n ELSE 0
         /\ \A i \in 1 .. Len(Rest(s, n)) : Rest(s, n)[i] = s[n + i]
<1>1. Len(s) \in Nat
  OBVIOUS
<1>2. CASE n <= Len(s)
  <2>1. /\ Len(s) - n \in Nat /\ (Len(s) - n) + (n + 1) = Len(s) + 1
        /\ n + 1 \in Nat \ {0} /\ Len(s) <= Len(s)
    BY <1>1, <1>2
  <2>2. /\ Rest(s, n) \in Seq(S) /\ Len(Rest(s, n)) = Len(s) - n
        /\ \A i \in 1 .. Len(s) - n : Rest(s, n)[i] = s[n + 1 + i - 1]
    BY <2>1, <1>1, Part DEF Rest
  <2> QED
    BY <2>2, <1>1, <1>2
<1>3. CASE ~ (n <= Len(s))
  BY <1>1, <1>3 DEF Rest
<1> QED
  BY <1>2, <1>3

(* What it means to begin with two given elements.                         *)
LEMMA BeginsWithTwo ==
  ASSUME NEW S, NEW s \in Seq(S), NEW x \in S, NEW y \in S
  PROVE  IsPrefix(<<x, y>>, s) <=> Len(s) >= 2 /\ s[1] = x /\ s[2] = y
<1> DEFINE two == <<x, y>>
<1>1. two \in Seq(S) /\ Len(two) = 2 /\ two[1] = x /\ two[2] = y
  OBVIOUS
<1> HIDE DEF two
<1>2. IsPrefix(two, s) <=> 2 <= Len(s) /\ \A i \in 1 .. 2 : two[i] = s[i]
  BY <1>1, Begins
<1>3. IsPrefix(two, s) <=> Len(s) >= 2 /\ s[1] = x /\ s[2] = y
  BY <1>1, <1>2
<1> QED
  BY <1>3 DEF two

(* A sequence of one given element.                                        *)
LEMMA EqualsOne ==
  ASSUME NEW S, NEW s \in Seq(S), NEW x \in S
  PROVE  s = <<x>> <=> Len(s) = 1 /\ s[1] = x
  OBVIOUS

(* A sequence of two given elements.                                       *)
LEMMA EqualsTwo ==
  ASSUME NEW S, NEW s \in Seq(S), NEW x \in S, NEW y \in S
  PROVE  s = <<x, y>> <=> Len(s) = 2 /\ s[1] = x /\ s[2] = y
  OBVIOUS

(* Where a slash is.                                                       *)
LEMMA SlashIn ==
  ASSUME NEW S, NEW s \in Seq(S)
  PROVE  HasSlash(s) <=> \E i \in 1 .. Len(s) : s[i] = "/"
  BY DEF HasSlash, ToSet

(* What follows "/printers/" is a parameter without slashes and "/status". *)
EndsInStatus(e) ==
  /\ Len(e) >= 2 /\ e[Len(e) - 1] = "/" /\ e[Len(e)] = "status"
  /\ \A i \in 1 .. Len(e) - 2 : e[i] # "/"

(* The branch of the tree under /printers/.                                *)
LEMMA StatusRoute ==
  ASSUME NEW S, "/" \in S, "status" \in S, NEW e \in Seq(S)
  PROVE  RouteStatus(e) = IF EndsInStatus(e)
                            THEN Leaf("getPrinterStatus", SubSeq(e, 1, Len(e) - 2))
                            ELSE NoCall
<1> DEFINE slashes == { i \in DOMAIN e : e[i] = "/" }
           idx == IF slashes = {} THEN Len(e) ELSE Min(slashes) - 1
<1>1. Len(e) \in Nat /\ slashes \in SUBSET Nat
  OBVIOUS
<1>2. slashes # {} => Min(slashes) \in slashes /\ \A i \in slashes : Min(slashes) <= i
  BY <1>1, LeastNumber DEF Min
<1>3. /\ idx \in 0 .. Len(e)
      /\ \A i \in 1 .. idx : e[i] # "/"
      /\ idx < Len(e) => e[idx + 1] = "/"
  <2>1. CASE slashes = {}
    BY <2>1, <1>1
  <2>2. CASE slashes # {}
    <3> DEFINE m == Min(slashes)
    <3>1. m \in 1 .. Len(e) /\ e[m] = "/" /\ \A i \in slashes : m <= i
      BY <2>2, <1>2
    <3>2. idx = m - 1
      BY <2>2
    <3> HIDE DEF m, idx
    <3> QED
      BY <3>1, <3>2, <1>1
  <2> QED
    BY <2>1, <2>2
<1> HIDE DEF idx
<1>4. Rest(e, idx) = <<"/", "status">> <=>
        Len(e) = idx + 2 /\ e[idx + 1] = "/" /\ e[idx + 2] = "status"
  <2>1. /\ Rest(e, idx) \in Seq(S) /\ Len(Rest(e, idx)) = Len(e) - idx
        /\ \A i \in 1 .. Len(Rest(e, idx)) : Rest(e, idx)[i] = e[idx + i]
    BY <1>1, <1>3, RestOf
  <2>2. Rest(e, idx) = <<"/", "status">> <=>
          /\ Len(Rest(e, idx)) = 2
          /\ Rest(e, idx)[1] = "/" /\ Rest(e, idx)[2] = "status"
    BY <2>1, EqualsTwo
  <2>3. 2 = Len(Rest(e, idx)) =>
          Rest(e, idx)[1] = e[idx + 1] /\ Rest(e, idx)[2] = e[idx + 2]
    BY <2>1
  <2> QED
    BY <2>1, <2>2, <2>3, <1>1, <1>3
<1>5. Rest(e, idx) = <<"/", "status">> <=> EndsInStatus(e)
  <2>1. EndsInStatus(e) => idx = Len(e) - 2
    BY <1>1, <1>3 DEF EndsInStatus
  <2> QED
    BY <2>1, <1>1, <1>3, <1>4 DEF EndsInStatus
<1>6. EndsInStatus(e) => idx = Len(e) - 2
  BY <1>1, <1>3 DEF EndsInStatus
<1>7. RouteStatus(e) = IF Rest(e, idx) = <<"/", "status">>
                         THEN Leaf("getPrinterStatus", SubSeq(e, 1, idx)) ELSE NoCall
  BY DEF RouteStatus, idx
<1> QED
  BY <1>5, <1>6, <1>7

(* The paths of each operation, element by element; a path begins with a   *)
(* slash.                                                                  *)
IsPathOf(op, p) ==
  CASE op = "healthCheck"      -> Len(p) = 2 /\ p[2] = "healthz"
    [] op = "listPresets"      -> Len(p) = 3 /\ p[2] = "pr" /\ p[3] = "esets"
    [] op = "printDocument"    -> Len(p) = 3 /\ p[2] = "pr" /\ p[3] = "int"
    [] op = "listPrinters"     -> /\ Len(p) = 4 /\ p[2] = "pr" /\ p[3] = "int"
                                  /\ p[4] = "ers"
    [] op = "getPrintJob"      -> /\ Len(p) >= 3 /\ p[2] = "jobs" /\ p[3] = "/"
                                  /\ \A i \in 4 .. Len(p) : p[i] # "/"
    [] op = "getPrinterStatus" -> /\ Len(p) >= 7 /\ p[2] = "pr" /\ p[3] = "int"
                                  /\ p[4] = "ers" /\ p[5] = "/"
                                  /\ p[Len(p) - 1] = "/" /\ p[Len(p)] = "status"
                                  /\ \A i \in 6 .. Len(p) - 2 : p[i] # "/"

ArgIn(op, p) ==
  CASE op = "getPrintJob"      -> SubSeq(p, 4, Len(p))
    [] op = "getPrinterStatus" -> SubSeq(p, 6, Len(p) - 2)
    [] OTHER                   -> << >>

Tokens == {"/", "healthz", "jobs", "pr", "int", "ers", "esets", "status"}

(* The operations.                                                         *)
LEMMA OpsListed ==
  Ops = {"healthCheck", "listPrinters", "listPresets", "printDocument",
         "getPrintJob", "getPrinterStatus"}
  BY DEF Ops, Documented, Template

(* The tree leads a path to the operation whose form it has, with its      *)
(* parameter, and no other path anywhere.                                  *)
LEMMA RoutedPath ==
  ASSUME NEW S, Tokens \subseteq S, NEW p \in Seq(S), p # << >>
  PROVE  /\ \A op \in Ops : IsPathOf(op, p) => Route(p) = Leaf(op, ArgIn(op, p))
         /\ (\A op \in Ops : ~ IsPathOf(op, p)) => Route(p) = NoCall
<1> DEFINE e == Tail(p)
           r == Rest(e, 2)
           f == Rest(r, 2)
<1>0. /\ "/" \in S /\ "healthz" \in S /\ "jobs" \in S /\ "pr" \in S
      /\ "int" \in S /\ "ers" \in S /\ "esets" \in S
      /\ "status" \in S
  BY DEF Tokens
<1>1. Len(p) \in Nat \ {0}
  BY EmptySeq
<1>2. e \in Seq(S) /\ Len(e) = Len(p) - 1 /\ \A i \in 1 .. Len(e) : e[i] = p[i + 1]
  BY <1>1
<1> HIDE DEF e
<1>3. /\ r \in Seq(S) /\ Len(r) = IF 2 <= Len(e) THEN Len(e) - 2 ELSE 0
      /\ \A i \in 1 .. Len(r) : r[i] = e[2 + i]
  BY <1>2, RestOf
<1> HIDE DEF r
<1>4. /\ f \in Seq(S) /\ Len(f) = IF 2 <= Len(r) THEN Len(r) - 2 ELSE 0
      /\ \A i \in 1 .. Len(f) : f[i] = r[2 + i]
  BY <1>3, RestOf
<1> HIDE DEF f
<1>5. e = <<"healthz">> <=> IsPathOf("healthCheck", p)
  <2>1. e = <<"healthz">> <=> Len(e) = 1 /\ e[1] = "healthz"
    BY <1>0, <1>2, EqualsOne, ZenonT(60)
  <2> QED
    BY <2>1, <1>1, <1>2 DEF IsPathOf
<1>6. e = <<"pr", "esets">> <=> IsPathOf("listPresets", p)
  <2> DEFINE x == "pr"
             y == "esets"
  <2>0. x \in S /\ y \in S /\ e \in Seq(S)
    BY <1>0, <1>2
  <2> HIDE DEF x, y
  <2>1. e = <<x, y>> <=> Len(e) = 2 /\ e[1] = x /\ e[2] = y
    BY <2>0
  <2> QED
    BY <2>1, <1>1, <1>2 DEF IsPathOf, x, y
<1>7. IsPrefix(<<"jobs", "/">>, e) /\ ~ HasSlash(r) <=> IsPathOf("getPrintJob", p)
  <2>1. IsPrefix(<<"jobs", "/">>, e) <=> Len(p) >= 3 /\ p[2] = "jobs" /\ p[3] = "/"
    <3>1. IsPrefix(<<"jobs", "/">>, e) <=> Len(e) >= 2 /\ e[1] = "jobs" /\ e[2] = "/"
      BY <1>0, <1>2, BeginsWithTwo
    <3> QED
      BY <3>1, <1>1, <1>2
  <2>2. ASSUME Len(p) >= 3
        PROVE  HasSlash(r) <=> \E i \in 4 .. Len(p) : p[i] = "/"
    <3>1. HasSlash(r) <=> \E i \in 1 .. Len(r) : r[i] = "/"
      BY <1>3, SlashIn
    <3>2. Len(r) = Len(p) - 3 /\ \A i \in 1 .. Len(r) : r[i] = p[i + 3]
      BY <2>2, <1>1, <1>2, <1>3
    <3>3. \A i \in 4 .. Len(p) : i - 3 \in 1 .. Len(r) /\ r[i - 3] = p[i]
      BY <3>2, <1>1
    <3>4. \A i \in 1 .. Len(r) : i + 3 \in 4 .. Len(p)
      BY <3>2, <1>1
    <3> QED
      BY <3>1, <3>2, <3>3, <3>4
  <2>3. IsPathOf("getPrintJob", p) <=>
          /\ Len(p) >= 3 /\ p[2] = "jobs" /\ p[3] = "/"
          /\ \A i \in 4 .. Len(p) : p[i] # "/"
    BY DEF IsPathOf
  <2> QED
    BY <2>1, <2>2, <2>3
<1>8. IsPrefix(<<"pr", "int">>, e) <=> Len(p) >= 3 /\ p[2] = "pr" /\ p[3] = "int"
  <2>1. IsPrefix(<<"pr", "int">>, e) <=> Len(e) >= 2 /\ e[1] = "pr" /\ e[2] = "int"
    BY <1>0, <1>2, BeginsWithTwo
  <2> QED
    BY <2>1, <1>1, <1>2
<1>9. ASSUME Len(p) >= 3
      PROVE  /\ Len(r) = Len(p) - 3 /\ \A i \in 1 .. Len(r) : r[i] = p[i + 3]
             /\ r = SubSeq(p, 4, Len(p))
  <2>1. Len(r) = Len(p) - 3 /\ \A i \in 1 .. Len(r) : r[i] = p[i + 3]
    BY <1>9, <1>1, <1>2, <1>3
  <2> DEFINE q == SubSeq(p, 4, Len(p))
             k == Len(p) - 3
  <2>2. k \in Nat /\ k + 4 = Len(p) + 1 /\ Len(p) \in Nat
    BY <1>9, <1>1
  <2> HIDE DEF k
  <2>3. q \in Seq(S) /\ Len(q) = k /\ \A i \in 1 .. k : q[i] = p[4 + i - 1]
    BY <2>2, Part
  <2> HIDE DEF q
  <2>6. Len(r) = k
    BY <2>1 DEF k
  <2>4. \A i \in 1 .. Len(r) : r[i] = q[i]
    BY <2>1, <2>2, <2>3, <2>6
  <2>5. r = q
    BY <2>6, <2>3, <2>4, <1>3, EqualSeqs
  <2> QED
    BY <2>1, <2>5 DEF q
<1>10. ASSUME Len(p) >= 3
       PROVE  /\ r = << >> <=> Len(p) = 3
              /\ r = <<"ers">> <=> Len(p) = 4 /\ p[4] = "ers"
              /\ IsPrefix(<<"ers", "/">>, r) <=> Len(p) >= 5 /\ p[4] = "ers" /\ p[5] = "/"
  <2>0. r \in Seq(S) /\ Len(r) = Len(p) - 3
    BY <1>3, <1>9, <1>10
  <2>9. r = << >> <=> Len(r) = 0
    BY <2>0, EmptySeq
  <2>1. r = << >> <=> Len(p) = 3
    BY <2>0, <2>9, <1>1
  <2>2. r = <<"ers">> <=> Len(r) = 1 /\ r[1] = "ers"
    BY <1>0, <1>3, EqualsOne, ZenonT(60)
  <2>3. IsPrefix(<<"ers", "/">>, r) <=> Len(r) >= 2 /\ r[1] = "ers" /\ r[2] = "/"
    BY <1>0, <1>3, BeginsWithTwo
  <2>4. Len(r) >= 1 => r[1] = p[4]
    BY <1>1, <1>9, <1>10
  <2>5. Len(r) >= 2 => r[2] = p[5]
    BY <1>1, <1>9, <1>10
  <2>6. Len(r) = Len(p) - 3
    BY <1>9, <1>10
  <2>7. r = <<"ers">> <=> Len(p) = 4 /\ p[4] = "ers"
    BY <2>2, <2>4, <2>6, <1>1
  <2>8. IsPrefix(<<"ers", "/">>, r) <=> Len(p) >= 5 /\ p[4] = "ers" /\ p[5] = "/"
    BY <2>3, <2>4, <2>5, <2>6, <1>1
  <2> QED
    BY <2>1, <2>7, <2>8
<1>11. ASSUME Len(p) >= 5
       PROVE  /\ EndsInStatus(f) <=>
                   /\ Len(p) >= 7 /\ p[Len(p) - 1] = "/" /\ p[Len(p)] = "status"
                   /\ \A i \in 6 .. Len(p) - 2 : p[i] # "/"
              /\ Len(p) >= 7 => SubSeq(f, 1, Len(f) - 2) = SubSeq(p, 6, Len(p) - 2)
  <2>1. Len(f) = Len(p) - 5 /\ \A i \in 1 .. Len(f) : f[i] = p[i + 5]
    BY <1>11, <1>1, <1>4, <1>9
  <2>2. \A i \in 6 .. Len(p) - 2 : i - 5 \in 1 .. Len(f) - 2 /\ f[i - 5] = p[i]
    BY <2>1, <1>1
  <2>3. \A i \in 1 .. Len(f) - 2 : i + 5 \in 6 .. Len(p) - 2 /\ f[i] = p[i + 5]
    BY <2>1, <1>1
  <2>4. Len(f) >= 2 => f[Len(f) - 1] = p[Len(p) - 1] /\ f[Len(f)] = p[Len(p)]
    BY <2>1, <1>1
  <2>5. (\A i \in 1 .. Len(f) - 2 : f[i] # "/") <=> \A i \in 6 .. Len(p) - 2 : p[i] # "/"
    BY <2>2, <2>3
  <2>6. ASSUME Len(p) >= 7
        PROVE  SubSeq(f, 1, Len(f) - 2) = SubSeq(p, 6, Len(p) - 2)
    <3> DEFINE g == SubSeq(f, 1, Len(f) - 2)
               q == SubSeq(p, 6, Len(p) - 2)
               k == Len(p) - 7
    <3>1. /\ k \in Nat /\ k + 6 = (Len(p) - 2) + 1 /\ k + 1 = (Len(f) - 2) + 1
          /\ Len(p) - 2 \in Nat /\ Len(p) - 2 <= Len(p)
          /\ Len(f) - 2 \in Nat /\ Len(f) - 2 <= Len(f)
      BY <2>6, <2>1, <1>1
    <3> HIDE DEF k
    <3>2. g \in Seq(S) /\ Len(g) = k /\ \A i \in 1 .. k : g[i] = f[1 + i - 1]
      BY <3>1, <1>4, Part
    <3>3. q \in Seq(S) /\ Len(q) = k /\ \A i \in 1 .. k : q[i] = p[6 + i - 1]
      BY <3>1, Part
    <3>4. \A i \in 1 .. k : f[1 + i - 1] = p[6 + i - 1]
      <4> USE DEF k
      <4> QED
        BY <3>1, <2>1, <1>1
    <3> HIDE DEF g, q
    <3>5. g = q
      BY <3>2, <3>3, <3>4, EqualSeqs
    <3> QED
      BY <3>5 DEF g, q
  <2> QED
    BY <2>1, <2>4, <2>5, <2>6, <1>1 DEF EndsInStatus
<1>12. RouteStatus(f) = IF EndsInStatus(f)
                          THEN Leaf("getPrinterStatus", SubSeq(f, 1, Len(f) - 2))
                          ELSE NoCall
  BY <1>0, <1>4, StatusRoute
<1> DEFINE A == e = <<"healthz">>
           B == IsPrefix(<<"jobs", "/">>, e) /\ ~ HasSlash(r)
           C == e = <<"pr", "esets">>
           D == IsPrefix(<<"pr", "int">>, e)
<1>13. Route(p) = CASE A -> Leaf("healthCheck", << >>)
                    [] B -> Leaf("getPrintJob", r)
                    [] C -> Leaf("listPresets", << >>)
                    [] D -> RoutePrint(r)
                    [] OTHER -> NoCall
  BY DEF Route, e, r
<1>14. /\ A <=> IsPathOf("healthCheck", p)
       /\ B <=> IsPathOf("getPrintJob", p)
       /\ C <=> IsPathOf("listPresets", p)
       /\ D <=> Len(p) >= 3 /\ p[2] = "pr" /\ p[3] = "int"
  BY <1>5, <1>6, <1>7, <1>8
<1> HIDE DEF A, B, C, D
<1>15. /\ A => ~ B /\ ~ C /\ ~ D
       /\ B => ~ C /\ ~ D
       /\ C => ~ D
  BY <1>14 DEF IsPathOf
<1>16. /\ A => Route(p) = Leaf("healthCheck", << >>)
       /\ B => Route(p) = Leaf("getPrintJob", r)
       /\ C => Route(p) = Leaf("listPresets", << >>)
       /\ D => Route(p) = RoutePrint(r)
       /\ ~ A /\ ~ B /\ ~ C /\ ~ D => Route(p) = NoCall
  BY <1>13, <1>15
<1>17. D => RoutePrint(r) = IF Len(p) = 3 THEN Leaf("printDocument", << >>)
                            ELSE IF Len(p) = 4 /\ p[4] = "ers"
                              THEN Leaf("listPrinters", << >>)
                            ELSE IF Len(p) >= 5 /\ p[4] = "ers" /\ p[5] = "/"
                              THEN RouteStatus(f)
                            ELSE NoCall
  <2> SUFFICES ASSUME D
               PROVE  RoutePrint(r) = IF Len(p) = 3 THEN Leaf("printDocument", << >>)
                            ELSE IF Len(p) = 4 /\ p[4] = "ers"
                              THEN Leaf("listPrinters", << >>)
                            ELSE IF Len(p) >= 5 /\ p[4] = "ers" /\ p[5] = "/"
                              THEN RouteStatus(f)
                            ELSE NoCall
    OBVIOUS
  <2>1. Len(p) >= 3
    BY <1>14
  <2> DEFINE X == r = << >>
             Y == r = <<"ers">>
             Z == IsPrefix(<<"ers", "/">>, r)
  <2>2. RoutePrint(r) = CASE X -> Leaf("printDocument", << >>)
                          [] Y -> Leaf("listPrinters", << >>)
                          [] Z -> RouteStatus(f)
                          [] OTHER -> NoCall
    BY DEF RoutePrint, f
  <2>3. /\ X <=> Len(p) = 3
        /\ Y <=> Len(p) = 4 /\ p[4] = "ers"
        /\ Z <=> Len(p) >= 5 /\ p[4] = "ers" /\ p[5] = "/"
    BY <2>1, <1>10
  <2> HIDE DEF X, Y, Z
  <2>4. (X => ~ Y /\ ~ Z) /\ (Y => ~ Z)
    BY <2>3
  <2> QED
    BY <2>2, <2>3, <2>4
<1>18. RouteStatus(f) = IF EndsInStatus(f)
                          THEN Leaf("getPrinterStatus", SubSeq(f, 1, Len(f) - 2))
                          ELSE NoCall
  BY <1>12
<1>19. /\ IsPathOf("healthCheck", p) => Route(p) = Leaf("healthCheck", << >>)
       /\ IsPathOf("getPrintJob", p) => Route(p) = Leaf("getPrintJob", SubSeq(p, 4, Len(p)))
       /\ IsPathOf("listPresets", p) => Route(p) = Leaf("listPresets", << >>)
  <2>1. IsPathOf("getPrintJob", p) => r = SubSeq(p, 4, Len(p))
    BY <1>9 DEF IsPathOf
  <2> QED
    BY <2>1, <1>14, <1>16
<1>20. /\ IsPathOf("printDocument", p) => Route(p) = Leaf("printDocument", << >>)
       /\ IsPathOf("listPrinters", p) => Route(p) = Leaf("listPrinters", << >>)
  BY <1>14, <1>16, <1>17 DEF IsPathOf
<1>21. IsPathOf("getPrinterStatus", p) <=>
         /\ D /\ Len(p) >= 5 /\ p[4] = "ers" /\ p[5] = "/"
         /\ EndsInStatus(f)
  BY <1>1, <1>11, <1>14 DEF IsPathOf
<1>22. IsPathOf("getPrinterStatus", p) =>
         Route(p) = Leaf("getPrinterStatus", SubSeq(p, 6, Len(p) - 2))
  <2>1. IsPathOf("getPrinterStatus", p) => SubSeq(f, 1, Len(f) - 2) = SubSeq(p, 6, Len(p) - 2)
    BY <1>1, <1>11 DEF IsPathOf
  <2>2. IsPathOf("getPrinterStatus", p) => RoutePrint(r) = RouteStatus(f)
    BY <1>17, <1>21
  <2> QED
    BY <2>1, <2>2, <1>16, <1>18, <1>21
<1>23. ASSUME \A op \in Ops : ~ IsPathOf(op, p)
       PROVE  Route(p) = NoCall
  <2>1. /\ ~ A /\ ~ B /\ ~ C
        /\ ~ IsPathOf("printDocument", p) /\ ~ IsPathOf("listPrinters", p)
        /\ ~ IsPathOf("getPrinterStatus", p)
    BY <1>14, <1>23, OpsListed
  <2>2. D => ~ (Len(p) = 3) /\ ~ (Len(p) = 4 /\ p[4] = "ers")
    BY <2>1, <1>14 DEF IsPathOf
  <2>3. CASE ~ D
    BY <2>1, <2>3, <1>16
  <2>4. CASE D
    BY <2>1, <2>2, <2>4, <1>16, <1>17, <1>18, <1>21
  <2> QED
    BY <2>3, <2>4
<1> QED
  BY <1>19, <1>20, <1>22, <1>23, OpsListed DEF ArgIn
=============================================================================
