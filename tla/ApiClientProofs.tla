-------------------------- MODULE ApiClientProofs --------------------------
(***************************************************************************)
(* The generated client and the service understand each other, for every   *)
(* configuration, identifier and form.                                     *)
(*                                                                         *)
(* Every value that fits its schema is read back from what was written for *)
(* it, and of everything that may become of it on its way what does harm   *)
(* is not believed.  The schemas nest three deep.  The provers do not      *)
(* instantiate an operator that is a parameter, so the lemmas about fields *)
(* and structs are there once for each level, with the same proof, each    *)
(* from the level below.                                                   *)
(***************************************************************************)
EXTENDS ApiClient, SequenceLemmas

-----------------------------------------------------------------------------
(* Structs: the set fields, one after the other.                           *)
FieldNames(type) == { type.of[k].name : k \in DOMAIN type.of }

(* The fields of a schema have different names, and none is that of a      *)
(* newer service's member.                                                 *)
HasFields(type) ==
  /\ type.kind = "object"
  /\ Len(type.of) \in Nat /\ DOMAIN type.of = 1 .. Len(type.of)
  /\ \A k, l \in DOMAIN type.of : type.of[k].name = type.of[l].name => k = l
  /\ "newer" \notin FieldNames(type)

(* The look-up of a type by the name of a field finds that of the field.   *)
LEMMA TypeOfField ==
  ASSUME NEW type, HasFields(type), NEW k \in DOMAIN type.of
  PROVE  TypeOf(type, type.of[k].name) = type.of[k].type
  BY DEF TypeOf, HasFields

(* The first n fields that are set, as a sequence.                         *)
Picked(type, value, n, s) ==
  /\ s \in Seq({ type.of[k] : k \in 1 .. n })
  /\ \A i \in 1 .. Len(s) : s[i].name \in DOMAIN value
  /\ \A k \in 1 .. n : type.of[k].name \in DOMAIN value =>
       \E i \in 1 .. Len(s) : s[i] = type.of[k]
  /\ \A i, j \in 1 .. Len(s) : s[i].name = s[j].name => i = j

(* Of no fields none is picked.                                            *)
LEMMA PickedNone ==
  ASSUME NEW type, NEW value
  PROVE  Picked(type, value, 0, << >>)
  BY DEF Picked

(* The next field is picked if it is set.                                  *)
LEMMA PickedNext ==
  ASSUME NEW type, HasFields(type), NEW value, NEW n \in DOMAIN type.of, NEW s,
         Picked(type, value, n - 1, s)
  PROVE  Picked(type, value, n,
                IF type.of[n].name \in DOMAIN value THEN Append(s, type.of[n]) ELSE s)
<1> DEFINE old == { type.of[k] : k \in 1 .. n - 1 }
           new == { type.of[k] : k \in 1 .. n }
           field == type.of[n]
           longer == Append(s, field)
<1>1. n \in Nat \ {0} /\ n - 1 \in Nat
  BY DEF HasFields
<1>2. 1 .. n - 1 \subseteq 1 .. n /\ n \in 1 .. n /\ \A k \in 1 .. n : k \in 1 .. n - 1 \/ k = n
  BY <1>1
<1>3. s \in Seq(old) /\ old \subseteq new /\ field \in new
  BY <1>2 DEF Picked
<1>4. s \in Seq(new) /\ Len(s) \in Nat
  BY <1>3
<1>5. \A i \in 1 .. Len(s) : \E k \in 1 .. n - 1 : s[i] = type.of[k]
  BY <1>3
<1>6. \A i \in 1 .. Len(s) : s[i].name # field.name
  <2> SUFFICES ASSUME NEW i \in 1 .. Len(s), s[i].name = field.name PROVE FALSE
    OBVIOUS
  <2>1. PICK k \in 1 .. n - 1 : s[i] = type.of[k]
    BY <1>5
  <2>2. k \in DOMAIN type.of /\ k # n
    BY <1>1 DEF HasFields
  <2> QED
    BY <2>1, <2>2 DEF HasFields
<1>7. CASE field.name \in DOMAIN value
  <2>1. /\ longer \in Seq(new) /\ Len(longer) = Len(s) + 1
        /\ \A i \in 1 .. Len(s) : longer[i] = s[i]
        /\ longer[Len(s) + 1] = field
    BY <1>3, <1>4
  <2> HIDE DEF longer, field
  <2>2. \A i \in 1 .. Len(longer) : i \in 1 .. Len(s) \/ i = Len(s) + 1
    BY <1>4, <2>1
  <2>3. \A i \in 1 .. Len(longer) : longer[i].name \in DOMAIN value
    BY <1>7, <2>1, <2>2 DEF Picked
  <2>4. ASSUME NEW k \in 1 .. n, type.of[k].name \in DOMAIN value
        PROVE  \E i \in 1 .. Len(longer) : longer[i] = type.of[k]
    <3>1. CASE k = n
      <4>1. Len(s) + 1 \in 1 .. Len(longer)
        BY <1>4, <2>1
      <4> QED
        BY <3>1, <4>1, <2>1 DEF field
    <3>2. CASE k \in 1 .. n - 1
      <4>1. PICK i \in 1 .. Len(s) : s[i] = type.of[k]
        BY <3>2, <2>4 DEF Picked
      <4>2. i \in 1 .. Len(longer)
        BY <1>4, <2>1
      <4> QED
        BY <4>1, <4>2, <2>1
    <3> QED
      BY <3>1, <3>2, <1>2
  <2>5. ASSUME NEW i \in 1 .. Len(longer), NEW j \in 1 .. Len(longer),
               longer[i].name = longer[j].name
        PROVE  i = j
    BY <2>1, <2>2, <2>5, <1>6 DEF Picked
  <2> QED
    BY <1>7, <2>1, <2>3, <2>4, <2>5 DEF Picked, longer, field
<1>8. CASE field.name \notin DOMAIN value
  BY <1>2, <1>4, <1>8 DEF Picked
<1> QED
  BY <1>7, <1>8

(* The loop that picks them.                                               *)
PickedAfter(type, value, n, set) ==
  IF n = 0 THEN << >>
  ELSE IF type.of[n].name \in DOMAIN value THEN Append(set[n - 1], type.of[n])
  ELSE set[n - 1]

Picks(type, value, m, set) ==
  set = [n \in 0 .. m |-> PickedAfter(type, value, n, set)]

(* SetFields is a function defined from each number to the next; there is  *)
(* one.                                                                    *)
LEMMA PicksExist ==
  ASSUME NEW type, NEW value, NEW N \in Nat
  PROVE  \E set : Picks(type, value, N, set)
<1> DEFINE None(m) == ~ \E set : Picks(type, value, m, set)
           T == { m \in 0 .. N : None(m) }
<1>1. SUFFICES ASSUME T # {} PROVE FALSE
  OBVIOUS
<1>2. PICK m \in T : \A l \in T : m <= l
  <2>1. T \in SUBSET Nat
    OBVIOUS
  <2> HIDE DEF T
  <2> QED
    BY <1>1, <2>1, LeastNumber
<1>3. CASE m = 0
  <2> DEFINE none == [n \in 0 .. 0 |-> << >>]
  <2>1. \A n \in 0 .. 0 : PickedAfter(type, value, n, none) = << >>
    BY DEF PickedAfter
  <2>2. Picks(type, value, 0, none)
    BY <2>1 DEF Picks
  <2> QED
    BY <1>3, <2>2
<1>4. CASE m # 0
  <2>1. m \in Nat /\ m - 1 \in 0 .. N /\ m - 1 < m
    BY <1>4
  <2>2. m - 1 \notin T
    BY <1>2, <2>1
  <2>3. PICK g : Picks(type, value, m - 1, g)
    BY <2>1, <2>2
  <2> DEFINE h == [n \in 0 .. m |-> IF n < m THEN g[n] ELSE PickedAfter(type, value, m, g)]
  <2>4. \A n \in 0 .. m - 1 : g[n] = PickedAfter(type, value, n, g)
    BY <2>3 DEF Picks
  <2>5. ASSUME NEW n \in 0 .. m PROVE h[n] = PickedAfter(type, value, n, h)
    <3>1. n # 0 => h[n - 1] = g[n - 1]
      BY <2>1
    <3>2. h[n] = PickedAfter(type, value, n, g)
      BY <2>1, <2>4
    <3> HIDE DEF h
    <3> QED
      BY <3>1, <3>2 DEF PickedAfter
  <2>6. Picks(type, value, m, h)
    BY <2>5 DEF Picks
  <2> QED
    BY <2>6
<1> QED
  BY <1>3, <1>4

(* SetFields lists each set field of the struct once: a struct where it    *)
(* did not would have a least number of fields at which it goes wrong.     *)
LEMMA SetFieldsArePicked ==
  ASSUME NEW type, HasFields(type), NEW value
  PROVE  Picked(type, value, Len(type.of), SetFields(type, value))
<1> DEFINE N == Len(type.of)
           set == CHOOSE f : Picks(type, value, N, f)
           Wrong(n) == ~ Picked(type, value, n, set[n])
           T == { n \in 0 .. N : Wrong(n) }
<1>1. N \in Nat /\ DOMAIN type.of = 1 .. N
  BY DEF HasFields
<1>2. SetFields(type, value) = set[N]
  BY Zenon DEF SetFields, Picks, PickedAfter
<1>3. Picks(type, value, N, set)
  BY <1>1, PicksExist
<1> HIDE DEF set, N
<1>4. \A n \in 0 .. N : set[n] = PickedAfter(type, value, n, set)
  BY <1>3 DEF Picks
<1>5. SUFFICES ASSUME T # {} PROVE FALSE
  BY <1>1, <1>2 DEF N
<1>6. PICK n \in T : \A l \in T : n <= l
  <2>1. T \in SUBSET Nat
    BY <1>1
  <2> HIDE DEF T
  <2> QED
    BY <1>5, <2>1, LeastNumber
<1>7. n \in 0 .. N /\ Wrong(n)
  BY <1>6
<1>8. CASE n = 0
  BY <1>4, <1>7, <1>8, PickedNone DEF PickedAfter
<1>9. CASE n # 0
  <2>1. n \in DOMAIN type.of /\ n - 1 \in 0 .. N /\ ~ (n <= n - 1)
    BY <1>1, <1>7, <1>9
  <2>2. ~ Wrong(n - 1)
    BY <1>6, <2>1
  <2>3. set[n] = IF type.of[n].name \in DOMAIN value
                   THEN Append(set[n - 1], type.of[n]) ELSE set[n - 1]
    BY <1>4, <1>7, <1>9 DEF PickedAfter
  <2>4. Picked(type, value, n, set[n])
    BY <2>1, <2>2, <2>3, PickedNext
  <2> QED
    BY <1>7, <2>4
<1> QED
  BY <1>8, <1>9

-----------------------------------------------------------------------------
(* Objects.  The members m of an object list a function f from names to    *)
(* JSON: each name of its domain once, in any order.                       *)
Lists(m, f) ==
  /\ m \in Seq({ <<n, f[n]>> : n \in DOMAIN f })
  /\ \A n \in DOMAIN f : \E i \in 1 .. Len(m) : m[i][1] = n
  /\ \A i, j \in 1 .. Len(m) : m[i][1] = m[j][1] => i = j

(* What it means for a sequence of members to list a function.             *)
LEMMA ListedMembers ==
  ASSUME NEW m, NEW f, Lists(m, f)
  PROVE  /\ Len(m) \in Nat /\ DOMAIN m = 1 .. Len(m)
         /\ \A i \in DOMAIN m : /\ m[i][1] \in DOMAIN f /\ m[i][2] = f[m[i][1]]
                                /\ m[i] = <<m[i][1], f[m[i][1]]>>
         /\ \A n \in DOMAIN f : \E i \in DOMAIN m : m[i][1] = n
         /\ \A i, j \in DOMAIN m : m[i][1] = m[j][1] => i = j
<1> DEFINE P == { <<n, f[n]>> : n \in DOMAIN f }
<1>1. \A p \in P : p[1] \in DOMAIN f /\ p[2] = f[p[1]] /\ p = <<p[1], f[p[1]]>>
  OBVIOUS
<1>2. m \in Seq(P)
  BY DEF Lists
<1> HIDE DEF P
<1>3. Len(m) \in Nat /\ DOMAIN m = 1 .. Len(m) /\ \A i \in DOMAIN m : m[i] \in P
  BY <1>2
<1> QED
  BY <1>1, <1>3 DEF Lists

(* What the decoders read from such an object.                             *)
LEMMA ListedObject ==
  ASSUME NEW m, NEW f, Lists(m, f)
  PROVE  /\ Members(<<"object", m>>) = m
         /\ Names(<<"object", m>>) = DOMAIN f
         /\ \A n \in DOMAIN f : LastOf(<<"object", m>>, n) = f[n]
<1> DEFINE json == <<"object", m>>
<1>1. Members(json) = m /\ json[1] = "object"
  BY DEF Members
<1> HIDE DEF json
<1>2. Names(json) = DOMAIN f
  <2>1. Names(json) = { m[i][1] : i \in DOMAIN m }
    BY <1>1 DEF Names
  <2>2. \A n \in DOMAIN f : n \in { m[i][1] : i \in DOMAIN m }
    BY ListedMembers
  <2>3. \A i \in DOMAIN m : m[i][1] \in DOMAIN f
    BY ListedMembers
  <2> QED
    BY <2>1, <2>2, <2>3
<1>3. ASSUME NEW n \in DOMAIN f PROVE LastOf(json, n) = f[n]
  <2> DEFINE at == { i \in DOMAIN m : m[i][1] = n }
             last == CHOOSE i \in at : \A j \in at : j <= i
  <2>1. PICK i \in DOMAIN m : m[i][1] = n
    BY ListedMembers
  <2>2. i \in Nat /\ at = {i}
    BY <2>1, ListedMembers
  <2>3. LastOf(json, n) = m[last][2]
    BY <1>1 DEF LastOf
  <2> HIDE DEF at
  <2>4. last = i
    BY <2>2
  <2> HIDE DEF last
  <2>5. m[i][2] = f[n]
    BY <2>1, ListedMembers
  <2> QED
    BY <2>3, <2>4, <2>5
<1> QED
  BY <1>1, <1>2, <1>3 DEF json

(* Altered objects list altered functions.                                 *)
LEMMA ReversedLists ==
  ASSUME NEW m, NEW f, Lists(m, f)
  PROVE  Lists(Reverse(m), f)
<1> DEFINE r == Reverse(m)
           P == { <<n, f[n]>> : n \in DOMAIN f }
<1>1. Len(m) \in Nat /\ m \in Seq(P)
  BY ListedMembers DEF Lists
<1>2. \A i \in 1 .. Len(m) : Len(m) - i + 1 \in 1 .. Len(m)
  BY <1>1
<1> HIDE DEF P
<1>3. /\ r \in Seq(P) /\ Len(r) = Len(m)
      /\ \A i \in 1 .. Len(m) : r[i] = m[Len(m) - i + 1]
  BY <1>1, <1>2 DEF Reverse
<1> HIDE DEF r
<1>4. ASSUME NEW n \in DOMAIN f PROVE \E i \in 1 .. Len(r) : r[i][1] = n
  <2>1. PICK i \in 1 .. Len(m) : m[i][1] = n
    BY DEF Lists
  <2>2. Len(m) - i + 1 \in 1 .. Len(r) /\ r[Len(m) - i + 1] = m[i]
    <3>1. Len(m) - i + 1 \in 1 .. Len(m) /\ Len(m) - (Len(m) - i + 1) + 1 = i
      BY <1>1
    <3> QED
      BY <1>3, <3>1
  <2> QED
    BY <2>1, <2>2
<1>5. ASSUME NEW i \in 1 .. Len(r), NEW j \in 1 .. Len(r), r[i][1] = r[j][1]
      PROVE  i = j
  <2>1. m[Len(m) - i + 1][1] = m[Len(m) - j + 1][1]
    BY <1>3, <1>5
  <2>2. Len(m) - i + 1 \in DOMAIN m /\ Len(m) - j + 1 \in DOMAIN m
    BY <1>2, <1>3, ListedMembers
  <2>3. Len(m) - i + 1 = Len(m) - j + 1
    BY <2>1, <2>2, ListedMembers
  <2> QED
    BY <2>3, <1>1, <1>3
<1> QED
  BY <1>3, <1>4, <1>5 DEF Lists, r, P

With(f, n, x) == [k \in DOMAIN f \cup {n} |-> IF k = n THEN x ELSE f[k]]

(* A member that is added in front lists a function with one more name.    *)
LEMMA NewerLists ==
  ASSUME NEW m, NEW f, Lists(m, f), "newer" \notin DOMAIN f
  PROVE  Lists(<<<<"newer", Null>>>> \o m, With(f, "newer", Null))
<1> DEFINE g == With(f, "newer", Null)
           P == { <<n, g[n]>> : n \in DOMAIN g }
           first == <<"newer", Null>>
           l == << first >> \o m
<1>1. /\ DOMAIN g = DOMAIN f \cup {"newer"} /\ g["newer"] = Null
      /\ \A n \in DOMAIN f : g[n] = f[n]
  BY DEF With
<1> HIDE DEF g
<1>2. Len(m) \in Nat /\ first \in P /\ \A i \in 1 .. Len(m) : m[i] \in P
  BY <1>1, ListedMembers
<1>3. m \in Seq(P)
  <2>1. m \in Seq({ <<n, f[n]>> : n \in DOMAIN f })
    BY DEF Lists
  <2>2. { <<n, f[n]>> : n \in DOMAIN f } \subseteq P
    BY <1>1
  <2> QED
    BY <2>1, <2>2
<1>4. first[1] = "newer"
  OBVIOUS
<1> HIDE DEF P, first
<1>5. /\ l \in Seq(P) /\ Len(l) = Len(m) + 1 /\ l[1] = first
      /\ \A i \in 2 .. Len(m) + 1 : l[i] = m[i - 1]
  BY <1>2, <1>3
<1> HIDE DEF l
<1>6. ASSUME NEW n \in DOMAIN g PROVE \E i \in 1 .. Len(l) : l[i][1] = n
  <2>1. CASE n = "newer"
    BY <2>1, <1>2, <1>4, <1>5
  <2>2. CASE n \in DOMAIN f
    <3>1. PICK i \in 1 .. Len(m) : m[i][1] = n
      BY <2>2 DEF Lists
    <3>2. i + 1 \in 2 .. Len(m) + 1 /\ i + 1 \in 1 .. Len(l) /\ (i + 1) - 1 = i
      BY <1>2, <1>5
    <3> QED
      BY <3>1, <3>2, <1>5
  <2> QED
    BY <2>1, <2>2, <1>1
<1>7. \A i \in 2 .. Len(m) + 1 : i - 1 \in DOMAIN m /\ l[i][1] = m[i - 1][1] /\ l[i][1] # "newer"
  <2>1. \A i \in 2 .. Len(m) + 1 : i - 1 \in 1 .. Len(m)
    BY <1>2
  <2> QED
    BY <2>1, <1>5, ListedMembers
<1>8. ASSUME NEW i \in 1 .. Len(l), NEW j \in 1 .. Len(l), l[i][1] = l[j][1]
      PROVE  i = j
  <2>1. (i = 1 \/ i \in 2 .. Len(m) + 1) /\ (j = 1 \/ j \in 2 .. Len(m) + 1)
    BY <1>2, <1>5
  <2>2. CASE i = 1 \/ j = 1
    BY <2>1, <2>2, <1>4, <1>5, <1>7, <1>8
  <2>3. CASE i \in 2 .. Len(m) + 1 /\ j \in 2 .. Len(m) + 1
    <3>1. /\ i - 1 \in DOMAIN m /\ j - 1 \in DOMAIN m
          /\ m[i - 1][1] = m[j - 1][1]
      BY <2>3, <1>7, <1>8
    <3>2. i - 1 = j - 1
      BY <3>1, ListedMembers
    <3> QED
      BY <3>2, <2>3, <1>2
  <2> QED
    BY <2>1, <2>2, <2>3
<1> QED
  BY <1>5, <1>6, <1>8 DEF Lists, l, P, g, first

Without(f, n) == [k \in DOMAIN f \ {n} |-> f[k]]

(* A member that is removed: a function with one name less.                *)
LEMMA RemovedLists ==
  ASSUME NEW m, NEW f, Lists(m, f), NEW i \in DOMAIN m
  PROVE  Lists(RemoveAt(m, i), Without(f, m[i][1]))
<1> DEFINE g == Without(f, m[i][1])
           P == { <<n, f[n]>> : n \in DOMAIN f }
           Q == { <<n, g[n]>> : n \in DOMAIN g }
           l == RemoveAt(m, i)
           From(j) == IF j < i THEN j ELSE j + 1
<1>1. DOMAIN g = DOMAIN f \ {m[i][1]} /\ \A n \in DOMAIN g : g[n] = f[n]
  BY DEF Without
<1>2. m \in Seq(P) /\ Len(m) \in Nat /\ i \in 1 .. Len(m) /\ DOMAIN m = 1 .. Len(m)
  BY ListedMembers DEF Lists
<1>3. \A j \in DOMAIN m : j # i => m[j] \in Q
  <2> SUFFICES ASSUME NEW j \in DOMAIN m, j # i PROVE m[j] \in Q
    OBVIOUS
  <2>1. m[j][1] # m[i][1]
    BY <1>2 DEF Lists
  <2>2. m[j][1] \in DOMAIN g /\ m[j] = <<m[j][1], g[m[j][1]]>>
    BY <2>1, <1>1, ListedMembers
  <2> QED
    BY <2>2
<1> HIDE DEF P, g, Q
<1>4. /\ l \in Seq(P) /\ Len(l) = Len(m) - 1
      /\ \A j \in 1 .. Len(m) - 1 : l[j] = m[From(j)]
  <2> DEFINE a == SubSeq(m, 1, i - 1)
             b == SubSeq(m, i + 1, Len(m))
  <2>1. /\ a \in Seq(P) /\ Len(a) = i - 1
        /\ \A j \in 1 .. i - 1 : a[j] = m[j]
    <3>1. i - 1 \in Nat /\ i - 1 <= Len(m) /\ (i - 1) + 1 = (i - 1) + 1
      BY <1>2
    <3>2. \A j \in 1 .. i - 1 : a[j] = m[1 + j - 1] /\ 1 + j - 1 = j
      BY <1>2, <3>1, Part
    <3> QED
      BY <1>2, <3>1, <3>2, Part
  <2>2. /\ b \in Seq(P) /\ Len(b) = Len(m) - i
        /\ \A j \in 1 .. Len(m) - i : b[j] = m[i + j]
    <3>1. Len(m) - i \in Nat /\ (Len(m) - i) + (i + 1) = Len(m) + 1 /\ i + 1 \in Nat \ {0}
      BY <1>2
    <3> DEFINE k == Len(m) - i
               from == i + 1
    <3>2. /\ k \in Nat /\ k + from = Len(m) + 1 /\ from \in Nat \ {0}
          /\ b = SubSeq(m, from, Len(m))
      BY <3>1
    <3> HIDE DEF k, from, b
    <3>3. /\ b \in Seq(P) /\ Len(b) = k
          /\ \A j \in 1 .. k : b[j] = m[from + j - 1]
      BY <1>2, <3>2, Part
    <3>4. \A j \in 1 .. k : from + j - 1 = i + j
      BY <1>2, <3>2 DEF from
    <3> QED
      BY <3>3, <3>4 DEF k
  <2>3. l = a \o b
    BY DEF RemoveAt
  <2> HIDE DEF a, b, l
  <2>4. /\ a \o b \in Seq(P) /\ Len(a \o b) = Len(m) - 1
        /\ \A j \in 1 .. i - 1 : (a \o b)[j] = a[j]
        /\ \A j \in i .. Len(m) - 1 : (a \o b)[j] = b[j - (i - 1)]
    <3>1. /\ a \o b \in Seq(P) /\ Len(a \o b) = Len(a) + Len(b)
          /\ \A j \in 1 .. Len(a) + Len(b) :
               (a \o b)[j] = IF j <= Len(a) THEN a[j] ELSE b[j - Len(a)]
      BY <2>1, <2>2, ConcatProperties
    <3>2. \A j \in 1 .. i - 1 : j \in 1 .. Len(a) + Len(b) /\ j <= Len(a)
      BY <2>1, <2>2, <1>2
    <3>3. \A j \in i .. Len(m) - 1 : j \in 1 .. Len(a) + Len(b) /\ ~ (j <= Len(a))
      BY <2>1, <2>2, <1>2
    <3>4. Len(a) + Len(b) = Len(m) - 1
      BY <2>1, <2>2, <1>2
    <3> QED
      BY <2>1, <3>1, <3>2, <3>3, <3>4
  <2>5. ASSUME NEW j \in 1 .. Len(m) - 1 PROVE l[j] = m[From(j)]
    <3>1. CASE j < i
      BY <3>1, <2>1, <2>3, <2>4, <1>2
    <3>2. CASE ~ (j < i)
      <4>1. j \in i .. Len(m) - 1 /\ j - (i - 1) \in 1 .. Len(m) - i /\ i + (j - (i - 1)) = j + 1
        BY <3>2, <1>2
      <4>2. l[j] = m[i + (j - (i - 1))]
        BY <4>1, <2>2, <2>3, <2>4
      <4> QED
        BY <3>2, <4>1, <4>2
    <3> QED
      BY <3>1, <3>2
  <2> QED
    BY <2>3, <2>4, <2>5
<1>5. /\ \A j \in 1 .. Len(m) - 1 : From(j) \in 1 .. Len(m) /\ From(j) # i
      /\ \A j \in 1 .. Len(m) : j # i => \E k \in 1 .. Len(m) - 1 : From(k) = j
      /\ \A j, k \in 1 .. Len(m) - 1 : From(j) = From(k) => j = k
  <2>1. ASSUME NEW j \in 1 .. Len(m), j # i PROVE \E k \in 1 .. Len(m) - 1 : From(k) = j
    <3>1. CASE j < i
      <4>1. j \in 1 .. Len(m) - 1 /\ From(j) = j
        BY <3>1, <1>2
      <4> QED
        BY <4>1
    <3>2. CASE ~ (j < i)
      <4>1. j - 1 \in 1 .. Len(m) - 1 /\ From(j - 1) = j
        BY <3>2, <2>1, <1>2
      <4> QED
        BY <4>1
    <3> QED
      BY <3>1, <3>2
  <2> QED
    BY <2>1, <1>2
<1> HIDE DEF From, l
<1>6. l \in Seq(Q)
  <2>1. \A j \in 1 .. Len(l) : l[j] \in Q
    BY <1>2, <1>3, <1>4, <1>5
  <2> QED
    BY <1>2, <1>4, <2>1
<1>7. ASSUME NEW n \in DOMAIN g PROVE \E j \in 1 .. Len(l) : l[j][1] = n
  <2>1. PICK k \in 1 .. Len(m) : m[k][1] = n
    BY <1>1 DEF Lists
  <2>2. k # i
    BY <2>1, <1>1
  <2>3. PICK j \in 1 .. Len(m) - 1 : From(j) = k
    BY <2>2, <1>5
  <2> QED
    BY <2>1, <2>3, <1>4
<1>8. ASSUME NEW j \in 1 .. Len(l), NEW k \in 1 .. Len(l), l[j][1] = l[k][1]
      PROVE  j = k
  <2>1. /\ j \in 1 .. Len(m) - 1 /\ k \in 1 .. Len(m) - 1
        /\ m[From(j)][1] = m[From(k)][1]
    BY <1>4, <1>8
  <2>2. From(j) \in DOMAIN m /\ From(k) \in DOMAIN m
    BY <2>1, <1>2, <1>5
  <2>3. From(j) = From(k)
    BY <2>1, <2>2, ListedMembers
  <2> QED
    BY <2>1, <2>3, <1>5
<1> QED
  BY <1>6, <1>7, <1>8 DEF Lists, l, Q, g

(* A member whose value is replaced: the function with that value.         *)
LEMMA ReplacedLists ==
  ASSUME NEW m, NEW f, Lists(m, f), NEW i \in DOMAIN m, NEW x
  PROVE  Lists([m EXCEPT ![i] = <<m[i][1], x>>], With(f, m[i][1], x))
<1> DEFINE name == m[i][1]
           g == With(f, name, x)
           Q == { <<n, g[n]>> : n \in DOMAIN g }
           l == [m EXCEPT ![i] = <<name, x>>]
<1>1. Len(m) \in Nat /\ i \in 1 .. Len(m) /\ DOMAIN m = 1 .. Len(m) /\ name \in DOMAIN f
  BY ListedMembers
<1>2. DOMAIN g = DOMAIN f /\ g[name] = x /\ \A n \in DOMAIN f : n # name => g[n] = f[n]
  BY <1>1 DEF With
<1> HIDE DEF g
<1>3. /\ DOMAIN l = 1 .. Len(m) /\ l[i] = <<name, x>>
      /\ \A j \in 1 .. Len(m) : j # i => l[j] = m[j]
      /\ l = [j \in 1 .. Len(m) |-> l[j]]
  BY <1>1
<1> HIDE DEF l
<1>4. \A j \in 1 .. Len(m) : l[j][1] = m[j][1] /\ l[j] \in Q
  <2> SUFFICES ASSUME NEW j \in 1 .. Len(m) PROVE l[j][1] = m[j][1] /\ l[j] \in Q
    OBVIOUS
  <2>1. CASE j = i
    BY <2>1, <1>1, <1>2, <1>3
  <2>2. CASE j # i
    <3>1. m[j][1] # name /\ m[j][1] \in DOMAIN f /\ m[j] = <<m[j][1], f[m[j][1]]>>
      BY <2>2, <1>1, ListedMembers DEF Lists
    <3>2. m[j] = <<m[j][1], g[m[j][1]]>> /\ m[j][1] \in DOMAIN g
      BY <3>1, <1>2
    <3>3. m[j] \in Q
      BY <3>2
    <3> HIDE DEF Q
    <3> QED
      BY <3>3, <2>2, <1>3
  <2> QED
    BY <2>1, <2>2
<1> HIDE DEF Q, name
<1>5. l \in Seq(Q) /\ Len(l) = Len(m)
  BY <1>1, <1>3, <1>4
<1> QED
  BY <1>1, <1>2, <1>4, <1>5 DEF Lists, Q, g, l, name

-----------------------------------------------------------------------------
(* JSON, level by level.  A value fits its type when each of its leaves,   *)
(* lists and structs is there; ranges and enumerations are for Valid.      *)
LeafKinds == {"string", "bool", "number", "enum"}

FitsLeaf(type, value) ==
  type.kind \in LeafKinds /\ (type.kind = "enum" => "newer" \notin type.of)

FitsOne(Below(_, _), type, value) ==
  IF type.kind = "object" THEN Below(type, value) ELSE FitsLeaf(type, value)

FitsField(Below(_, _), type, value) ==
  IF type.kind = "list"
    THEN /\ value = [i \in DOMAIN value |-> value[i]]
         /\ \A i \in DOMAIN value : FitsOne(Below, type.of, value[i])
    ELSE FitsOne(Below, type, value)

FitsStruct(Below(_, _), type, value) ==
  /\ HasFields(type)
  /\ value = [n \in DOMAIN value |-> value[n]]
  /\ DOMAIN value \subseteq FieldNames(type)
  /\ \A k \in DOMAIN type.of : type.of[k].required => type.of[k].name \in DOMAIN value
  /\ \A n \in DOMAIN value : FitsField(Below, TypeOf(type, n), value[n])

Fits1(type, value) == FitsStruct(FitsLeaf, type, value)
Fits2(type, value) == FitsStruct(Fits1, type, value)
Fits(type, value)  == FitsStruct(Fits2, type, value)

(* What was written is read, null is not, and of everything an altered     *)
(* value may be, what says the same is read and what does harm is not.     *)
UnderstoodLeaf(type, value) ==
  LET json == EncodeLeaf(type, value)
      Reads(j)   == DecodesLeaf(type, j) /\ DecodeLeaf(type, j) = value
      Refuses(j) == ~ (DecodesLeaf(type, j) /\ ValidLeaf(type, DecodeLeaf(type, j)))
  IN  /\ Reads(json) /\ ~ DecodesLeaf(type, Null)
      /\ \A v \in VariantsLeaf(type, json) :
           IF v.harm THEN Refuses(v.body) ELSE Reads(v.body)

(* A leaf of the schemas is understood.                                    *)
LEMMA LeafUnderstood ==
  ASSUME NEW type, NEW value, FitsLeaf(type, value)
  PROVE  UnderstoodLeaf(type, value)
<1>1. DecodesLeaf(type, EncodeLeaf(type, value)) /\ DecodeLeaf(type, EncodeLeaf(type, value)) = value
  BY DEF DecodesLeaf, DecodeLeaf, EncodeLeaf
<1>2. ~ DecodesLeaf(type, Null)
  BY DEF DecodesLeaf, Null, FitsLeaf, LeafKinds
<1>3. ASSUME NEW v \in VariantsLeaf(type, EncodeLeaf(type, value))
      PROVE  v.harm /\ ~ (DecodesLeaf(type, v.body) /\ ValidLeaf(type, DecodeLeaf(type, v.body)))
  <2>1. v.body = <<"string", "newer">> /\ v.harm /\ type.kind = "enum"
    BY DEF VariantsLeaf
  <2> QED
    BY <2>1 DEF DecodeLeaf, ValidLeaf, FitsLeaf
<1> QED
  BY <1>1, <1>2, <1>3 DEF UnderstoodLeaf

(* The members an encoder writes list the encoded fields.                  *)
LEMMA WrittenLists ==
  ASSUME NEW type, HasFields(type), NEW value, DOMAIN value \subseteq FieldNames(type),
         NEW f, DOMAIN f = DOMAIN value,
         NEW m, m = [i \in DOMAIN SetFields(type, value) |->
                       <<SetFields(type, value)[i].name, f[SetFields(type, value)[i].name]>>]
  PROVE  Lists(m, f)
<1> DEFINE set == SetFields(type, value)
           P == { <<n, f[n]>> : n \in DOMAIN f }
<1>1. Picked(type, value, Len(type.of), set)
  BY SetFieldsArePicked
<1>2. Len(set) \in Nat /\ DOMAIN set = 1 .. Len(set)
  BY <1>1 DEF Picked
<1> HIDE DEF set
<1>3. \A i \in 1 .. Len(set) : m[i] = <<set[i].name, f[set[i].name]>>
  BY <1>2 DEF set
<1>4. m = [i \in 1 .. Len(set) |-> m[i]]
  BY <1>2 DEF set
<1>5. m \in Seq(P) /\ Len(m) = Len(set)
  <2>1. \A i \in 1 .. Len(set) : set[i].name \in DOMAIN f
    BY <1>1 DEF Picked
  <2>2. \A n \in DOMAIN f : <<n, f[n]>> \in P
    OBVIOUS
  <2> HIDE DEF P
  <2>3. \A i \in 1 .. Len(set) : m[i] \in P
    BY <1>3, <2>1, <2>2
  <2> QED
    BY <1>2, <1>4, <2>3
<1>6. \A i \in 1 .. Len(set) : m[i][1] = set[i].name
  BY ONLY <1>3
<1>7. ASSUME NEW n \in DOMAIN f PROVE \E i \in 1 .. Len(m) : m[i][1] = n
  <2>1. PICK k \in DOMAIN type.of : type.of[k].name = n
    BY DEF FieldNames
  <2>2. k \in 1 .. Len(type.of)
    BY DEF HasFields
  <2>3. PICK i \in 1 .. Len(set) : set[i] = type.of[k]
    BY <1>1, <2>1, <2>2 DEF Picked
  <2> QED
    BY <1>5, <1>6, <2>1, <2>3
<1>8. \A i, j \in 1 .. Len(m) : m[i][1] = m[j][1] => i = j
  <2>1. \A i, j \in 1 .. Len(set) : set[i].name = set[j].name => i = j
    BY <1>1 DEF Picked
  <2> QED
    BY <2>1, <1>5, <1>6
<1> QED
  BY <1>5, <1>7, <1>8 DEF Lists, P

(* A field that is encoded is set, and has the type its name stands for.   *)
LEMMA SetFieldsTypes ==
  ASSUME NEW type, HasFields(type), NEW value, NEW i \in DOMAIN SetFields(type, value)
  PROVE  /\ SetFields(type, value)[i].name \in DOMAIN value
         /\ TypeOf(type, SetFields(type, value)[i].name) = SetFields(type, value)[i].type
<1> DEFINE set == SetFields(type, value)
           S == { type.of[k] : k \in 1 .. Len(type.of) }
<1>1. Picked(type, value, Len(type.of), set)
  BY SetFieldsArePicked
<1> HIDE DEF set
<1>2. set \in Seq(S) /\ i \in 1 .. Len(set)
  BY <1>1 DEF Picked, set
<1>3. set[i] \in S
  BY <1>2
<1>4. PICK k \in DOMAIN type.of : set[i] = type.of[k]
  BY <1>3 DEF HasFields
<1> QED
  BY <1>1, <1>2, <1>4, TypeOfField DEF Picked, set

(* Level 1: fields, then structs.                                          *)
UnderstoodField1(type, value) ==
  LET json == EncodeField(EncodeLeaf, type, value)
      Reads(j)   == DecodesField(DecodesLeaf, type, j) /\ DecodeField(DecodeLeaf, type, j) = value
      Refuses(j) == ~ (/\ DecodesField(DecodesLeaf, type, j)
                       /\ ValidField(ValidLeaf, type, DecodeField(DecodeLeaf, type, j)))
  IN  /\ Reads(json) /\ ~ DecodesField(DecodesLeaf, type, Null)
      /\ \A v \in VariantsField(VariantsLeaf, type, json) :
           IF v.harm THEN Refuses(v.body) ELSE Reads(v.body)

(* A leaf or a list of leaves is understood.                               *)
LEMMA FieldUnderstood1 ==
  ASSUME NEW type, NEW value, FitsField(FitsLeaf, type, value)
  PROVE  UnderstoodField1(type, value)
<1> DEFINE E(t, x) == EncodeOne(EncodeLeaf, t, x)
           D(t, j) == DecodesOne(DecodesLeaf, t, j)
           G(t, j) == DecodeOne(DecodeLeaf, t, j)
           V(t, x) == ValidOne(ValidLeaf, t, x)
           A(t, j) == VariantsOne(VariantsLeaf, t, j)
           Understood(t, x) ==
             /\ D(t, E(t, x)) /\ G(t, E(t, x)) = x /\ ~ D(t, Null)
             /\ \A v \in A(t, E(t, x)) :
                  IF v.harm THEN ~ (D(t, v.body) /\ V(t, G(t, v.body)))
                  ELSE D(t, v.body) /\ G(t, v.body) = x
<1>1. ASSUME NEW t, NEW x, FitsOne(FitsLeaf, t, x) PROVE Understood(t, x)
  <2>1. CASE t.kind = "object"
    BY <1>1, <2>1 DEF FitsOne, FitsLeaf, LeafKinds
  <2>2. CASE t.kind # "object"
    <3>1. UnderstoodLeaf(t, x)
      BY <1>1, <2>2, LeafUnderstood DEF FitsOne
    <3> QED
      BY <3>1, <2>2 DEF UnderstoodLeaf, EncodeOne, DecodesOne, DecodeOne, ValidOne, VariantsOne
  <2> QED
    BY <2>1, <2>2
<1>2. CASE type.kind # "list"
  <2>1. Understood(type, value)
    BY <1>1, <1>2 DEF FitsField
  <2> QED
    BY <2>1, <1>2 DEF UnderstoodField1, EncodeField, DecodesField, DecodeField,
                      ValidField, VariantsField
<1>3. CASE type.kind = "list"
  <2> DEFINE e == [i \in DOMAIN value |-> E(type.of, value[i])]
             json == <<"array", e>>
             Reads(j)   == j[1] = "array" /\ (\A i \in DOMAIN j[2] : D(type.of, j[2][i]))
             Back(j)    == [i \in DOMAIN j[2] |-> G(type.of, j[2][i])]
             Fine(x)    == \A i \in DOMAIN x : V(type.of, x[i])
             Other(i, body) == <<"array", [e EXCEPT ![i] = body]>>
  <2>1. \A i \in DOMAIN value : Understood(type.of, value[i])
    BY <1>1, <1>3 DEF FitsField
  <2>2. value = [i \in DOMAIN value |-> value[i]]
    BY <1>3 DEF FitsField
  <2>3. /\ EncodeField(EncodeLeaf, type, value) = json
        /\ \A j : DecodesField(DecodesLeaf, type, j) <=> Reads(j)
        /\ \A j : DecodeField(DecodeLeaf, type, j) = Back(j)
        /\ \A x : ValidField(ValidLeaf, type, x) <=> Fine(x)
    BY <1>3 DEF EncodeField, DecodesField, DecodeField, ValidField
  <2>4. ASSUME NEW v \in VariantsField(VariantsLeaf, type, json)
        PROVE  \E i \in DOMAIN value : \E w \in A(type.of, e[i]) :
                 v.body = Other(i, w.body) /\ v.harm = w.harm
    <3> DEFINE Altered(i, w) ==
                 [body |-> <<"array", [json[2] EXCEPT ![i] = w.body]>>, harm |-> w.harm]
               Those(i) == { Altered(i, w) : w \in A(type.of, json[2][i]) }
    <3>1. VariantsField(VariantsLeaf, type, json) = UNION { Those(i) : i \in DOMAIN json[2] }
      BY <1>3, Zenon DEF VariantsField
    <3>2. json[2] = e /\ DOMAIN e = DOMAIN value
      OBVIOUS
    <3> HIDE DEF json, e, A, Those
    <3>3. PICK i \in DOMAIN value : v \in Those(i)
      BY <2>4, <3>1, <3>2
    <3>4. PICK w \in A(type.of, e[i]) : v = Altered(i, w)
      BY <3>2, <3>3 DEF Those
    <3>5. v.body = Other(i, w.body) /\ v.harm = w.harm
      BY <3>2, <3>4
    <3> QED
      BY <3>5
  <2> HIDE DEF E, D, G, V, A
  <2>5. Reads(json) /\ Back(json) = value
    <3>1. DOMAIN e = DOMAIN value /\ \A i \in DOMAIN value : e[i] = E(type.of, value[i])
      OBVIOUS
    <3>2. json[1] = "array" /\ json[2] = e
      OBVIOUS
    <3> HIDE DEF e, json
    <3>3. Reads(json)
      BY <2>1, <3>1, <3>2
    <3>4. Back(json) = [i \in DOMAIN value |-> value[i]]
      BY <2>1, <3>1, <3>2
    <3> QED
      BY <2>2, <3>3, <3>4
  <2>6. ~ Reads(Null)
    BY DEF Null
  <2>7. ASSUME NEW i \in DOMAIN value, NEW w \in A(type.of, e[i])
        PROVE  IF w.harm THEN ~ (Reads(Other(i, w.body)) /\ Fine(Back(Other(i, w.body))))
               ELSE Reads(Other(i, w.body)) /\ Back(Other(i, w.body)) = value
    <3> DEFINE o == Other(i, w.body)
    <3>1. /\ o[1] = "array" /\ DOMAIN o[2] = DOMAIN value /\ o[2][i] = w.body
          /\ \A k \in DOMAIN value : k # i => o[2][k] = E(type.of, value[k])
      OBVIOUS
    <3>2. w \in A(type.of, E(type.of, value[i]))
      OBVIOUS
    <3> HIDE DEF e, json, Other
    <3>3. CASE w.harm
      <4>1. ~ (D(type.of, w.body) /\ V(type.of, G(type.of, w.body)))
        BY <2>1, <3>2, <3>3
      <4>2. DOMAIN Back(o) = DOMAIN value /\ Back(o)[i] = G(type.of, w.body)
        BY <3>1
      <4> HIDE DEF Back
      <4>3. Reads(o) => D(type.of, w.body)
        BY <3>1
      <4>4. Fine(Back(o)) => V(type.of, G(type.of, w.body))
        BY <4>2
      <4> QED
        BY <3>3, <4>1, <4>3, <4>4
    <3>4. CASE ~ w.harm
      <4>1. D(type.of, w.body) /\ G(type.of, w.body) = value[i]
        BY <2>1, <3>2, <3>4
      <4>2. \A k \in DOMAIN value : D(type.of, o[2][k]) /\ G(type.of, o[2][k]) = value[k]
        BY <2>1, <3>1, <4>1
      <4>3. Reads(o)
        BY <3>1, <4>2
      <4>4. Back(o) = [k \in DOMAIN value |-> value[k]]
        BY <3>1, <4>2
      <4> QED
        BY <2>2, <3>4, <4>3, <4>4
    <3> QED
      BY <3>3, <3>4
  <2>8. ASSUME NEW v \in VariantsField(VariantsLeaf, type, json)
        PROVE  IF v.harm THEN ~ (Reads(v.body) /\ Fine(Back(v.body)))
               ELSE Reads(v.body) /\ Back(v.body) = value
    <3>1. PICK i \in DOMAIN value : \E w \in A(type.of, e[i]) :
             v.body = Other(i, w.body) /\ v.harm = w.harm
      BY <2>4
    <3>2. PICK w \in A(type.of, e[i]) : v.body = Other(i, w.body) /\ v.harm = w.harm
      BY <3>1
    <3> HIDE DEF Reads, Fine, Back, Other, e, json
    <3> QED
      BY <3>2, <2>7
  <2> HIDE DEF Reads, Fine, Back, Other, e, json
  <2> QED
    BY <2>3, <2>5, <2>6, <2>8 DEF UnderstoodField1
<1> QED
  BY <1>2, <1>3

UnderstoodStruct1(type, value) ==
  LET json == Encode1(type, value)
      Reads(j)   == Decodes1(type, j) /\ Decode1(type, j) = value
      Refuses(j) == ~ (Decodes1(type, j) /\ Valid1(type, Decode1(type, j)))
  IN  /\ Reads(json) /\ ~ Decodes1(type, Null)
      /\ \A v \in Variants1(type, json) :
           IF v.harm THEN Refuses(v.body) ELSE Reads(v.body)

(* A struct of leaves and lists of leaves is understood.                   *)
LEMMA StructUnderstood1 ==
  ASSUME NEW type, NEW value, Fits1(type, value)
  PROVE  UnderstoodStruct1(type, value)
<1> DEFINE E(t, x) == EncodeField(EncodeLeaf, t, x)
           D(t, j) == DecodesField(DecodesLeaf, t, j)
           G(t, j) == DecodeField(DecodeLeaf, t, j)
           V(t, x) == ValidField(ValidLeaf, t, x)
           A(t, j) == VariantsField(VariantsLeaf, t, j)
           T(n)    == TypeOf(type, n)
           Understood(t, x) ==
             /\ D(t, E(t, x)) /\ G(t, E(t, x)) = x /\ ~ D(t, Null)
             /\ \A v \in A(t, E(t, x)) :
                  IF v.harm THEN ~ (D(t, v.body) /\ V(t, G(t, v.body)))
                  ELSE D(t, v.body) /\ G(t, v.body) = x
           f   == [n \in DOMAIN value |-> E(T(n), value[n])]
           set == SetFields(type, value)
           m   == [i \in DOMAIN set |->
                     <<set[i].name, E(set[i].type, value[set[i].name])>>]
           Object(l) == <<"object", l>>
           Reads(j)  == Decodes1(type, j)
           Back(j)   == Decode1(type, j)
           Fine(x)   == Valid1(type, x)
<1>1. /\ HasFields(type) /\ value = [n \in DOMAIN value |-> value[n]]
      /\ DOMAIN value \subseteq FieldNames(type)
      /\ \A k \in DOMAIN type.of : type.of[k].required => type.of[k].name \in DOMAIN value
  BY DEF Fits1, FitsStruct
<1>2. ASSUME NEW n \in DOMAIN value PROVE Understood(T(n), value[n])
  <2>1. UnderstoodField1(T(n), value[n])
    BY FieldUnderstood1 DEF Fits1, FitsStruct
  <2> QED
    BY <2>1 DEF UnderstoodField1
<1>3. Encode1(type, value) = Object(m)
  BY DEF Encode1, EncodeStruct
<1>4. ASSUME NEW l, NEW g, Lists(l, g)
      PROVE  /\ Reads(Object(l)) <=>
                  \A k \in DOMAIN type.of :
                    /\ type.of[k].required => type.of[k].name \in DOMAIN g
                    /\ type.of[k].name \in DOMAIN g =>
                         D(type.of[k].type, g[type.of[k].name])
             /\ DOMAIN Back(Object(l)) = FieldNames(type) \cap DOMAIN g
             /\ \A n \in FieldNames(type) \cap DOMAIN g : Back(Object(l))[n] = G(T(n), g[n])
             /\ Back(Object(l)) = [n \in DOMAIN Back(Object(l)) |-> Back(Object(l))[n]]
  <2> DEFINE j == Object(l)
  <2>1. /\ Members(j) = l /\ Names(j) = DOMAIN g /\ j[1] = "object"
        /\ \A n \in DOMAIN g : LastOf(j, n) = g[n]
    BY <1>4, ListedObject
  <2>2. /\ \A i \in DOMAIN l : l[i][1] \in DOMAIN g /\ l[i][2] = g[l[i][1]]
        /\ \A n \in DOMAIN g : \E i \in DOMAIN l : l[i][1] = n
    BY <1>4, ListedMembers
  <2> HIDE DEF j, D, G, T
  <2>3. Reads(j) <=> \A k \in DOMAIN type.of :
          /\ type.of[k].required => type.of[k].name \in DOMAIN g
          /\ \A i \in DOMAIN l : l[i][1] = type.of[k].name => D(type.of[k].type, l[i][2])
    BY <2>1 DEF Decodes1, DecodesStruct, D
  <2>4. \A k \in DOMAIN type.of :
          (\A i \in DOMAIN l : l[i][1] = type.of[k].name => D(type.of[k].type, l[i][2]))
            <=> (type.of[k].name \in DOMAIN g => D(type.of[k].type, g[type.of[k].name]))
    BY <2>2
  <2>5. Back(j) = [n \in FieldNames(type) \cap DOMAIN g |-> G(T(n), LastOf(j, n))]
    BY <2>1 DEF Decode1, DecodeStruct, G, T, FieldNames
  <2>6. /\ DOMAIN Back(j) = FieldNames(type) \cap DOMAIN g
        /\ \A n \in FieldNames(type) \cap DOMAIN g : Back(j)[n] = G(T(n), g[n])
        /\ Back(j) = [n \in DOMAIN Back(j) |-> Back(j)[n]]
    <3> HIDE DEF Back
    <3> QED
      BY <2>1, <2>5
  <2> QED
    BY <2>3, <2>4, <2>6 DEF j
<1>5. \A x : Fine(x) <=> \A k \in DOMAIN type.of :
        type.of[k].name \in DOMAIN x => V(type.of[k].type, x[type.of[k].name])
  BY DEF Valid1, ValidStruct
<1>6. ~ Reads(Null)
  BY DEF Decodes1, DecodesStruct, Null
<1>7. ASSUME NEW v \in Variants1(type, Object(m))
      PROVE  \/ v.body = Object(<<<<"newer", Null>>>> \o m) /\ ~ v.harm
             \/ v.body = Object(Reverse(m)) /\ ~ v.harm
             \/ \E i \in DOMAIN m :
                  /\ \E k \in DOMAIN type.of : type.of[k].name = m[i][1] /\ type.of[k].required
                  /\ v.body = Object(RemoveAt(m, i)) /\ v.harm
             \/ \E i \in DOMAIN m :
                  v.body = Object([m EXCEPT ![i] = <<m[i][1], Null>>]) /\ v.harm
             \/ \E i \in DOMAIN m : \E w \in A(T(m[i][1]), m[i][2]) :
                  v.body = Object([m EXCEPT ![i] = <<m[i][1], w.body>>]) /\ v.harm = w.harm
  <2> HIDE DEF m
  <2> DEFINE IsRequired(n) == \E k \in DOMAIN type.of : type.of[k].name = n /\ type.of[k].required
             Changed(l, i, body, harm) ==
               [body |-> Object([l EXCEPT ![i] = <<l[i][1], body>>]), harm |-> harm]
             Other(i, body, harm) == Changed(m, i, body, harm)
             New == [body |-> Object(<<<<"newer", Null>>>> \o m), harm |-> FALSE]
             Rev == [body |-> Object(Reverse(m)), harm |-> FALSE]
             Less(i) == [body |-> Object(RemoveAt(m, i)), harm |-> TRUE]
             Removed == { Less(i) : i \in { i \in DOMAIN m : IsRequired(m[i][1]) } }
             Nulled == { Other(i, Null, TRUE) : i \in DOMAIN m }
             Below(i) == { Other(i, w.body, w.harm) : w \in A(T(m[i][1]), m[i][2]) }
             All(l) ==
               { [body |-> Object(<<<<"newer", Null>>>> \o l), harm |-> FALSE],
                 [body |-> Object(Reverse(l)), harm |-> FALSE] }
               \cup { [body |-> Object(RemoveAt(l, i)), harm |-> TRUE] :
                        i \in { i \in DOMAIN l : IsRequired(l[i][1]) } }
               \cup { Changed(l, i, Null, TRUE) : i \in DOMAIN l }
               \cup UNION { { Changed(l, i, w.body, w.harm) : w \in A(T(l[i][1]), l[i][2]) } :
                              i \in DOMAIN l }
  <2>1. Members(Object(m)) = m
    BY DEF Members
  <2>2. Variants1(type, Object(m)) = {New, Rev} \cup Removed \cup Nulled \cup UNION { Below(i) : i \in DOMAIN m }
    <3>1. Variants1(type, Object(m)) = All(Members(Object(m)))
      BY Zenon DEF Variants1, VariantsStruct
    <3>2. All(m) = {New, Rev} \cup Removed \cup Nulled \cup UNION { Below(i) : i \in DOMAIN m }
      BY Zenon
    <3> HIDE DEF All, New, Rev, Removed, Nulled, Below, Object
    <3> QED
      BY <2>1, <3>1, <3>2
  <2>3. \A i \in DOMAIN m : \A b, h : Other(i, b, h).body =
          Object([m EXCEPT ![i] = <<m[i][1], b>>]) /\ Other(i, b, h).harm = h
    OBVIOUS
  <2>4. New.body = Object(<<<<"newer", Null>>>> \o m) /\ New.harm = FALSE
    OBVIOUS
  <2>5. Rev.body = Object(Reverse(m)) /\ Rev.harm = FALSE
    OBVIOUS
  <2>6. \A i \in DOMAIN m : Less(i).body = Object(RemoveAt(m, i)) /\ Less(i).harm = TRUE
    OBVIOUS
  <2> HIDE DEF New, Rev, Less, Other, A, T, IsRequired, Object
  <2>7. CASE v \in {New, Rev}
    BY <2>7, <2>4, <2>5
  <2>8. CASE v \in Removed
    <3>1. PICK i \in DOMAIN m : IsRequired(m[i][1]) /\ v = Less(i)
      BY <2>8
    <3> QED
      BY <3>1, <2>6 DEF IsRequired
  <2>9. CASE v \in Nulled
    <3>1. PICK i \in DOMAIN m : v = Other(i, Null, TRUE)
      BY <2>9
    <3>2. v.body = Object([m EXCEPT ![i] = <<m[i][1], Null>>]) /\ v.harm
      BY <3>1, <2>3
    <3> QED
      BY <3>2
  <2>10. CASE v \in UNION { Below(i) : i \in DOMAIN m }
    <3>1. PICK i \in DOMAIN m : v \in Below(i)
      BY <2>10
    <3>2. PICK w \in A(T(m[i][1]), m[i][2]) : v = Other(i, w.body, w.harm)
      BY <3>1
    <3>3. v.body = Object([m EXCEPT ![i] = <<m[i][1], w.body>>]) /\ v.harm = w.harm
      BY <3>2, <2>3
    <3> QED
      BY <3>3
  <2> HIDE DEF Removed, Nulled, Below
  <2> QED
    BY <1>7, <2>2, <2>7, <2>8, <2>9, <2>10
<1> HIDE DEF E, D, G, V, A
<1>8. Lists(m, f)
  <2>1. \A i \in DOMAIN set : /\ set[i].name \in DOMAIN value
                              /\ T(set[i].name) = set[i].type
    BY <1>1, SetFieldsTypes
  <2> HIDE DEF set, T
  <2>2. m = [i \in DOMAIN set |-> <<set[i].name, f[set[i].name]>>]
    BY <2>1
  <2>3. DOMAIN f = DOMAIN value
    OBVIOUS
  <2> HIDE DEF f, m
  <2> QED
    BY <1>1, <2>2, <2>3, WrittenLists DEF set
<1>9. \A n \in DOMAIN value : f[n] = E(T(n), value[n])
  OBVIOUS
<1>10. DOMAIN f = DOMAIN value
  OBVIOUS
<1>11. \A n \in FieldNames(type) : \E k \in DOMAIN type.of :
         type.of[k].name = n /\ type.of[k].type = T(n)
  BY <1>1, TypeOfField DEF FieldNames
<1>12. \A k \in DOMAIN type.of : /\ type.of[k].name \in FieldNames(type)
                                 /\ type.of[k].type = T(type.of[k].name)
  BY <1>1, TypeOfField DEF FieldNames
<1> HIDE DEF f, m, set, T, Object, Reads, Back, Fine
<1>13. ASSUME NEW l, NEW g, Lists(l, g), FieldNames(type) \cap DOMAIN g = DOMAIN value,
              \A n \in DOMAIN value : D(T(n), g[n]) /\ G(T(n), g[n]) = value[n]
       PROVE  Reads(Object(l)) /\ Back(Object(l)) = value
  <2>1. Reads(Object(l))
    <3>1. \A k \in DOMAIN type.of :
            /\ type.of[k].required => type.of[k].name \in DOMAIN g
            /\ type.of[k].name \in DOMAIN g => D(type.of[k].type, g[type.of[k].name])
      BY <1>1, <1>12, <1>13
    <3> QED
      BY <3>1, <1>4, <1>13
  <2>2. /\ DOMAIN Back(Object(l)) = DOMAIN value
        /\ \A n \in DOMAIN value : Back(Object(l))[n] = value[n]
        /\ Back(Object(l)) = [n \in DOMAIN Back(Object(l)) |-> Back(Object(l))[n]]
    BY <1>4, <1>13
  <2>3. Back(Object(l)) = [n \in DOMAIN value |-> value[n]]
    BY <2>2
  <2> QED
    BY <2>1, <2>3, <1>1
<1>14. ASSUME NEW l, NEW g, Lists(l, g), NEW n \in FieldNames(type) \cap DOMAIN g,
              ~ (D(T(n), g[n]) /\ V(T(n), G(T(n), g[n])))
       PROVE  ~ (Reads(Object(l)) /\ Fine(Back(Object(l))))
  <2>1. PICK k \in DOMAIN type.of : type.of[k].name = n /\ type.of[k].type = T(n)
    BY <1>11
  <2>2. Reads(Object(l)) => D(T(n), g[n])
    BY <2>1, <1>4, <1>14
  <2>3. n \in DOMAIN Back(Object(l)) /\ Back(Object(l))[n] = G(T(n), g[n])
    BY <1>4, <1>14
  <2>4. Fine(Back(Object(l))) => V(T(n), G(T(n), g[n]))
    BY <2>1, <2>3, <1>5
  <2> QED
    BY <2>2, <2>4, <1>14
<1>15. FieldNames(type) \cap DOMAIN value = DOMAIN value /\ "newer" \notin FieldNames(type)
  BY <1>1 DEF HasFields
<1>16. Reads(Object(m)) /\ Back(Object(m)) = value
  BY <1>2, <1>8, <1>9, <1>10, <1>13, <1>15
<1>17. ASSUME NEW v \in Variants1(type, Object(m))
       PROVE  IF v.harm THEN ~ (Reads(v.body) /\ Fine(Back(v.body)))
              ELSE Reads(v.body) /\ Back(v.body) = value
  <2>1. CASE v.body = Object(<<<<"newer", Null>>>> \o m) /\ ~ v.harm
    <3> DEFINE g == With(f, "newer", Null)
    <3>1. Lists(<<<<"newer", Null>>>> \o m, g)
      BY <1>1, <1>8, <1>10, <1>15, NewerLists
    <3>2. /\ FieldNames(type) \cap DOMAIN g = DOMAIN value
          /\ \A n \in DOMAIN value : g[n] = f[n]
      BY <1>1, <1>10, <1>15 DEF With
    <3> HIDE DEF g
    <3> QED
      BY <2>1, <3>1, <3>2, <1>2, <1>9, <1>13
  <2>2. CASE v.body = Object(Reverse(m)) /\ ~ v.harm
    <3>1. Lists(Reverse(m), f)
      BY <1>8, ReversedLists
    <3> QED
      BY <2>2, <3>1, <1>2, <1>9, <1>10, <1>13, <1>15
  <2>3. ASSUME NEW i \in DOMAIN m, v.body = Object(RemoveAt(m, i)), v.harm,
               NEW k \in DOMAIN type.of, type.of[k].name = m[i][1], type.of[k].required
        PROVE  ~ Reads(v.body)
    <3>1. Lists(RemoveAt(m, i), Without(f, m[i][1]))
      BY <1>8, RemovedLists
    <3>2. m[i][1] \notin DOMAIN Without(f, m[i][1])
      BY DEF Without
    <3> QED
      BY <2>3, <3>1, <3>2, <1>4
  <2>4. ASSUME NEW i \in DOMAIN m, NEW x
        PROVE  /\ Lists([m EXCEPT ![i] = <<m[i][1], x>>], With(f, m[i][1], x))
               /\ m[i][1] \in DOMAIN value /\ m[i][2] = E(T(m[i][1]), value[m[i][1]])
               /\ m[i][1] \in FieldNames(type) \cap DOMAIN With(f, m[i][1], x)
               /\ FieldNames(type) \cap DOMAIN With(f, m[i][1], x) = DOMAIN value
               /\ With(f, m[i][1], x)[m[i][1]] = x
               /\ \A n \in DOMAIN value : n # m[i][1] => With(f, m[i][1], x)[n] = f[n]
    <3>1. m[i][1] \in DOMAIN f /\ m[i][2] = f[m[i][1]]
      BY <1>8, ListedMembers
    <3>2. Lists([m EXCEPT ![i] = <<m[i][1], x>>], With(f, m[i][1], x))
      BY <1>8, ReplacedLists
    <3> QED
      BY <3>1, <3>2, <1>1, <1>9, <1>10 DEF With
  <2>5. ASSUME NEW i \in DOMAIN m, v.body = Object([m EXCEPT ![i] = <<m[i][1], Null>>]), v.harm
        PROVE  ~ (Reads(v.body) /\ Fine(Back(v.body)))
    <3> DEFINE g == With(f, m[i][1], Null)
               l == [m EXCEPT ![i] = <<m[i][1], Null>>]
    <3>1. /\ Lists(l, g) /\ m[i][1] \in DOMAIN value
          /\ m[i][1] \in FieldNames(type) \cap DOMAIN g /\ g[m[i][1]] = Null
      BY <2>4
    <3>2. ~ D(T(m[i][1]), g[m[i][1]])
      BY <3>1, <1>2
    <3> HIDE DEF g, l
    <3>3. ~ (Reads(Object(l)) /\ Fine(Back(Object(l))))
      BY <3>1, <3>2, <1>14
    <3> QED
      BY <2>5, <3>3 DEF l
  <2>6. ASSUME NEW i \in DOMAIN m, NEW w \in A(T(m[i][1]), m[i][2]),
               v.body = Object([m EXCEPT ![i] = <<m[i][1], w.body>>]), v.harm = w.harm
        PROVE  IF v.harm THEN ~ (Reads(v.body) /\ Fine(Back(v.body)))
               ELSE Reads(v.body) /\ Back(v.body) = value
    <3>0. PICK body : body = w.body
      OBVIOUS
    <3> DEFINE name == m[i][1]
               g == With(f, m[i][1], body)
               l == [m EXCEPT ![i] = <<m[i][1], body>>]
    <3>1. /\ Lists(l, g) /\ name \in DOMAIN value /\ m[i][2] = E(T(name), value[name])
          /\ name \in FieldNames(type) \cap DOMAIN g /\ g[name] = body
          /\ FieldNames(type) \cap DOMAIN g = DOMAIN value
          /\ \A n \in DOMAIN value : n # name => g[n] = f[n]
      BY <2>4
    <3>2. v.body = Object(l) /\ w \in A(T(name), m[i][2])
      BY <2>6, <3>0
    <3> HIDE DEF name, g, l
    <3>3. IF w.harm THEN ~ (D(T(name), body) /\ V(T(name), G(T(name), body)))
          ELSE D(T(name), body) /\ G(T(name), body) = value[name]
      BY <3>0, <3>1, <3>2, <1>2
    <3>4. CASE w.harm
      <4>1. ~ (Reads(Object(l)) /\ Fine(Back(Object(l))))
        BY <3>1, <3>3, <3>4, <1>14
      <4> QED
        BY <2>6, <3>2, <3>4, <4>1
    <3>5. CASE ~ w.harm
      <4>1. \A n \in DOMAIN value : D(T(n), g[n]) /\ G(T(n), g[n]) = value[n]
        BY <3>1, <3>3, <3>5, <1>2, <1>9
      <4>2. Reads(Object(l)) /\ Back(Object(l)) = value
        BY <3>1, <4>1, <1>13
      <4> QED
        BY <2>6, <3>2, <3>5, <4>2
    <3> QED
      BY <3>4, <3>5
  <2> QED
    BY <1>7, <2>1, <2>2, <2>3, <2>5, <2>6
<1> QED
  BY <1>3, <1>6, <1>16, <1>17 DEF UnderstoodStruct1, Reads, Back, Fine

(* Level 2: fields, then structs.                                          *)
UnderstoodField2(type, value) ==
  LET json == EncodeField(Encode1, type, value)
      Reads(j)   == DecodesField(Decodes1, type, j) /\ DecodeField(Decode1, type, j) = value
      Refuses(j) == ~ (/\ DecodesField(Decodes1, type, j)
                       /\ ValidField(Valid1, type, DecodeField(Decode1, type, j)))
  IN  /\ Reads(json) /\ ~ DecodesField(Decodes1, type, Null)
      /\ \A v \in VariantsField(Variants1, type, json) :
           IF v.harm THEN Refuses(v.body) ELSE Reads(v.body)

(* A field of a struct that may hold structs of level 1.                   *)
LEMMA FieldUnderstood2 ==
  ASSUME NEW type, NEW value, FitsField(Fits1, type, value)
  PROVE  UnderstoodField2(type, value)
<1> DEFINE E(t, x) == EncodeOne(Encode1, t, x)
           D(t, j) == DecodesOne(Decodes1, t, j)
           G(t, j) == DecodeOne(Decode1, t, j)
           V(t, x) == ValidOne(Valid1, t, x)
           A(t, j) == VariantsOne(Variants1, t, j)
           Understood(t, x) ==
             /\ D(t, E(t, x)) /\ G(t, E(t, x)) = x /\ ~ D(t, Null)
             /\ \A v \in A(t, E(t, x)) :
                  IF v.harm THEN ~ (D(t, v.body) /\ V(t, G(t, v.body)))
                  ELSE D(t, v.body) /\ G(t, v.body) = x
<1>1. ASSUME NEW t, NEW x, FitsOne(Fits1, t, x) PROVE Understood(t, x)
  <2>1. CASE t.kind = "object"
    BY <1>1, <2>1, StructUnderstood1
       DEF FitsOne, UnderstoodStruct1, EncodeOne, DecodesOne, DecodeOne, ValidOne, VariantsOne
  <2>2. CASE t.kind # "object"
    <3>1. UnderstoodLeaf(t, x)
      BY <1>1, <2>2, LeafUnderstood DEF FitsOne
    <3> QED
      BY <3>1, <2>2 DEF UnderstoodLeaf, EncodeOne, DecodesOne, DecodeOne, ValidOne, VariantsOne
  <2> QED
    BY <2>1, <2>2
<1>2. CASE type.kind # "list"
  <2>1. Understood(type, value)
    BY <1>1, <1>2 DEF FitsField
  <2> QED
    BY <2>1, <1>2 DEF UnderstoodField2, EncodeField, DecodesField, DecodeField,
                      ValidField, VariantsField
<1>3. CASE type.kind = "list"
  <2> DEFINE e == [i \in DOMAIN value |-> E(type.of, value[i])]
             json == <<"array", e>>
             Reads(j)   == j[1] = "array" /\ (\A i \in DOMAIN j[2] : D(type.of, j[2][i]))
             Back(j)    == [i \in DOMAIN j[2] |-> G(type.of, j[2][i])]
             Fine(x)    == \A i \in DOMAIN x : V(type.of, x[i])
             Other(i, body) == <<"array", [e EXCEPT ![i] = body]>>
  <2>1. \A i \in DOMAIN value : Understood(type.of, value[i])
    BY <1>1, <1>3 DEF FitsField
  <2>2. value = [i \in DOMAIN value |-> value[i]]
    BY <1>3 DEF FitsField
  <2>3. /\ EncodeField(Encode1, type, value) = json
        /\ \A j : DecodesField(Decodes1, type, j) <=> Reads(j)
        /\ \A j : DecodeField(Decode1, type, j) = Back(j)
        /\ \A x : ValidField(Valid1, type, x) <=> Fine(x)
    BY <1>3 DEF EncodeField, DecodesField, DecodeField, ValidField
  <2>4. ASSUME NEW v \in VariantsField(Variants1, type, json)
        PROVE  \E i \in DOMAIN value : \E w \in A(type.of, e[i]) :
                 v.body = Other(i, w.body) /\ v.harm = w.harm
    <3> DEFINE Altered(i, w) ==
                 [body |-> <<"array", [json[2] EXCEPT ![i] = w.body]>>, harm |-> w.harm]
               Those(i) == { Altered(i, w) : w \in A(type.of, json[2][i]) }
    <3>1. VariantsField(Variants1, type, json) = UNION { Those(i) : i \in DOMAIN json[2] }
      BY <1>3, Zenon DEF VariantsField
    <3>2. json[2] = e /\ DOMAIN e = DOMAIN value
      OBVIOUS
    <3> HIDE DEF json, e, A, Those
    <3>3. PICK i \in DOMAIN value : v \in Those(i)
      BY <2>4, <3>1, <3>2
    <3>4. PICK w \in A(type.of, e[i]) : v = Altered(i, w)
      BY <3>2, <3>3 DEF Those
    <3>5. v.body = Other(i, w.body) /\ v.harm = w.harm
      BY <3>2, <3>4
    <3> QED
      BY <3>5
  <2> HIDE DEF E, D, G, V, A
  <2>5. Reads(json) /\ Back(json) = value
    <3>1. DOMAIN e = DOMAIN value /\ \A i \in DOMAIN value : e[i] = E(type.of, value[i])
      OBVIOUS
    <3>2. json[1] = "array" /\ json[2] = e
      OBVIOUS
    <3> HIDE DEF e, json
    <3>3. Reads(json)
      BY <2>1, <3>1, <3>2
    <3>4. Back(json) = [i \in DOMAIN value |-> value[i]]
      BY <2>1, <3>1, <3>2
    <3> QED
      BY <2>2, <3>3, <3>4
  <2>6. ~ Reads(Null)
    BY DEF Null
  <2>7. ASSUME NEW i \in DOMAIN value, NEW w \in A(type.of, e[i])
        PROVE  IF w.harm THEN ~ (Reads(Other(i, w.body)) /\ Fine(Back(Other(i, w.body))))
               ELSE Reads(Other(i, w.body)) /\ Back(Other(i, w.body)) = value
    <3> DEFINE o == Other(i, w.body)
    <3>1. /\ o[1] = "array" /\ DOMAIN o[2] = DOMAIN value /\ o[2][i] = w.body
          /\ \A k \in DOMAIN value : k # i => o[2][k] = E(type.of, value[k])
      OBVIOUS
    <3>2. w \in A(type.of, E(type.of, value[i]))
      OBVIOUS
    <3> HIDE DEF e, json, Other
    <3>3. CASE w.harm
      <4>1. ~ (D(type.of, w.body) /\ V(type.of, G(type.of, w.body)))
        BY <2>1, <3>2, <3>3
      <4>2. DOMAIN Back(o) = DOMAIN value /\ Back(o)[i] = G(type.of, w.body)
        BY <3>1
      <4> HIDE DEF Back
      <4>3. Reads(o) => D(type.of, w.body)
        BY <3>1
      <4>4. Fine(Back(o)) => V(type.of, G(type.of, w.body))
        BY <4>2
      <4> QED
        BY <3>3, <4>1, <4>3, <4>4
    <3>4. CASE ~ w.harm
      <4>1. D(type.of, w.body) /\ G(type.of, w.body) = value[i]
        BY <2>1, <3>2, <3>4
      <4>2. \A k \in DOMAIN value : D(type.of, o[2][k]) /\ G(type.of, o[2][k]) = value[k]
        BY <2>1, <3>1, <4>1
      <4>3. Reads(o)
        BY <3>1, <4>2
      <4>4. Back(o) = [k \in DOMAIN value |-> value[k]]
        BY <3>1, <4>2
      <4> QED
        BY <2>2, <3>4, <4>3, <4>4
    <3> QED
      BY <3>3, <3>4
  <2>8. ASSUME NEW v \in VariantsField(Variants1, type, json)
        PROVE  IF v.harm THEN ~ (Reads(v.body) /\ Fine(Back(v.body)))
               ELSE Reads(v.body) /\ Back(v.body) = value
    <3>1. PICK i \in DOMAIN value : \E w \in A(type.of, e[i]) :
             v.body = Other(i, w.body) /\ v.harm = w.harm
      BY <2>4
    <3>2. PICK w \in A(type.of, e[i]) : v.body = Other(i, w.body) /\ v.harm = w.harm
      BY <3>1
    <3> HIDE DEF Reads, Fine, Back, Other, e, json
    <3> QED
      BY <3>2, <2>7
  <2> HIDE DEF Reads, Fine, Back, Other, e, json
  <2> QED
    BY <2>3, <2>5, <2>6, <2>8 DEF UnderstoodField2
<1> QED
  BY <1>2, <1>3

UnderstoodStruct2(type, value) ==
  LET json == Encode2(type, value)
      Reads(j)   == Decodes2(type, j) /\ Decode2(type, j) = value
      Refuses(j) == ~ (Decodes2(type, j) /\ Valid2(type, Decode2(type, j)))
  IN  /\ Reads(json) /\ ~ Decodes2(type, Null)
      /\ \A v \in Variants2(type, json) :
           IF v.harm THEN Refuses(v.body) ELSE Reads(v.body)

(* A struct of such fields is understood.                                  *)
LEMMA StructUnderstood2 ==
  ASSUME NEW type, NEW value, Fits2(type, value)
  PROVE  UnderstoodStruct2(type, value)
<1> DEFINE E(t, x) == EncodeField(Encode1, t, x)
           D(t, j) == DecodesField(Decodes1, t, j)
           G(t, j) == DecodeField(Decode1, t, j)
           V(t, x) == ValidField(Valid1, t, x)
           A(t, j) == VariantsField(Variants1, t, j)
           T(n)    == TypeOf(type, n)
           Understood(t, x) ==
             /\ D(t, E(t, x)) /\ G(t, E(t, x)) = x /\ ~ D(t, Null)
             /\ \A v \in A(t, E(t, x)) :
                  IF v.harm THEN ~ (D(t, v.body) /\ V(t, G(t, v.body)))
                  ELSE D(t, v.body) /\ G(t, v.body) = x
           f   == [n \in DOMAIN value |-> E(T(n), value[n])]
           set == SetFields(type, value)
           m   == [i \in DOMAIN set |->
                     <<set[i].name, E(set[i].type, value[set[i].name])>>]
           Object(l) == <<"object", l>>
           Reads(j)  == Decodes2(type, j)
           Back(j)   == Decode2(type, j)
           Fine(x)   == Valid2(type, x)
<1>1. /\ HasFields(type) /\ value = [n \in DOMAIN value |-> value[n]]
      /\ DOMAIN value \subseteq FieldNames(type)
      /\ \A k \in DOMAIN type.of : type.of[k].required => type.of[k].name \in DOMAIN value
  BY DEF Fits2, FitsStruct
<1>2. ASSUME NEW n \in DOMAIN value PROVE Understood(T(n), value[n])
  <2>1. UnderstoodField2(T(n), value[n])
    BY FieldUnderstood2 DEF Fits2, FitsStruct
  <2> QED
    BY <2>1 DEF UnderstoodField2
<1>3. Encode2(type, value) = Object(m)
  BY DEF Encode2, EncodeStruct
<1>4. ASSUME NEW l, NEW g, Lists(l, g)
      PROVE  /\ Reads(Object(l)) <=>
                  \A k \in DOMAIN type.of :
                    /\ type.of[k].required => type.of[k].name \in DOMAIN g
                    /\ type.of[k].name \in DOMAIN g =>
                         D(type.of[k].type, g[type.of[k].name])
             /\ DOMAIN Back(Object(l)) = FieldNames(type) \cap DOMAIN g
             /\ \A n \in FieldNames(type) \cap DOMAIN g : Back(Object(l))[n] = G(T(n), g[n])
             /\ Back(Object(l)) = [n \in DOMAIN Back(Object(l)) |-> Back(Object(l))[n]]
  <2> DEFINE j == Object(l)
  <2>1. /\ Members(j) = l /\ Names(j) = DOMAIN g /\ j[1] = "object"
        /\ \A n \in DOMAIN g : LastOf(j, n) = g[n]
    BY <1>4, ListedObject
  <2>2. /\ \A i \in DOMAIN l : l[i][1] \in DOMAIN g /\ l[i][2] = g[l[i][1]]
        /\ \A n \in DOMAIN g : \E i \in DOMAIN l : l[i][1] = n
    BY <1>4, ListedMembers
  <2> HIDE DEF j, D, G, T
  <2>3. Reads(j) <=> \A k \in DOMAIN type.of :
          /\ type.of[k].required => type.of[k].name \in DOMAIN g
          /\ \A i \in DOMAIN l : l[i][1] = type.of[k].name => D(type.of[k].type, l[i][2])
    BY <2>1 DEF Decodes2, DecodesStruct, D
  <2>4. \A k \in DOMAIN type.of :
          (\A i \in DOMAIN l : l[i][1] = type.of[k].name => D(type.of[k].type, l[i][2]))
            <=> (type.of[k].name \in DOMAIN g => D(type.of[k].type, g[type.of[k].name]))
    BY <2>2
  <2>5. Back(j) = [n \in FieldNames(type) \cap DOMAIN g |-> G(T(n), LastOf(j, n))]
    BY <2>1 DEF Decode2, DecodeStruct, G, T, FieldNames
  <2>6. /\ DOMAIN Back(j) = FieldNames(type) \cap DOMAIN g
        /\ \A n \in FieldNames(type) \cap DOMAIN g : Back(j)[n] = G(T(n), g[n])
        /\ Back(j) = [n \in DOMAIN Back(j) |-> Back(j)[n]]
    <3> HIDE DEF Back
    <3> QED
      BY <2>1, <2>5
  <2> QED
    BY <2>3, <2>4, <2>6 DEF j
<1>5. \A x : Fine(x) <=> \A k \in DOMAIN type.of :
        type.of[k].name \in DOMAIN x => V(type.of[k].type, x[type.of[k].name])
  BY DEF Valid2, ValidStruct
<1>6. ~ Reads(Null)
  BY DEF Decodes2, DecodesStruct, Null
<1>7. ASSUME NEW v \in Variants2(type, Object(m))
      PROVE  \/ v.body = Object(<<<<"newer", Null>>>> \o m) /\ ~ v.harm
             \/ v.body = Object(Reverse(m)) /\ ~ v.harm
             \/ \E i \in DOMAIN m :
                  /\ \E k \in DOMAIN type.of : type.of[k].name = m[i][1] /\ type.of[k].required
                  /\ v.body = Object(RemoveAt(m, i)) /\ v.harm
             \/ \E i \in DOMAIN m :
                  v.body = Object([m EXCEPT ![i] = <<m[i][1], Null>>]) /\ v.harm
             \/ \E i \in DOMAIN m : \E w \in A(T(m[i][1]), m[i][2]) :
                  v.body = Object([m EXCEPT ![i] = <<m[i][1], w.body>>]) /\ v.harm = w.harm
  <2> HIDE DEF m
  <2> DEFINE IsRequired(n) == \E k \in DOMAIN type.of : type.of[k].name = n /\ type.of[k].required
             Changed(l, i, body, harm) ==
               [body |-> Object([l EXCEPT ![i] = <<l[i][1], body>>]), harm |-> harm]
             Other(i, body, harm) == Changed(m, i, body, harm)
             New == [body |-> Object(<<<<"newer", Null>>>> \o m), harm |-> FALSE]
             Rev == [body |-> Object(Reverse(m)), harm |-> FALSE]
             Less(i) == [body |-> Object(RemoveAt(m, i)), harm |-> TRUE]
             Removed == { Less(i) : i \in { i \in DOMAIN m : IsRequired(m[i][1]) } }
             Nulled == { Other(i, Null, TRUE) : i \in DOMAIN m }
             Below(i) == { Other(i, w.body, w.harm) : w \in A(T(m[i][1]), m[i][2]) }
             All(l) ==
               { [body |-> Object(<<<<"newer", Null>>>> \o l), harm |-> FALSE],
                 [body |-> Object(Reverse(l)), harm |-> FALSE] }
               \cup { [body |-> Object(RemoveAt(l, i)), harm |-> TRUE] :
                        i \in { i \in DOMAIN l : IsRequired(l[i][1]) } }
               \cup { Changed(l, i, Null, TRUE) : i \in DOMAIN l }
               \cup UNION { { Changed(l, i, w.body, w.harm) : w \in A(T(l[i][1]), l[i][2]) } :
                              i \in DOMAIN l }
  <2>1. Members(Object(m)) = m
    BY DEF Members
  <2>2. Variants2(type, Object(m)) = {New, Rev} \cup Removed \cup Nulled \cup UNION { Below(i) : i \in DOMAIN m }
    <3>1. Variants2(type, Object(m)) = All(Members(Object(m)))
      BY Zenon DEF Variants2, VariantsStruct
    <3>2. All(m) = {New, Rev} \cup Removed \cup Nulled \cup UNION { Below(i) : i \in DOMAIN m }
      BY Zenon
    <3> HIDE DEF All, New, Rev, Removed, Nulled, Below, Object
    <3> QED
      BY <2>1, <3>1, <3>2
  <2>3. \A i \in DOMAIN m : \A b, h : Other(i, b, h).body =
          Object([m EXCEPT ![i] = <<m[i][1], b>>]) /\ Other(i, b, h).harm = h
    OBVIOUS
  <2>4. New.body = Object(<<<<"newer", Null>>>> \o m) /\ New.harm = FALSE
    OBVIOUS
  <2>5. Rev.body = Object(Reverse(m)) /\ Rev.harm = FALSE
    OBVIOUS
  <2>6. \A i \in DOMAIN m : Less(i).body = Object(RemoveAt(m, i)) /\ Less(i).harm = TRUE
    OBVIOUS
  <2> HIDE DEF New, Rev, Less, Other, A, T, IsRequired, Object
  <2>7. CASE v \in {New, Rev}
    BY <2>7, <2>4, <2>5
  <2>8. CASE v \in Removed
    <3>1. PICK i \in DOMAIN m : IsRequired(m[i][1]) /\ v = Less(i)
      BY <2>8
    <3> QED
      BY <3>1, <2>6 DEF IsRequired
  <2>9. CASE v \in Nulled
    <3>1. PICK i \in DOMAIN m : v = Other(i, Null, TRUE)
      BY <2>9
    <3>2. v.body = Object([m EXCEPT ![i] = <<m[i][1], Null>>]) /\ v.harm
      BY <3>1, <2>3
    <3> QED
      BY <3>2
  <2>10. CASE v \in UNION { Below(i) : i \in DOMAIN m }
    <3>1. PICK i \in DOMAIN m : v \in Below(i)
      BY <2>10
    <3>2. PICK w \in A(T(m[i][1]), m[i][2]) : v = Other(i, w.body, w.harm)
      BY <3>1
    <3>3. v.body = Object([m EXCEPT ![i] = <<m[i][1], w.body>>]) /\ v.harm = w.harm
      BY <3>2, <2>3
    <3> QED
      BY <3>3
  <2> HIDE DEF Removed, Nulled, Below
  <2> QED
    BY <1>7, <2>2, <2>7, <2>8, <2>9, <2>10
<1> HIDE DEF E, D, G, V, A
<1>8. Lists(m, f)
  <2>1. \A i \in DOMAIN set : /\ set[i].name \in DOMAIN value
                              /\ T(set[i].name) = set[i].type
    BY <1>1, SetFieldsTypes
  <2> HIDE DEF set, T
  <2>2. m = [i \in DOMAIN set |-> <<set[i].name, f[set[i].name]>>]
    BY <2>1
  <2>3. DOMAIN f = DOMAIN value
    OBVIOUS
  <2> HIDE DEF f, m
  <2> QED
    BY <1>1, <2>2, <2>3, WrittenLists DEF set
<1>9. \A n \in DOMAIN value : f[n] = E(T(n), value[n])
  OBVIOUS
<1>10. DOMAIN f = DOMAIN value
  OBVIOUS
<1>11. \A n \in FieldNames(type) : \E k \in DOMAIN type.of :
         type.of[k].name = n /\ type.of[k].type = T(n)
  BY <1>1, TypeOfField DEF FieldNames
<1>12. \A k \in DOMAIN type.of : /\ type.of[k].name \in FieldNames(type)
                                 /\ type.of[k].type = T(type.of[k].name)
  BY <1>1, TypeOfField DEF FieldNames
<1> HIDE DEF f, m, set, T, Object, Reads, Back, Fine
<1>13. ASSUME NEW l, NEW g, Lists(l, g), FieldNames(type) \cap DOMAIN g = DOMAIN value,
              \A n \in DOMAIN value : D(T(n), g[n]) /\ G(T(n), g[n]) = value[n]
       PROVE  Reads(Object(l)) /\ Back(Object(l)) = value
  <2>1. Reads(Object(l))
    <3>1. \A k \in DOMAIN type.of :
            /\ type.of[k].required => type.of[k].name \in DOMAIN g
            /\ type.of[k].name \in DOMAIN g => D(type.of[k].type, g[type.of[k].name])
      BY <1>1, <1>12, <1>13
    <3> QED
      BY <3>1, <1>4, <1>13
  <2>2. /\ DOMAIN Back(Object(l)) = DOMAIN value
        /\ \A n \in DOMAIN value : Back(Object(l))[n] = value[n]
        /\ Back(Object(l)) = [n \in DOMAIN Back(Object(l)) |-> Back(Object(l))[n]]
    BY <1>4, <1>13
  <2>3. Back(Object(l)) = [n \in DOMAIN value |-> value[n]]
    BY <2>2
  <2> QED
    BY <2>1, <2>3, <1>1
<1>14. ASSUME NEW l, NEW g, Lists(l, g), NEW n \in FieldNames(type) \cap DOMAIN g,
              ~ (D(T(n), g[n]) /\ V(T(n), G(T(n), g[n])))
       PROVE  ~ (Reads(Object(l)) /\ Fine(Back(Object(l))))
  <2>1. PICK k \in DOMAIN type.of : type.of[k].name = n /\ type.of[k].type = T(n)
    BY <1>11
  <2>2. Reads(Object(l)) => D(T(n), g[n])
    BY <2>1, <1>4, <1>14
  <2>3. n \in DOMAIN Back(Object(l)) /\ Back(Object(l))[n] = G(T(n), g[n])
    BY <1>4, <1>14
  <2>4. Fine(Back(Object(l))) => V(T(n), G(T(n), g[n]))
    BY <2>1, <2>3, <1>5
  <2> QED
    BY <2>2, <2>4, <1>14
<1>15. FieldNames(type) \cap DOMAIN value = DOMAIN value /\ "newer" \notin FieldNames(type)
  BY <1>1 DEF HasFields
<1>16. Reads(Object(m)) /\ Back(Object(m)) = value
  BY <1>2, <1>8, <1>9, <1>10, <1>13, <1>15
<1>17. ASSUME NEW v \in Variants2(type, Object(m))
       PROVE  IF v.harm THEN ~ (Reads(v.body) /\ Fine(Back(v.body)))
              ELSE Reads(v.body) /\ Back(v.body) = value
  <2>1. CASE v.body = Object(<<<<"newer", Null>>>> \o m) /\ ~ v.harm
    <3> DEFINE g == With(f, "newer", Null)
    <3>1. Lists(<<<<"newer", Null>>>> \o m, g)
      BY <1>1, <1>8, <1>10, <1>15, NewerLists
    <3>2. /\ FieldNames(type) \cap DOMAIN g = DOMAIN value
          /\ \A n \in DOMAIN value : g[n] = f[n]
      BY <1>1, <1>10, <1>15 DEF With
    <3> HIDE DEF g
    <3> QED
      BY <2>1, <3>1, <3>2, <1>2, <1>9, <1>13
  <2>2. CASE v.body = Object(Reverse(m)) /\ ~ v.harm
    <3>1. Lists(Reverse(m), f)
      BY <1>8, ReversedLists
    <3> QED
      BY <2>2, <3>1, <1>2, <1>9, <1>10, <1>13, <1>15
  <2>3. ASSUME NEW i \in DOMAIN m, v.body = Object(RemoveAt(m, i)), v.harm,
               NEW k \in DOMAIN type.of, type.of[k].name = m[i][1], type.of[k].required
        PROVE  ~ Reads(v.body)
    <3>1. Lists(RemoveAt(m, i), Without(f, m[i][1]))
      BY <1>8, RemovedLists
    <3>2. m[i][1] \notin DOMAIN Without(f, m[i][1])
      BY DEF Without
    <3> QED
      BY <2>3, <3>1, <3>2, <1>4
  <2>4. ASSUME NEW i \in DOMAIN m, NEW x
        PROVE  /\ Lists([m EXCEPT ![i] = <<m[i][1], x>>], With(f, m[i][1], x))
               /\ m[i][1] \in DOMAIN value /\ m[i][2] = E(T(m[i][1]), value[m[i][1]])
               /\ m[i][1] \in FieldNames(type) \cap DOMAIN With(f, m[i][1], x)
               /\ FieldNames(type) \cap DOMAIN With(f, m[i][1], x) = DOMAIN value
               /\ With(f, m[i][1], x)[m[i][1]] = x
               /\ \A n \in DOMAIN value : n # m[i][1] => With(f, m[i][1], x)[n] = f[n]
    <3>1. m[i][1] \in DOMAIN f /\ m[i][2] = f[m[i][1]]
      BY <1>8, ListedMembers
    <3>2. Lists([m EXCEPT ![i] = <<m[i][1], x>>], With(f, m[i][1], x))
      BY <1>8, ReplacedLists
    <3> QED
      BY <3>1, <3>2, <1>1, <1>9, <1>10 DEF With
  <2>5. ASSUME NEW i \in DOMAIN m, v.body = Object([m EXCEPT ![i] = <<m[i][1], Null>>]), v.harm
        PROVE  ~ (Reads(v.body) /\ Fine(Back(v.body)))
    <3> DEFINE g == With(f, m[i][1], Null)
               l == [m EXCEPT ![i] = <<m[i][1], Null>>]
    <3>1. /\ Lists(l, g) /\ m[i][1] \in DOMAIN value
          /\ m[i][1] \in FieldNames(type) \cap DOMAIN g /\ g[m[i][1]] = Null
      BY <2>4
    <3>2. ~ D(T(m[i][1]), g[m[i][1]])
      BY <3>1, <1>2
    <3> HIDE DEF g, l
    <3>3. ~ (Reads(Object(l)) /\ Fine(Back(Object(l))))
      BY <3>1, <3>2, <1>14
    <3> QED
      BY <2>5, <3>3 DEF l
  <2>6. ASSUME NEW i \in DOMAIN m, NEW w \in A(T(m[i][1]), m[i][2]),
               v.body = Object([m EXCEPT ![i] = <<m[i][1], w.body>>]), v.harm = w.harm
        PROVE  IF v.harm THEN ~ (Reads(v.body) /\ Fine(Back(v.body)))
               ELSE Reads(v.body) /\ Back(v.body) = value
    <3>0. PICK body : body = w.body
      OBVIOUS
    <3> DEFINE name == m[i][1]
               g == With(f, m[i][1], body)
               l == [m EXCEPT ![i] = <<m[i][1], body>>]
    <3>1. /\ Lists(l, g) /\ name \in DOMAIN value /\ m[i][2] = E(T(name), value[name])
          /\ name \in FieldNames(type) \cap DOMAIN g /\ g[name] = body
          /\ FieldNames(type) \cap DOMAIN g = DOMAIN value
          /\ \A n \in DOMAIN value : n # name => g[n] = f[n]
      BY <2>4
    <3>2. v.body = Object(l) /\ w \in A(T(name), m[i][2])
      BY <2>6, <3>0
    <3> HIDE DEF name, g, l
    <3>3. IF w.harm THEN ~ (D(T(name), body) /\ V(T(name), G(T(name), body)))
          ELSE D(T(name), body) /\ G(T(name), body) = value[name]
      BY <3>0, <3>1, <3>2, <1>2
    <3>4. CASE w.harm
      <4>1. ~ (Reads(Object(l)) /\ Fine(Back(Object(l))))
        BY <3>1, <3>3, <3>4, <1>14
      <4> QED
        BY <2>6, <3>2, <3>4, <4>1
    <3>5. CASE ~ w.harm
      <4>1. \A n \in DOMAIN value : D(T(n), g[n]) /\ G(T(n), g[n]) = value[n]
        BY <3>1, <3>3, <3>5, <1>2, <1>9
      <4>2. Reads(Object(l)) /\ Back(Object(l)) = value
        BY <3>1, <4>1, <1>13
      <4> QED
        BY <2>6, <3>2, <3>5, <4>2
    <3> QED
      BY <3>4, <3>5
  <2> QED
    BY <1>7, <2>1, <2>2, <2>3, <2>5, <2>6
<1> QED
  BY <1>3, <1>6, <1>16, <1>17 DEF UnderstoodStruct2, Reads, Back, Fine

(* Level 3: fields, then structs.                                          *)
UnderstoodField3(type, value) ==
  LET json == EncodeField(Encode2, type, value)
      Reads(j)   == DecodesField(Decodes2, type, j) /\ DecodeField(Decode2, type, j) = value
      Refuses(j) == ~ (/\ DecodesField(Decodes2, type, j)
                       /\ ValidField(Valid2, type, DecodeField(Decode2, type, j)))
  IN  /\ Reads(json) /\ ~ DecodesField(Decodes2, type, Null)
      /\ \A v \in VariantsField(Variants2, type, json) :
           IF v.harm THEN Refuses(v.body) ELSE Reads(v.body)

(* A field of a struct that may hold structs of level 2.                   *)
LEMMA FieldUnderstood3 ==
  ASSUME NEW type, NEW value, FitsField(Fits2, type, value)
  PROVE  UnderstoodField3(type, value)
<1> DEFINE E(t, x) == EncodeOne(Encode2, t, x)
           D(t, j) == DecodesOne(Decodes2, t, j)
           G(t, j) == DecodeOne(Decode2, t, j)
           V(t, x) == ValidOne(Valid2, t, x)
           A(t, j) == VariantsOne(Variants2, t, j)
           Understood(t, x) ==
             /\ D(t, E(t, x)) /\ G(t, E(t, x)) = x /\ ~ D(t, Null)
             /\ \A v \in A(t, E(t, x)) :
                  IF v.harm THEN ~ (D(t, v.body) /\ V(t, G(t, v.body)))
                  ELSE D(t, v.body) /\ G(t, v.body) = x
<1>1. ASSUME NEW t, NEW x, FitsOne(Fits2, t, x) PROVE Understood(t, x)
  <2>1. CASE t.kind = "object"
    BY <1>1, <2>1, StructUnderstood2
       DEF FitsOne, UnderstoodStruct2, EncodeOne, DecodesOne, DecodeOne, ValidOne, VariantsOne
  <2>2. CASE t.kind # "object"
    <3>1. UnderstoodLeaf(t, x)
      BY <1>1, <2>2, LeafUnderstood DEF FitsOne
    <3> QED
      BY <3>1, <2>2 DEF UnderstoodLeaf, EncodeOne, DecodesOne, DecodeOne, ValidOne, VariantsOne
  <2> QED
    BY <2>1, <2>2
<1>2. CASE type.kind # "list"
  <2>1. Understood(type, value)
    BY <1>1, <1>2 DEF FitsField
  <2> QED
    BY <2>1, <1>2 DEF UnderstoodField3, EncodeField, DecodesField, DecodeField,
                      ValidField, VariantsField
<1>3. CASE type.kind = "list"
  <2> DEFINE e == [i \in DOMAIN value |-> E(type.of, value[i])]
             json == <<"array", e>>
             Reads(j)   == j[1] = "array" /\ (\A i \in DOMAIN j[2] : D(type.of, j[2][i]))
             Back(j)    == [i \in DOMAIN j[2] |-> G(type.of, j[2][i])]
             Fine(x)    == \A i \in DOMAIN x : V(type.of, x[i])
             Other(i, body) == <<"array", [e EXCEPT ![i] = body]>>
  <2>1. \A i \in DOMAIN value : Understood(type.of, value[i])
    BY <1>1, <1>3 DEF FitsField
  <2>2. value = [i \in DOMAIN value |-> value[i]]
    BY <1>3 DEF FitsField
  <2>3. /\ EncodeField(Encode2, type, value) = json
        /\ \A j : DecodesField(Decodes2, type, j) <=> Reads(j)
        /\ \A j : DecodeField(Decode2, type, j) = Back(j)
        /\ \A x : ValidField(Valid2, type, x) <=> Fine(x)
    BY <1>3 DEF EncodeField, DecodesField, DecodeField, ValidField
  <2>4. ASSUME NEW v \in VariantsField(Variants2, type, json)
        PROVE  \E i \in DOMAIN value : \E w \in A(type.of, e[i]) :
                 v.body = Other(i, w.body) /\ v.harm = w.harm
    <3> DEFINE Altered(i, w) ==
                 [body |-> <<"array", [json[2] EXCEPT ![i] = w.body]>>, harm |-> w.harm]
               Those(i) == { Altered(i, w) : w \in A(type.of, json[2][i]) }
    <3>1. VariantsField(Variants2, type, json) = UNION { Those(i) : i \in DOMAIN json[2] }
      BY <1>3, Zenon DEF VariantsField
    <3>2. json[2] = e /\ DOMAIN e = DOMAIN value
      OBVIOUS
    <3> HIDE DEF json, e, A, Those
    <3>3. PICK i \in DOMAIN value : v \in Those(i)
      BY <2>4, <3>1, <3>2
    <3>4. PICK w \in A(type.of, e[i]) : v = Altered(i, w)
      BY <3>2, <3>3 DEF Those
    <3>5. v.body = Other(i, w.body) /\ v.harm = w.harm
      BY <3>2, <3>4
    <3> QED
      BY <3>5
  <2> HIDE DEF E, D, G, V, A
  <2>5. Reads(json) /\ Back(json) = value
    <3>1. DOMAIN e = DOMAIN value /\ \A i \in DOMAIN value : e[i] = E(type.of, value[i])
      OBVIOUS
    <3>2. json[1] = "array" /\ json[2] = e
      OBVIOUS
    <3> HIDE DEF e, json
    <3>3. Reads(json)
      BY <2>1, <3>1, <3>2
    <3>4. Back(json) = [i \in DOMAIN value |-> value[i]]
      BY <2>1, <3>1, <3>2
    <3> QED
      BY <2>2, <3>3, <3>4
  <2>6. ~ Reads(Null)
    BY DEF Null
  <2>7. ASSUME NEW i \in DOMAIN value, NEW w \in A(type.of, e[i])
        PROVE  IF w.harm THEN ~ (Reads(Other(i, w.body)) /\ Fine(Back(Other(i, w.body))))
               ELSE Reads(Other(i, w.body)) /\ Back(Other(i, w.body)) = value
    <3> DEFINE o == Other(i, w.body)
    <3>1. /\ o[1] = "array" /\ DOMAIN o[2] = DOMAIN value /\ o[2][i] = w.body
          /\ \A k \in DOMAIN value : k # i => o[2][k] = E(type.of, value[k])
      OBVIOUS
    <3>2. w \in A(type.of, E(type.of, value[i]))
      OBVIOUS
    <3> HIDE DEF e, json, Other
    <3>3. CASE w.harm
      <4>1. ~ (D(type.of, w.body) /\ V(type.of, G(type.of, w.body)))
        BY <2>1, <3>2, <3>3
      <4>2. DOMAIN Back(o) = DOMAIN value /\ Back(o)[i] = G(type.of, w.body)
        BY <3>1
      <4> HIDE DEF Back
      <4>3. Reads(o) => D(type.of, w.body)
        BY <3>1
      <4>4. Fine(Back(o)) => V(type.of, G(type.of, w.body))
        BY <4>2
      <4> QED
        BY <3>3, <4>1, <4>3, <4>4
    <3>4. CASE ~ w.harm
      <4>1. D(type.of, w.body) /\ G(type.of, w.body) = value[i]
        BY <2>1, <3>2, <3>4
      <4>2. \A k \in DOMAIN value : D(type.of, o[2][k]) /\ G(type.of, o[2][k]) = value[k]
        BY <2>1, <3>1, <4>1
      <4>3. Reads(o)
        BY <3>1, <4>2
      <4>4. Back(o) = [k \in DOMAIN value |-> value[k]]
        BY <3>1, <4>2
      <4> QED
        BY <2>2, <3>4, <4>3, <4>4
    <3> QED
      BY <3>3, <3>4
  <2>8. ASSUME NEW v \in VariantsField(Variants2, type, json)
        PROVE  IF v.harm THEN ~ (Reads(v.body) /\ Fine(Back(v.body)))
               ELSE Reads(v.body) /\ Back(v.body) = value
    <3>1. PICK i \in DOMAIN value : \E w \in A(type.of, e[i]) :
             v.body = Other(i, w.body) /\ v.harm = w.harm
      BY <2>4
    <3>2. PICK w \in A(type.of, e[i]) : v.body = Other(i, w.body) /\ v.harm = w.harm
      BY <3>1
    <3> HIDE DEF Reads, Fine, Back, Other, e, json
    <3> QED
      BY <3>2, <2>7
  <2> HIDE DEF Reads, Fine, Back, Other, e, json
  <2> QED
    BY <2>3, <2>5, <2>6, <2>8 DEF UnderstoodField3
<1> QED
  BY <1>2, <1>3

UnderstoodStruct3(type, value) ==
  LET json == Encode(type, value)
      Reads(j)   == Decodes(type, j) /\ Decode(type, j) = value
      Refuses(j) == ~ (Decodes(type, j) /\ Valid(type, Decode(type, j)))
  IN  /\ Reads(json) /\ ~ Decodes(type, Null)
      /\ \A v \in Variants(type, json) :
           IF v.harm THEN Refuses(v.body) ELSE Reads(v.body)

(* A struct of such fields is understood: every reply there is.            *)
LEMMA StructUnderstood3 ==
  ASSUME NEW type, NEW value, Fits(type, value)
  PROVE  UnderstoodStruct3(type, value)
<1> DEFINE E(t, x) == EncodeField(Encode2, t, x)
           D(t, j) == DecodesField(Decodes2, t, j)
           G(t, j) == DecodeField(Decode2, t, j)
           V(t, x) == ValidField(Valid2, t, x)
           A(t, j) == VariantsField(Variants2, t, j)
           T(n)    == TypeOf(type, n)
           Understood(t, x) ==
             /\ D(t, E(t, x)) /\ G(t, E(t, x)) = x /\ ~ D(t, Null)
             /\ \A v \in A(t, E(t, x)) :
                  IF v.harm THEN ~ (D(t, v.body) /\ V(t, G(t, v.body)))
                  ELSE D(t, v.body) /\ G(t, v.body) = x
           f   == [n \in DOMAIN value |-> E(T(n), value[n])]
           set == SetFields(type, value)
           m   == [i \in DOMAIN set |->
                     <<set[i].name, E(set[i].type, value[set[i].name])>>]
           Object(l) == <<"object", l>>
           Reads(j)  == Decodes(type, j)
           Back(j)   == Decode(type, j)
           Fine(x)   == Valid(type, x)
<1>1. /\ HasFields(type) /\ value = [n \in DOMAIN value |-> value[n]]
      /\ DOMAIN value \subseteq FieldNames(type)
      /\ \A k \in DOMAIN type.of : type.of[k].required => type.of[k].name \in DOMAIN value
  BY DEF Fits, FitsStruct
<1>2. ASSUME NEW n \in DOMAIN value PROVE Understood(T(n), value[n])
  <2>1. UnderstoodField3(T(n), value[n])
    BY FieldUnderstood3 DEF Fits, FitsStruct
  <2> QED
    BY <2>1 DEF UnderstoodField3
<1>3. Encode(type, value) = Object(m)
  BY DEF Encode, EncodeStruct
<1>4. ASSUME NEW l, NEW g, Lists(l, g)
      PROVE  /\ Reads(Object(l)) <=>
                  \A k \in DOMAIN type.of :
                    /\ type.of[k].required => type.of[k].name \in DOMAIN g
                    /\ type.of[k].name \in DOMAIN g =>
                         D(type.of[k].type, g[type.of[k].name])
             /\ DOMAIN Back(Object(l)) = FieldNames(type) \cap DOMAIN g
             /\ \A n \in FieldNames(type) \cap DOMAIN g : Back(Object(l))[n] = G(T(n), g[n])
             /\ Back(Object(l)) = [n \in DOMAIN Back(Object(l)) |-> Back(Object(l))[n]]
  <2> DEFINE j == Object(l)
  <2>1. /\ Members(j) = l /\ Names(j) = DOMAIN g /\ j[1] = "object"
        /\ \A n \in DOMAIN g : LastOf(j, n) = g[n]
    BY <1>4, ListedObject
  <2>2. /\ \A i \in DOMAIN l : l[i][1] \in DOMAIN g /\ l[i][2] = g[l[i][1]]
        /\ \A n \in DOMAIN g : \E i \in DOMAIN l : l[i][1] = n
    BY <1>4, ListedMembers
  <2> HIDE DEF j, D, G, T
  <2>3. Reads(j) <=> \A k \in DOMAIN type.of :
          /\ type.of[k].required => type.of[k].name \in DOMAIN g
          /\ \A i \in DOMAIN l : l[i][1] = type.of[k].name => D(type.of[k].type, l[i][2])
    BY <2>1 DEF Decodes, DecodesStruct, D
  <2>4. \A k \in DOMAIN type.of :
          (\A i \in DOMAIN l : l[i][1] = type.of[k].name => D(type.of[k].type, l[i][2]))
            <=> (type.of[k].name \in DOMAIN g => D(type.of[k].type, g[type.of[k].name]))
    BY <2>2
  <2>5. Back(j) = [n \in FieldNames(type) \cap DOMAIN g |-> G(T(n), LastOf(j, n))]
    BY <2>1 DEF Decode, DecodeStruct, G, T, FieldNames
  <2>6. /\ DOMAIN Back(j) = FieldNames(type) \cap DOMAIN g
        /\ \A n \in FieldNames(type) \cap DOMAIN g : Back(j)[n] = G(T(n), g[n])
        /\ Back(j) = [n \in DOMAIN Back(j) |-> Back(j)[n]]
    <3> HIDE DEF Back
    <3> QED
      BY <2>1, <2>5
  <2> QED
    BY <2>3, <2>4, <2>6 DEF j
<1>5. \A x : Fine(x) <=> \A k \in DOMAIN type.of :
        type.of[k].name \in DOMAIN x => V(type.of[k].type, x[type.of[k].name])
  BY DEF Valid, ValidStruct
<1>6. ~ Reads(Null)
  BY DEF Decodes, DecodesStruct, Null
<1>7. ASSUME NEW v \in Variants(type, Object(m))
      PROVE  \/ v.body = Object(<<<<"newer", Null>>>> \o m) /\ ~ v.harm
             \/ v.body = Object(Reverse(m)) /\ ~ v.harm
             \/ \E i \in DOMAIN m :
                  /\ \E k \in DOMAIN type.of : type.of[k].name = m[i][1] /\ type.of[k].required
                  /\ v.body = Object(RemoveAt(m, i)) /\ v.harm
             \/ \E i \in DOMAIN m :
                  v.body = Object([m EXCEPT ![i] = <<m[i][1], Null>>]) /\ v.harm
             \/ \E i \in DOMAIN m : \E w \in A(T(m[i][1]), m[i][2]) :
                  v.body = Object([m EXCEPT ![i] = <<m[i][1], w.body>>]) /\ v.harm = w.harm
  <2> HIDE DEF m
  <2> DEFINE IsRequired(n) == \E k \in DOMAIN type.of : type.of[k].name = n /\ type.of[k].required
             Changed(l, i, body, harm) ==
               [body |-> Object([l EXCEPT ![i] = <<l[i][1], body>>]), harm |-> harm]
             Other(i, body, harm) == Changed(m, i, body, harm)
             New == [body |-> Object(<<<<"newer", Null>>>> \o m), harm |-> FALSE]
             Rev == [body |-> Object(Reverse(m)), harm |-> FALSE]
             Less(i) == [body |-> Object(RemoveAt(m, i)), harm |-> TRUE]
             Removed == { Less(i) : i \in { i \in DOMAIN m : IsRequired(m[i][1]) } }
             Nulled == { Other(i, Null, TRUE) : i \in DOMAIN m }
             Below(i) == { Other(i, w.body, w.harm) : w \in A(T(m[i][1]), m[i][2]) }
             All(l) ==
               { [body |-> Object(<<<<"newer", Null>>>> \o l), harm |-> FALSE],
                 [body |-> Object(Reverse(l)), harm |-> FALSE] }
               \cup { [body |-> Object(RemoveAt(l, i)), harm |-> TRUE] :
                        i \in { i \in DOMAIN l : IsRequired(l[i][1]) } }
               \cup { Changed(l, i, Null, TRUE) : i \in DOMAIN l }
               \cup UNION { { Changed(l, i, w.body, w.harm) : w \in A(T(l[i][1]), l[i][2]) } :
                              i \in DOMAIN l }
  <2>1. Members(Object(m)) = m
    BY DEF Members
  <2>2. Variants(type, Object(m)) = {New, Rev} \cup Removed \cup Nulled \cup UNION { Below(i) : i \in DOMAIN m }
    <3>1. Variants(type, Object(m)) = All(Members(Object(m)))
      BY Zenon DEF Variants, VariantsStruct
    <3>2. All(m) = {New, Rev} \cup Removed \cup Nulled \cup UNION { Below(i) : i \in DOMAIN m }
      BY Zenon
    <3> HIDE DEF All, New, Rev, Removed, Nulled, Below, Object
    <3> QED
      BY <2>1, <3>1, <3>2
  <2>3. \A i \in DOMAIN m : \A b, h : Other(i, b, h).body =
          Object([m EXCEPT ![i] = <<m[i][1], b>>]) /\ Other(i, b, h).harm = h
    OBVIOUS
  <2>4. New.body = Object(<<<<"newer", Null>>>> \o m) /\ New.harm = FALSE
    OBVIOUS
  <2>5. Rev.body = Object(Reverse(m)) /\ Rev.harm = FALSE
    OBVIOUS
  <2>6. \A i \in DOMAIN m : Less(i).body = Object(RemoveAt(m, i)) /\ Less(i).harm = TRUE
    OBVIOUS
  <2> HIDE DEF New, Rev, Less, Other, A, T, IsRequired, Object
  <2>7. CASE v \in {New, Rev}
    BY <2>7, <2>4, <2>5
  <2>8. CASE v \in Removed
    <3>1. PICK i \in DOMAIN m : IsRequired(m[i][1]) /\ v = Less(i)
      BY <2>8
    <3> QED
      BY <3>1, <2>6 DEF IsRequired
  <2>9. CASE v \in Nulled
    <3>1. PICK i \in DOMAIN m : v = Other(i, Null, TRUE)
      BY <2>9
    <3>2. v.body = Object([m EXCEPT ![i] = <<m[i][1], Null>>]) /\ v.harm
      BY <3>1, <2>3
    <3> QED
      BY <3>2
  <2>10. CASE v \in UNION { Below(i) : i \in DOMAIN m }
    <3>1. PICK i \in DOMAIN m : v \in Below(i)
      BY <2>10
    <3>2. PICK w \in A(T(m[i][1]), m[i][2]) : v = Other(i, w.body, w.harm)
      BY <3>1
    <3>3. v.body = Object([m EXCEPT ![i] = <<m[i][1], w.body>>]) /\ v.harm = w.harm
      BY <3>2, <2>3
    <3> QED
      BY <3>3
  <2> HIDE DEF Removed, Nulled, Below
  <2> QED
    BY <1>7, <2>2, <2>7, <2>8, <2>9, <2>10
<1> HIDE DEF E, D, G, V, A
<1>8. Lists(m, f)
  <2>1. \A i \in DOMAIN set : /\ set[i].name \in DOMAIN value
                              /\ T(set[i].name) = set[i].type
    BY <1>1, SetFieldsTypes
  <2> HIDE DEF set, T
  <2>2. m = [i \in DOMAIN set |-> <<set[i].name, f[set[i].name]>>]
    BY <2>1
  <2>3. DOMAIN f = DOMAIN value
    OBVIOUS
  <2> HIDE DEF f, m
  <2> QED
    BY <1>1, <2>2, <2>3, WrittenLists DEF set
<1>9. \A n \in DOMAIN value : f[n] = E(T(n), value[n])
  OBVIOUS
<1>10. DOMAIN f = DOMAIN value
  OBVIOUS
<1>11. \A n \in FieldNames(type) : \E k \in DOMAIN type.of :
         type.of[k].name = n /\ type.of[k].type = T(n)
  BY <1>1, TypeOfField DEF FieldNames
<1>12. \A k \in DOMAIN type.of : /\ type.of[k].name \in FieldNames(type)
                                 /\ type.of[k].type = T(type.of[k].name)
  BY <1>1, TypeOfField DEF FieldNames
<1> HIDE DEF f, m, set, T, Object, Reads, Back, Fine
<1>13. ASSUME NEW l, NEW g, Lists(l, g), FieldNames(type) \cap DOMAIN g = DOMAIN value,
              \A n \in DOMAIN value : D(T(n), g[n]) /\ G(T(n), g[n]) = value[n]
       PROVE  Reads(Object(l)) /\ Back(Object(l)) = value
  <2>1. Reads(Object(l))
    <3>1. \A k \in DOMAIN type.of :
            /\ type.of[k].required => type.of[k].name \in DOMAIN g
            /\ type.of[k].name \in DOMAIN g => D(type.of[k].type, g[type.of[k].name])
      BY <1>1, <1>12, <1>13
    <3> QED
      BY <3>1, <1>4, <1>13
  <2>2. /\ DOMAIN Back(Object(l)) = DOMAIN value
        /\ \A n \in DOMAIN value : Back(Object(l))[n] = value[n]
        /\ Back(Object(l)) = [n \in DOMAIN Back(Object(l)) |-> Back(Object(l))[n]]
    BY <1>4, <1>13
  <2>3. Back(Object(l)) = [n \in DOMAIN value |-> value[n]]
    BY <2>2
  <2> QED
    BY <2>1, <2>3, <1>1
<1>14. ASSUME NEW l, NEW g, Lists(l, g), NEW n \in FieldNames(type) \cap DOMAIN g,
              ~ (D(T(n), g[n]) /\ V(T(n), G(T(n), g[n])))
       PROVE  ~ (Reads(Object(l)) /\ Fine(Back(Object(l))))
  <2>1. PICK k \in DOMAIN type.of : type.of[k].name = n /\ type.of[k].type = T(n)
    BY <1>11
  <2>2. Reads(Object(l)) => D(T(n), g[n])
    BY <2>1, <1>4, <1>14
  <2>3. n \in DOMAIN Back(Object(l)) /\ Back(Object(l))[n] = G(T(n), g[n])
    BY <1>4, <1>14
  <2>4. Fine(Back(Object(l))) => V(T(n), G(T(n), g[n]))
    BY <2>1, <2>3, <1>5
  <2> QED
    BY <2>2, <2>4, <1>14
<1>15. FieldNames(type) \cap DOMAIN value = DOMAIN value /\ "newer" \notin FieldNames(type)
  BY <1>1 DEF HasFields
<1>16. Reads(Object(m)) /\ Back(Object(m)) = value
  BY <1>2, <1>8, <1>9, <1>10, <1>13, <1>15
<1>17. ASSUME NEW v \in Variants(type, Object(m))
       PROVE  IF v.harm THEN ~ (Reads(v.body) /\ Fine(Back(v.body)))
              ELSE Reads(v.body) /\ Back(v.body) = value
  <2>1. CASE v.body = Object(<<<<"newer", Null>>>> \o m) /\ ~ v.harm
    <3> DEFINE g == With(f, "newer", Null)
    <3>1. Lists(<<<<"newer", Null>>>> \o m, g)
      BY <1>1, <1>8, <1>10, <1>15, NewerLists
    <3>2. /\ FieldNames(type) \cap DOMAIN g = DOMAIN value
          /\ \A n \in DOMAIN value : g[n] = f[n]
      BY <1>1, <1>10, <1>15 DEF With
    <3> HIDE DEF g
    <3> QED
      BY <2>1, <3>1, <3>2, <1>2, <1>9, <1>13
  <2>2. CASE v.body = Object(Reverse(m)) /\ ~ v.harm
    <3>1. Lists(Reverse(m), f)
      BY <1>8, ReversedLists
    <3> QED
      BY <2>2, <3>1, <1>2, <1>9, <1>10, <1>13, <1>15
  <2>3. ASSUME NEW i \in DOMAIN m, v.body = Object(RemoveAt(m, i)), v.harm,
               NEW k \in DOMAIN type.of, type.of[k].name = m[i][1], type.of[k].required
        PROVE  ~ Reads(v.body)
    <3>1. Lists(RemoveAt(m, i), Without(f, m[i][1]))
      BY <1>8, RemovedLists
    <3>2. m[i][1] \notin DOMAIN Without(f, m[i][1])
      BY DEF Without
    <3> QED
      BY <2>3, <3>1, <3>2, <1>4
  <2>4. ASSUME NEW i \in DOMAIN m, NEW x
        PROVE  /\ Lists([m EXCEPT ![i] = <<m[i][1], x>>], With(f, m[i][1], x))
               /\ m[i][1] \in DOMAIN value /\ m[i][2] = E(T(m[i][1]), value[m[i][1]])
               /\ m[i][1] \in FieldNames(type) \cap DOMAIN With(f, m[i][1], x)
               /\ FieldNames(type) \cap DOMAIN With(f, m[i][1], x) = DOMAIN value
               /\ With(f, m[i][1], x)[m[i][1]] = x
               /\ \A n \in DOMAIN value : n # m[i][1] => With(f, m[i][1], x)[n] = f[n]
    <3>1. m[i][1] \in DOMAIN f /\ m[i][2] = f[m[i][1]]
      BY <1>8, ListedMembers
    <3>2. Lists([m EXCEPT ![i] = <<m[i][1], x>>], With(f, m[i][1], x))
      BY <1>8, ReplacedLists
    <3> QED
      BY <3>1, <3>2, <1>1, <1>9, <1>10 DEF With
  <2>5. ASSUME NEW i \in DOMAIN m, v.body = Object([m EXCEPT ![i] = <<m[i][1], Null>>]), v.harm
        PROVE  ~ (Reads(v.body) /\ Fine(Back(v.body)))
    <3> DEFINE g == With(f, m[i][1], Null)
               l == [m EXCEPT ![i] = <<m[i][1], Null>>]
    <3>1. /\ Lists(l, g) /\ m[i][1] \in DOMAIN value
          /\ m[i][1] \in FieldNames(type) \cap DOMAIN g /\ g[m[i][1]] = Null
      BY <2>4
    <3>2. ~ D(T(m[i][1]), g[m[i][1]])
      BY <3>1, <1>2
    <3> HIDE DEF g, l
    <3>3. ~ (Reads(Object(l)) /\ Fine(Back(Object(l))))
      BY <3>1, <3>2, <1>14
    <3> QED
      BY <2>5, <3>3 DEF l
  <2>6. ASSUME NEW i \in DOMAIN m, NEW w \in A(T(m[i][1]), m[i][2]),
               v.body = Object([m EXCEPT ![i] = <<m[i][1], w.body>>]), v.harm = w.harm
        PROVE  IF v.harm THEN ~ (Reads(v.body) /\ Fine(Back(v.body)))
               ELSE Reads(v.body) /\ Back(v.body) = value
    <3>0. PICK body : body = w.body
      OBVIOUS
    <3> DEFINE name == m[i][1]
               g == With(f, m[i][1], body)
               l == [m EXCEPT ![i] = <<m[i][1], body>>]
    <3>1. /\ Lists(l, g) /\ name \in DOMAIN value /\ m[i][2] = E(T(name), value[name])
          /\ name \in FieldNames(type) \cap DOMAIN g /\ g[name] = body
          /\ FieldNames(type) \cap DOMAIN g = DOMAIN value
          /\ \A n \in DOMAIN value : n # name => g[n] = f[n]
      BY <2>4
    <3>2. v.body = Object(l) /\ w \in A(T(name), m[i][2])
      BY <2>6, <3>0
    <3> HIDE DEF name, g, l
    <3>3. IF w.harm THEN ~ (D(T(name), body) /\ V(T(name), G(T(name), body)))
          ELSE D(T(name), body) /\ G(T(name), body) = value[name]
      BY <3>0, <3>1, <3>2, <1>2
    <3>4. CASE w.harm
      <4>1. ~ (Reads(Object(l)) /\ Fine(Back(Object(l))))
        BY <3>1, <3>3, <3>4, <1>14
      <4> QED
        BY <2>6, <3>2, <3>4, <4>1
    <3>5. CASE ~ w.harm
      <4>1. \A n \in DOMAIN value : D(T(n), g[n]) /\ G(T(n), g[n]) = value[n]
        BY <3>1, <3>3, <3>5, <1>2, <1>9
      <4>2. Reads(Object(l)) /\ Back(Object(l)) = value
        BY <3>1, <4>1, <1>13
      <4> QED
        BY <2>6, <3>2, <3>5, <4>2
    <3> QED
      BY <3>4, <3>5
  <2> QED
    BY <1>7, <2>1, <2>2, <2>3, <2>5, <2>6
<1> QED
  BY <1>3, <1>6, <1>16, <1>17 DEF UnderstoodStruct3, Reads, Back, Fine

-----------------------------------------------------------------------------
(* The form.                                                               *)
LEMMA FormFields ==
  /\ HasFields(PrintDocumentReq)
  /\ \A k \in DOMAIN PrintDocumentReq.of :
       LET f == PrintDocumentReq.of[k] IN
       /\ f.type.kind \in {"string", "enum", "number", "bool"}
       /\ f.type.kind = "number" <=> f.name = "copies"
       /\ f.type.kind = "bool" <=> f.name = "edge_to_edge"
<1> DEFINE of == PrintDocumentReq.of
<1>1. /\ PrintDocumentReq.kind = "object"
      /\ Len(of) = 8 /\ DOMAIN of = 1 .. 8
      /\ of[1] = Optional("printer_id", Text) /\ of[2] = Optional("preset", Text)
      /\ of[3] = Optional("copies", Copies) /\ of[4] = Optional("duplex", DuplexMode)
      /\ of[5] = Optional("color_mode", ColorMode) /\ of[6] = Optional("media", Text)
      /\ of[7] = Optional("scaling", ScalingMode) /\ of[8] = Optional("edge_to_edge", Flag)
  BY DEF PrintDocumentReq, Struct
<1> HIDE DEF of
<1>2. \A k \in DOMAIN of : k \in {1, 2, 3, 4, 5, 6, 7, 8}
  BY <1>1
<1>3. /\ of[1].name = "printer_id" /\ of[2].name = "preset" /\ of[3].name = "copies"
      /\ of[4].name = "duplex" /\ of[5].name = "color_mode" /\ of[6].name = "media"
      /\ of[7].name = "scaling" /\ of[8].name = "edge_to_edge"
  BY <1>1 DEF Optional
<1>4. /\ of[1].type.kind = "string" /\ of[2].type.kind = "string"
      /\ of[3].type.kind = "number" /\ of[4].type.kind = "enum"
      /\ of[5].type.kind = "enum" /\ of[6].type.kind = "string"
      /\ of[7].type.kind = "enum" /\ of[8].type.kind = "bool"
  BY <1>1 DEF Optional, Text, Copies, DuplexMode, ColorMode, ScalingMode, Flag, Number, Enum
<1>5. HasFields(PrintDocumentReq)
  <2>1. \A k, l \in DOMAIN of : of[k].name = of[l].name => k = l
    BY <1>2, <1>3
  <2>2. "newer" \notin FieldNames(PrintDocumentReq)
    BY <1>2, <1>3 DEF FieldNames, of
  <2> QED
    BY <1>1, <2>1, <2>2 DEF HasFields, of
<1> QED
  BY <1>2, <1>3, <1>4, <1>5 DEF of

(* What a caller may write into the form.                                  *)
WritableForm(form) ==
  /\ form = [name \in DOMAIN form |-> form[name]]
  /\ DOMAIN form \subseteq FieldNames(PrintDocumentReq)
  /\ "copies" \in DOMAIN form => form["copies"] \in FormNumbers
  /\ "edge_to_edge" \in DOMAIN form => form["edge_to_edge"] \in BOOLEAN

(* A value of a field is what its text is read as.                         *)
LEMMA TextReadBack ==
  ASSUME NEW form, WritableForm(form), NEW name \in DOMAIN form
  PROVE  LET type == TypeOf(PrintDocumentReq, name)
         IN  FromText(type, ToText(type, form[name])) = form[name]
<1> DEFINE type == TypeOf(PrintDocumentReq, name)
<1>1. /\ type.kind \in {"string", "enum", "number", "bool"}
      /\ type.kind = "number" => form[name] \in FormNumbers
      /\ type.kind = "bool" => form[name] \in BOOLEAN
  <2>1. PICK k \in DOMAIN PrintDocumentReq.of : PrintDocumentReq.of[k].name = name
    BY DEF WritableForm, FieldNames
  <2>2. type = PrintDocumentReq.of[k].type
    BY <2>1, FormFields, TypeOfField
  <2> QED
    BY <2>1, <2>2, FormFields DEF WritableForm
<1> HIDE DEF type
<1>2. CASE type.kind = "number"
  <2>1. form[name] = CHOOSE n \in FormNumbers : Decimal[n] = Decimal[form[name]]
    BY <1>1, <1>2, WireFormatAssumption
  <2> QED
    BY <1>2, <2>1 DEF ToText, FromText, type
<1>3. CASE type.kind = "bool"
  BY <1>1, <1>3 DEF ToText, FromText, type
<1>4. CASE type.kind \in {"string", "enum"}
  BY <1>4 DEF ToText, FromText, type
<1> QED
  BY <1>1, <1>2, <1>3, <1>4

(* A form is read as it was meant, with exactly the fields that were set.  *)
LEMMA FormReadBack ==
  ASSUME NEW form, WritableForm(form)
  PROVE  DecodeForm(EncodeForm(form)) = form
<1> DEFINE T(n) == TypeOf(PrintDocumentReq, n)
           f == [n \in DOMAIN form |-> ToText(T(n), form[n])]
           set == SetFields(PrintDocumentReq, form)
           m == EncodeForm(form)
           At(n) == CHOOSE i \in DOMAIN m : /\ m[i][1] = n
                                            /\ \A j \in 1 .. i - 1 : m[j][1] # n
<1>1. Lists(m, f)
  <2>1. \A i \in DOMAIN set : set[i].name \in DOMAIN form /\ T(set[i].name) = set[i].type
    BY FormFields, SetFieldsTypes
  <2>2. m = [i \in DOMAIN set |-> <<set[i].name, ToText(set[i].type, form[set[i].name])>>]
    BY DEF EncodeForm
  <2> HIDE DEF m, T, set
  <2>3. m = [i \in DOMAIN set |-> <<set[i].name, f[set[i].name]>>]
    BY <2>1, <2>2
  <2>4. DOMAIN f = DOMAIN form
    OBVIOUS
  <2> HIDE DEF f
  <2> QED
    BY <2>3, <2>4, FormFields, WrittenLists DEF set, WritableForm
<1>2. DecodeForm(m) = [n \in { m[i][1] : i \in DOMAIN m } |-> FromText(T(n), m[At(n)][2])]
  BY Zenon DEF DecodeForm
<1>3. DOMAIN f = DOMAIN form /\ \A n \in DOMAIN form : f[n] = ToText(T(n), form[n])
  OBVIOUS
<1> HIDE DEF m, f
<1>4. { m[i][1] : i \in DOMAIN m } = DOMAIN form
  <2>1. /\ \A i \in DOMAIN m : m[i][1] \in DOMAIN form
        /\ \A n \in DOMAIN form : \E i \in DOMAIN m : m[i][1] = n
    BY <1>1, <1>3, ListedMembers
  <2> QED
    BY <2>1
<1>5. ASSUME NEW n \in DOMAIN form PROVE FromText(T(n), m[At(n)][2]) = form[n]
  <2>1. PICK i \in DOMAIN m : m[i][1] = n
    BY <1>1, <1>3, ListedMembers
  <2>2. \A j \in DOMAIN m : m[j][1] = n => j = i
    BY <1>1, <2>1, ListedMembers
  <2>3. \A j \in 1 .. i - 1 : j \in DOMAIN m /\ j # i
    BY <1>1, ListedMembers
  <2>4. At(n) = i
    BY <2>1, <2>2, <2>3
  <2> HIDE DEF At
  <2>5. m[At(n)][2] = ToText(T(n), form[n])
    BY <1>1, <1>3, <2>1, <2>4, ListedMembers
  <2> QED
    BY <2>5, TextReadBack
<1> HIDE DEF At, T
<1>6. DecodeForm(m) = [n \in DOMAIN form |-> form[n]]
  BY <1>2, <1>4, <1>5
<1> QED
  BY <1>6 DEF WritableForm, m

-----------------------------------------------------------------------------
(* The path.  A parameter may hold any tokens but an escape.               *)
Plain(S, arg) ==
  /\ Tokens \cup {"%2F"} \subseteq S /\ arg \in Seq(S)
  /\ \A i \in 1 .. Len(arg) : arg[i] # "%2F"

(* An escaped parameter has no slash, and is unescaped to what it was.     *)
LEMMA Escaped ==
  ASSUME NEW S, NEW arg, Plain(S, arg)
  PROVE  /\ Escape(arg) \in Seq(S) /\ Len(Escape(arg)) = Len(arg)
         /\ \A i \in 1 .. Len(arg) : Escape(arg)[i] # "/"
         /\ \A i \in 1 .. Len(arg) : Escape(arg)[i] = "." => arg[i] = "."
         /\ Unescape(Escape(arg)) = arg
<1> DEFINE e == Escape(arg)
<1>1. /\ Len(arg) \in Nat /\ DOMAIN arg = 1 .. Len(arg)
      /\ arg = [i \in 1 .. Len(arg) |-> arg[i]]
      /\ \A i \in 1 .. Len(arg) : arg[i] \in S
      /\ "%2F" \in S
  BY DEF Plain
<1>2. /\ e = [i \in 1 .. Len(arg) |-> e[i]]
      /\ \A i \in 1 .. Len(arg) : e[i] = IF arg[i] = "/" THEN "%2F" ELSE arg[i]
  BY <1>1 DEF Escape
<1> HIDE DEF e
<1>3. \A i \in 1 .. Len(arg) : e[i] \in S
  BY <1>1, <1>2
<1>4. e \in Seq(S) /\ Len(e) = Len(arg) /\ DOMAIN e = 1 .. Len(arg)
  BY <1>1, <1>2, <1>3
<1>5. \A i \in 1 .. Len(arg) : e[i] # "/" /\ (e[i] = "." => arg[i] = ".")
  BY <1>2
<1>6. \A i \in 1 .. Len(arg) : (IF e[i] = "%2F" THEN "/" ELSE e[i]) = arg[i]
  BY <1>2 DEF Plain
<1>7. Unescape(e) = [i \in 1 .. Len(arg) |-> arg[i]]
  BY <1>4, <1>6 DEF Unescape
<1> QED
  BY <1>1, <1>4, <1>5, <1>7 DEF e

(* The mux leaves a path alone if the one segment that may be anything, of *)
(* n tokens behind the slash at k, is none of those it removes.            *)
LEMMA CleanIf ==
  ASSUME NEW p, NEW h \in Nat, h = Len(p), NEW k \in Nat, NEW n \in Nat, k + n <= h,
         \A i \in 1 .. h - 1 : p[i] = "/" => i = k \/ (p[i + 1] # "/" /\ p[i + 1] # "."),
         \A i \in k + 1 .. k + n : p[i] # "/",
         k + n = h \/ p[k + n + 1] = "/",
         n = 0 => k = h,
         n = 1 => p[k + 1] # ".",
         n = 2 => p[k + 1] # "." \/ p[k + 2] # "."
  PROVE  IsClean(p)
<1> SUFFICES ASSUME NEW i \in 1 .. h - 1, NEW m \in 0 .. 2, p[i] = "/", i + m <= h,
                    \A j \in i + 1 .. i + m : p[j] = ".",
                    i + m = h \/ p[i + m + 1] = "/"
             PROVE  FALSE
  BY DEF IsClean
<1>1. i # k => p[i + 1] # "/" /\ p[i + 1] # "."
  OBVIOUS
<1>2. m = 0 => p[i + 1] = "/"
  OBVIOUS
<1>3. m # 0 => p[i + 1] = "."
  <2>1. m # 0 => i + 1 \in i + 1 .. i + m
    OBVIOUS
  <2> QED
    BY <2>1
<1>4. i = k
  BY <1>1, <1>2, <1>3
<1>5. n # 0
  BY <1>4
<1>6. ~ (m < n)
  <2> SUFFICES ASSUME m < n PROVE FALSE
    OBVIOUS
  <2>1. k + m + 1 \in k + 1 .. k + n /\ k + m # h
    OBVIOUS
  <2>2. p[k + m + 1] = "/"
    BY <1>4, <2>1
  <2> QED
    BY <2>1, <2>2
<1>7. ~ (n < m)
  <2> SUFFICES ASSUME n < m PROVE FALSE
    OBVIOUS
  <2>1. k + n + 1 \in k + 1 .. k + m /\ k + n # h
    BY <1>4
  <2>2. p[k + n + 1] = "/" /\ p[k + n + 1] = "."
    BY <1>4, <2>1
  <2> QED
    BY <2>2
<1>8. m = n /\ (n = 1 \/ n = 2)
  BY <1>5, <1>6, <1>7
<1>9. p[k + 1] = "." /\ (n = 2 => p[k + 2] = ".")
  <2>1. k + 1 \in k + 1 .. k + n /\ (n = 2 => k + 2 \in k + 1 .. k + n)
    BY <1>8
  <2> QED
    BY <1>4, <1>8, <2>1
<1> QED
  BY <1>8, <1>9

(* An identifier that is no step in a path.                                *)
LEMMA IsSegment ==
  ASSUME NEW S, NEW arg, Plain(S, arg), arg \notin NoSegment, NEW n \in Nat, n = Len(arg)
  PROVE  /\ n # 0
         /\ n = 1 => Escape(arg)[1] # "."
         /\ n = 2 => Escape(arg)[1] # "." \/ Escape(arg)[2] # "."
<1> DEFINE one == <<".">>
           two == <<".", ".">>
<1>1. arg \in Seq(S) /\ arg # << >> /\ arg # one /\ arg # two
  BY DEF Plain, NoSegment
<1>2. \A i \in 1 .. n : Escape(arg)[i] = "." => arg[i] = "."
  BY Escaped
<1>3. n # 0
  BY <1>1, EmptySeq
<1>4. n = 1 => arg[1] # "."
  <2>1. one \in Seq({"."}) /\ Len(one) = 1 /\ one[1] = "."
    OBVIOUS
  <2> HIDE DEF one
  <2> SUFFICES ASSUME n = 1, arg[1] = "." PROVE FALSE
    OBVIOUS
  <2>4. {"."} \subseteq S
    BY <1>1
  <2>2. one \in Seq(S) /\ Len(one) = Len(arg)
    BY <2>1, <2>4, WiderSeq
  <2>3. \A i \in 1 .. Len(arg) : arg[i] = one[i]
    BY <2>1
  <2>5. arg = one
    BY <1>1, <2>2, <2>3, EqualSeqs, Zenon
  <2> QED
    BY <1>1, <2>5
<1>5. n = 2 => arg[1] # "." \/ arg[2] # "."
  <2>1. two \in Seq({"."}) /\ Len(two) = 2 /\ two[1] = "." /\ two[2] = "."
    OBVIOUS
  <2> HIDE DEF two
  <2> SUFFICES ASSUME n = 2, arg[1] = ".", arg[2] = "." PROVE FALSE
    OBVIOUS
  <2>4. {"."} \subseteq S
    BY <1>1
  <2>2. two \in Seq(S) /\ Len(two) = Len(arg)
    BY <2>1, <2>4, WiderSeq
  <2>3. \A i \in 1 .. Len(arg) : arg[i] = two[i]
    BY <2>1
  <2>5. arg = two
    BY <1>1, <2>2, <2>3, EqualSeqs, Zenon
  <2> QED
    BY <1>1, <2>5
<1>6. (n = 1 => 1 \in 1 .. n) /\ (n = 2 => 1 \in 1 .. n /\ 2 \in 1 .. n)
  OBVIOUS
<1> QED
  BY <1>2, <1>3, <1>4, <1>5, <1>6

(* The path of a job leads to GET /jobs/{id} with that identifier, and is  *)
(* left alone by the mux unless the identifier is a step in a path.        *)
LEMMA JobPath ==
  ASSUME NEW S, NEW arg, Plain(S, arg)
  PROVE  LET p == PathOf("getPrintJob", arg)
         IN  /\ p # << >> /\ Route(p) = Leaf("getPrintJob", Escape(arg))
             /\ arg \notin NoSegment => IsClean(p)
<1> DEFINE e == Escape(arg)
           b == <<"/", "jobs", "/">>
           n == Len(arg)
           p == b \o e
<1>1. e \in Seq(S) /\ Len(e) = n /\ \A i \in 1 .. n : e[i] # "/"
  BY Escaped
<1>2. Tokens \subseteq S /\ n \in Nat
  BY DEF Plain
<1>3. b \in Seq(S) /\ Len(b) = 3 /\ b[1] = "/" /\ b[2] = "jobs" /\ b[3] = "/"
  BY <1>2 DEF Tokens
<1> HIDE DEF e, b, n
<1>4. /\ p \in Seq(S) /\ Len(p) = 3 + n
      /\ \A i \in 1 .. 3 : p[i] = b[i]
      /\ \A i \in 3 + 1 .. 3 + n : p[i] = e[i - 3]
  <2>1. p \in Seq(S) /\ IsJoined(p, b, e)
    BY <1>1, <1>3, Joined
  <2> HIDE DEF p
  <2>2. /\ Len(p) = 3 + n
        /\ \A i \in 1 .. 3 : p[i] = b[i]
        /\ \A i \in 1 .. n : p[3 + i] = e[i]
    BY <2>1, <1>1, <1>3 DEF IsJoined
  <2>3. \A i \in 4 .. 3 + n : i - 3 \in 1 .. n /\ 3 + (i - 3) = i
    BY <1>2
  <2> QED
    BY <2>1, <2>2, <2>3
<1>5. PathOf("getPrintJob", arg) = p
  BY DEF PathOf, b, e
<1> HIDE DEF p
<1>6. p[1] = "/" /\ p[2] = "jobs" /\ p[3] = "/"
  BY <1>3, <1>4
<1>7. \A i \in 4 .. 3 + n : p[i] # "/"
  BY <1>1, <1>2, <1>4
<1>8. p # << >>
  BY <1>2, <1>4
<1>9. ASSUME arg \notin NoSegment PROVE IsClean(p)
  <2> DEFINE h == Len(p)
             k == 3
  <2>1. /\ n # 0 /\ (n = 1 => e[1] # ".")
        /\ n = 2 => e[1] # "." \/ e[2] # "."
    BY <1>2, <1>9, IsSegment DEF e, n
  <2>2. h \in Nat /\ h = Len(p) /\ h = 3 + n /\ k \in Nat /\ k = 3
    BY <1>2, <1>4
  <2>3. (n = 1 => p[4] = e[1]) /\ (n = 2 => p[4] = e[1] /\ p[5] = e[2])
    <3>1. (n = 1 => 4 \in 4 .. 3 + n) /\ (n = 2 => 4 \in 4 .. 3 + n /\ 5 \in 4 .. 3 + n)
      BY <1>2
    <3> QED
      BY <3>1, <1>4
  <2> HIDE DEF h, k
  <2>4. \A i \in 1 .. h - 1 : p[i] = "/" => i = k \/ (p[i + 1] # "/" /\ p[i + 1] # ".")
    <3>1. \A i \in 1 .. h - 1 : i \in {1, 2, 3} \/ i \in 4 .. 3 + n
      BY <1>2, <2>2
    <3> QED
      BY <2>2, <3>1, <1>6, <1>7
  <2>5. /\ \A i \in k + 1 .. k + n : p[i] # "/"
        /\ k + n = h /\ k + n <= h
        /\ n = 1 => p[k + 1] # "."
        /\ n = 2 => p[k + 1] # "." \/ p[k + 2] # "."
    BY <1>2, <1>7, <2>1, <2>2, <2>3
  <2> QED
    BY <1>2, <2>1, <2>2, <2>4, <2>5, CleanIf
<1>10. IsPathOf("getPrintJob", p)
  BY <1>2, <1>4, <1>6, <1>7 DEF IsPathOf
<1>11. SubSeq(p, 4, Len(p)) = e
  <2>1. /\ SubSeq(p, 4, 3 + n) \in Seq(S) /\ Len(SubSeq(p, 4, 3 + n)) = n
        /\ \A i \in 1 .. n : SubSeq(p, 4, 3 + n)[i] = p[4 + i - 1]
    <3>1. 3 + n \in Nat /\ 3 + n <= Len(p) /\ n + 4 = (3 + n) + 1
      BY <1>2, <1>4
    <3> QED
      BY <3>1, <1>2, <1>4, Part
  <2>2. \A i \in 1 .. n : p[4 + i - 1] = e[i]
    BY <1>2, <1>4
  <2> QED
    BY <2>1, <2>2, <1>1, <1>4, EqualSeqs
<1>12. Route(p) = Leaf("getPrintJob", e)
  <2>1. Route(p) = Leaf("getPrintJob", ArgIn("getPrintJob", p))
    BY <1>2, <1>4, <1>8, <1>10, RoutedPath, OpsListed
  <2> QED
    BY <2>1, <1>11 DEF ArgIn
<1> QED
  BY <1>5, <1>8, <1>9, <1>12 DEF e

(* The path of a printer's status leads there with that identifier, and is *)
(* left alone by the mux unless the identifier is a step in a path.        *)
LEMMA StatusPath ==
  ASSUME NEW S, NEW arg, Plain(S, arg)
  PROVE  LET p == PathOf("getPrinterStatus", arg)
         IN  /\ p # << >> /\ Route(p) = Leaf("getPrinterStatus", Escape(arg))
             /\ arg \notin NoSegment => IsClean(p)
<1> DEFINE e == Escape(arg)
           b == <<"/", "pr", "int", "ers", "/">>
           a == <<"/", "status">>
           n == Len(arg)
           p == b \o e \o a
<1>1. e \in Seq(S) /\ Len(e) = n /\ \A i \in 1 .. n : e[i] # "/"
  BY Escaped
<1>2. Tokens \subseteq S /\ n \in Nat /\ arg \in Seq(S)
  BY DEF Plain
<1>3. /\ b \in Seq(S) /\ Len(b) = 5
      /\ b[1] = "/" /\ b[2] = "pr" /\ b[3] = "int" /\ b[4] = "ers" /\ b[5] = "/"
  BY <1>2 DEF Tokens
<1>4. a \in Seq(S) /\ Len(a) = 2 /\ a[1] = "/" /\ a[2] = "status"
  BY <1>2 DEF Tokens
<1> HIDE DEF e, b, a, n
<1>5. /\ b \o e \in Seq(S) /\ Len(b \o e) = 5 + n
      /\ \A i \in 1 .. 5 : (b \o e)[i] = b[i]
      /\ \A i \in 6 .. 5 + n : (b \o e)[i] = e[i - 5]
  <2> DEFINE be == b \o e
  <2>1. be \in Seq(S) /\ IsJoined(be, b, e)
    BY <1>1, <1>3, Joined
  <2> HIDE DEF be
  <2>2. /\ Len(be) = 5 + n
        /\ \A i \in 1 .. 5 : be[i] = b[i]
        /\ \A i \in 1 .. n : be[5 + i] = e[i]
    BY <2>1, <1>1, <1>3 DEF IsJoined
  <2>3. \A i \in 6 .. 5 + n : i - 5 \in 1 .. n /\ 5 + (i - 5) = i
    BY <1>2
  <2>4. \A i \in 6 .. 5 + n : be[i] = e[i - 5]
    BY <2>2, <2>3
  <2> QED
    BY <2>1, <2>2, <2>4 DEF be
<1>6. /\ p \in Seq(S) /\ Len(p) = 7 + n
      /\ \A i \in 1 .. 5 + n : p[i] = (b \o e)[i]
      /\ p[6 + n] = "/" /\ p[7 + n] = "status"
  <2> DEFINE be == b \o e
  <2>1. be \in Seq(S) /\ Len(be) = 5 + n
    BY <1>5
  <2> HIDE DEF be
  <2>2. be \o a \in Seq(S) /\ IsJoined(be \o a, be, a)
    BY <2>1, <1>4, Joined
  <2>3. p = be \o a
    BY DEF be
  <2> HIDE DEF p
  <2>4. /\ Len(p) = (5 + n) + 2
        /\ \A i \in 1 .. 5 + n : p[i] = be[i]
        /\ \A i \in 1 .. 2 : p[(5 + n) + i] = a[i]
    BY <2>1, <2>2, <2>3, <1>4 DEF IsJoined
  <2>5. /\ (5 + n) + 1 = 6 + n /\ (5 + n) + 2 = 7 + n
        /\ 1 \in 1 .. 2 /\ 2 \in 1 .. 2
    BY <1>2
  <2>6. p[6 + n] = "/" /\ p[7 + n] = "status"
    BY <2>4, <2>5, <1>4
  <2> QED
    BY <2>2, <2>3, <2>4, <2>5, <2>6 DEF be
<1>7. PathOf("getPrinterStatus", arg) = p
  BY DEF PathOf, b, e, a
<1> HIDE DEF p
<1>8. /\ p[1] = "/" /\ p[2] = "pr" /\ p[3] = "int" /\ p[4] = "ers" /\ p[5] = "/"
  <2>1. \A i \in 1 .. 5 : i \in 1 .. 5 + n
    BY <1>2
  <2>2. \A i \in 1 .. 5 : p[i] = b[i]
    BY <2>1, <1>5, <1>6
  <2> QED
    BY <2>2, <1>3
<1>9. \A i \in 6 .. 5 + n : p[i] = e[i - 5] /\ p[i] # "/"
  <2>1. \A i \in 6 .. 5 + n : i \in 5 + 1 .. 5 + n /\ i \in 1 .. 5 + n /\ i - 5 \in 1 .. n
    BY <1>2
  <2>2. \A i \in 6 .. 5 + n : p[i] = e[i - 5]
    BY <2>1, <1>5, <1>6
  <2> QED
    BY <2>1, <2>2, <1>1
<1>10. p # << >>
  BY <1>2, <1>6
<1>11. ASSUME arg \notin NoSegment PROVE IsClean(p)
  <2> DEFINE h == Len(p)
             k == 5
  <2>1. /\ n # 0 /\ (n = 1 => e[1] # ".")
        /\ n = 2 => e[1] # "." \/ e[2] # "."
    BY <1>2, <1>11, IsSegment DEF e, n
  <2>2. h \in Nat /\ h = Len(p) /\ h = 7 + n /\ k \in Nat /\ k = 5
    BY <1>2, <1>6
  <2>3. (n = 1 => p[6] = e[1]) /\ (n = 2 => p[6] = e[1] /\ p[7] = e[2])
    <3>1. (n = 1 => 6 \in 6 .. 5 + n) /\ (n = 2 => 6 \in 6 .. 5 + n /\ 7 \in 6 .. 5 + n)
      BY <1>2
    <3> QED
      BY <3>1, <1>9
  <2> HIDE DEF h, k
  <2>4. \A i \in 1 .. h - 1 : p[i] = "/" => i = k \/ (p[i + 1] # "/" /\ p[i + 1] # ".")
    <3>1. \A i \in 1 .. h - 1 : i \in {1, 2, 3, 4, 5} \/ i \in 6 .. 5 + n \/ i = 6 + n
      BY <1>2, <2>2
    <3>2. p[(6 + n) + 1] = "status"
      BY <1>2, <1>6
    <3> QED
      BY <2>2, <3>1, <3>2, <1>8, <1>9
  <2>5. /\ \A i \in k + 1 .. k + n : p[i] # "/"
        /\ p[k + n + 1] = "/" /\ k + n <= h
        /\ n = 1 => p[k + 1] # "."
        /\ n = 2 => p[k + 1] # "." \/ p[k + 2] # "."
    <3>1. k + n + 1 = 6 + n
      BY <1>2, <2>2
    <3> QED
      BY <1>2, <1>6, <1>9, <2>1, <2>2, <2>3, <3>1
  <2> QED
    BY <1>2, <2>1, <2>2, <2>4, <2>5, CleanIf
<1>12. IsPathOf("getPrinterStatus", p)
  <2>1. Len(p) >= 7 /\ Len(p) - 1 = 6 + n /\ Len(p) - 2 = 5 + n
    BY <1>2, <1>6
  <2> QED
    BY <2>1, <1>6, <1>8, <1>9 DEF IsPathOf
<1>13. SubSeq(p, 6, Len(p) - 2) = e
  <2>0. Len(p) - 2 = 5 + n
    BY <1>2, <1>6
  <2>1. /\ SubSeq(p, 6, 5 + n) \in Seq(S) /\ Len(SubSeq(p, 6, 5 + n)) = n
        /\ \A i \in 1 .. n : SubSeq(p, 6, 5 + n)[i] = p[6 + i - 1]
    <3>1. 5 + n \in Nat /\ 5 + n <= Len(p) /\ n + 6 = (5 + n) + 1
      BY <1>2, <1>6
    <3> QED
      BY <3>1, <1>2, <1>6, Part
  <2>2. \A i \in 1 .. n : p[6 + i - 1] = e[i]
    BY <1>2, <1>9
  <2> QED
    BY <2>0, <2>1, <2>2, <1>1, EqualSeqs
<1>14. Route(p) = Leaf("getPrinterStatus", e)
  <2>1. Route(p) = Leaf("getPrinterStatus", ArgIn("getPrinterStatus", p))
    BY <1>2, <1>6, <1>10, <1>12, RoutedPath, OpsListed
  <2> QED
    BY <2>1, <1>13 DEF ArgIn
<1> QED
  BY <1>7, <1>10, <1>11, <1>14 DEF e

(* The paths without parameters lead to their operations.                  *)
LEMMA FixedPath ==
  ASSUME NEW S, Tokens \subseteq S, NEW op \in Ops, op \notin Parameterised
  PROVE  LET p == PathOf(op, << >>)
         IN  p # << >> /\ IsClean(p) /\ Route(p) = Leaf(op, << >>)
<1> DEFINE p == PathOf(op, << >>)
<1>0. /\ "/" \in S /\ "healthz" \in S /\ "pr" \in S /\ "int" \in S /\ "ers" \in S
      /\ "esets" \in S
  BY DEF Tokens
<1>1. op \in {"healthCheck", "listPrinters", "listPresets", "printDocument"}
  BY OpsListed DEF Parameterised
<1>2. /\ p \in Seq(S) /\ Len(p) \in 2 .. 4
      /\ \A i \in 2 .. Len(p) : p[i] # "/" /\ p[i] # "."
      /\ IsPathOf(op, p)
  <2>1. CASE op = "healthCheck"
    <3>1. p = <<"/", "healthz">>
      BY <2>1 DEF PathOf
    <3> HIDE DEF p
    <3>2. p \in Seq(S) /\ Len(p) = 2
      BY <3>1, <1>0
    <3>3. p[2] = "healthz"
      BY <3>1
    <3> QED
      BY <3>2, <3>3, <2>1 DEF IsPathOf
  <2>2. CASE op = "listPrinters"
    <3>1. p = <<"/", "pr", "int", "ers">>
      BY <2>2 DEF PathOf
    <3> HIDE DEF p
    <3>2. p \in Seq(S) /\ Len(p) = 4
      BY <3>1, <1>0
    <3>3. p[2] = "pr" /\ p[3] = "int" /\ p[4] = "ers"
      BY <3>1
    <3> QED
      BY <3>2, <3>3, <2>2 DEF IsPathOf
  <2>3. CASE op = "listPresets"
    <3>1. p = <<"/", "pr", "esets">>
      BY <2>3 DEF PathOf
    <3> HIDE DEF p
    <3>2. p \in Seq(S) /\ Len(p) = 3
      BY <3>1, <1>0
    <3>3. p[2] = "pr" /\ p[3] = "esets"
      BY <3>1
    <3> QED
      BY <3>2, <3>3, <2>3 DEF IsPathOf
  <2>4. CASE op = "printDocument"
    <3>1. p = <<"/", "pr", "int">>
      BY <2>4 DEF PathOf
    <3> HIDE DEF p
    <3>2. p \in Seq(S) /\ Len(p) = 3
      BY <3>1, <1>0
    <3>3. p[2] = "pr" /\ p[3] = "int"
      BY <3>1
    <3> QED
      BY <3>2, <3>3, <2>4 DEF IsPathOf
  <2> QED
    BY <2>1, <2>2, <2>3, <2>4, <1>1
<1> HIDE DEF p
<1>3. p # << >>
  BY <1>2
<1>4. IsClean(p)
  <2> SUFFICES ASSUME NEW i \in 1 .. Len(p) - 1, NEW m \in 0 .. 2,
                      \A j \in i + 1 .. i + m : p[j] = ".",
                      i + m = Len(p) \/ p[i + m + 1] = "/"
               PROVE  FALSE
    BY DEF IsClean
  <2>1. i + 1 \in 2 .. Len(p) /\ (m # 0 => i + 1 \in i + 1 .. i + m) /\ i # Len(p)
    BY <1>2
  <2>2. p[i + 1] # "/" /\ p[i + 1] # "."
    BY <2>1, <1>2
  <2>3. m = 0
    BY <2>1, <2>2
  <2> QED
    BY <2>1, <2>2, <2>3
<1>5. Route(p) = Leaf(op, ArgIn(op, p))
  BY <1>2, <1>3, RoutedPath
<1>6. ArgIn(op, p) = << >>
  BY <1>1 DEF ArgIn
<1> QED
  BY <1>3, <1>4, <1>5, <1>6 DEF p

-----------------------------------------------------------------------------
(* The schemas of the replies.                                             *)
FieldsOf(type) == { type.of[k] : k \in DOMAIN type.of }

(* The fields of errors.                                                   *)
LEMMA ErrorSchema ==
  /\ HasFields(Error)
  /\ FieldsOf(Error) =
       { Required("code", Text), Required("message", Text) }
<1> DEFINE of == Error.of
<1>1. /\ Error.kind = "object" /\ Len(of) = 2 /\ DOMAIN of = 1 .. 2
      /\ of[1] = Required("code", Text) /\ of[2] = Required("message", Text)
  BY DEF Error, Struct
<1> HIDE DEF of
<1>2. /\ of[1].name = "code" /\ of[2].name = "message"
  BY <1>1 DEF Required, Optional
<1>3. HasFields(Error)
  BY <1>1, <1>2 DEF HasFields, FieldNames, of
<1> QED
  BY <1>1, <1>3 DEF FieldsOf, of

(* The fields of the health check.                                         *)
LEMMA HealthStatusSchema ==
  /\ HasFields(HealthStatus)
  /\ FieldsOf(HealthStatus) =
       { Required("status", HealthStatusStatus) }
<1> DEFINE of == HealthStatus.of
<1>1. /\ HealthStatus.kind = "object" /\ Len(of) = 1 /\ DOMAIN of = 1 .. 1
      /\ of[1] = Required("status", HealthStatusStatus)
  BY DEF HealthStatus, Struct
<1> HIDE DEF of
<1>2. /\ of[1].name = "status"
  BY <1>1 DEF Required, Optional
<1>3. HasFields(HealthStatus)
  BY <1>1, <1>2 DEF HasFields, FieldNames, of
<1> QED
  BY <1>1, <1>3 DEF FieldsOf, of

(* The fields of a queued job.                                             *)
LEMMA PrintJobSchema ==
  /\ HasFields(PrintJob)
  /\ FieldsOf(PrintJob) =
       { Required("job_id", Text), Required("printer_id", Text),
         Required("status", PrintJobStatus) }
<1> DEFINE of == PrintJob.of
<1>1. /\ PrintJob.kind = "object" /\ Len(of) = 3 /\ DOMAIN of = 1 .. 3
      /\ of[1] = Required("job_id", Text)
      /\ of[2] = Required("printer_id", Text)
      /\ of[3] = Required("status", PrintJobStatus)
  BY DEF PrintJob, Struct
<1> HIDE DEF of
<1>2. /\ of[1].name = "job_id" /\ of[2].name = "printer_id"
      /\ of[3].name = "status"
  BY <1>1 DEF Required, Optional
<1>3. HasFields(PrintJob)
  BY <1>1, <1>2 DEF HasFields, FieldNames, of
<1> QED
  BY <1>1, <1>3 DEF FieldsOf, of

(* The fields of the state of a job.                                       *)
LEMMA PrintJobStateSchema ==
  /\ HasFields(PrintJobState)
  /\ FieldsOf(PrintJobState) =
       { Required("job_id", Text), Optional("printer_id", Text),
         Required("status", PrintJobStateStatus), Optional("message", Text) }
<1> DEFINE of == PrintJobState.of
<1>1. /\ PrintJobState.kind = "object" /\ Len(of) = 4 /\ DOMAIN of = 1 .. 4
      /\ of[1] = Required("job_id", Text)
      /\ of[2] = Optional("printer_id", Text)
      /\ of[3] = Required("status", PrintJobStateStatus)
      /\ of[4] = Optional("message", Text)
  BY DEF PrintJobState, Struct
<1> HIDE DEF of
<1>2. /\ of[1].name = "job_id" /\ of[2].name = "printer_id"
      /\ of[3].name = "status" /\ of[4].name = "message"
  BY <1>1 DEF Required, Optional
<1>3. HasFields(PrintJobState)
  BY <1>1, <1>2 DEF HasFields, FieldNames, of
<1> QED
  BY <1>1, <1>3 DEF FieldsOf, of

(* The fields of a preset.                                                 *)
LEMMA PrintPresetSchema ==
  /\ HasFields(PrintPreset)
  /\ FieldsOf(PrintPreset) =
       { Required("id", Text), Optional("printer_id", Text),
         Optional("copies", Copies), Optional("duplex", DuplexMode),
         Optional("color_mode", ColorMode), Optional("media", Text),
         Optional("scaling", ScalingMode), Optional("edge_to_edge", Flag) }
<1> DEFINE of == PrintPreset.of
<1>1. /\ PrintPreset.kind = "object" /\ Len(of) = 8 /\ DOMAIN of = 1 .. 8
      /\ of[1] = Required("id", Text) /\ of[2] = Optional("printer_id", Text)
      /\ of[3] = Optional("copies", Copies)
      /\ of[4] = Optional("duplex", DuplexMode)
      /\ of[5] = Optional("color_mode", ColorMode)
      /\ of[6] = Optional("media", Text)
      /\ of[7] = Optional("scaling", ScalingMode)
      /\ of[8] = Optional("edge_to_edge", Flag)
  BY DEF PrintPreset, Struct
<1> HIDE DEF of
<1>2. /\ of[1].name = "id" /\ of[2].name = "printer_id"
      /\ of[3].name = "copies" /\ of[4].name = "duplex"
      /\ of[5].name = "color_mode" /\ of[6].name = "media"
      /\ of[7].name = "scaling" /\ of[8].name = "edge_to_edge"
  BY <1>1 DEF Required, Optional
<1>3. HasFields(PrintPreset)
  BY <1>1, <1>2 DEF HasFields, FieldNames, of
<1> QED
  BY <1>1, <1>3 DEF FieldsOf, of

(* The fields of the presets.                                              *)
LEMMA PrintPresetListSchema ==
  /\ HasFields(PrintPresetList)
  /\ FieldsOf(PrintPresetList) =
       { Required("presets", List(PrintPreset)) }
<1> DEFINE of == PrintPresetList.of
<1>1. /\ PrintPresetList.kind = "object" /\ Len(of) = 1 /\ DOMAIN of = 1 .. 1
      /\ of[1] = Required("presets", List(PrintPreset))
  BY DEF PrintPresetList, Struct
<1> HIDE DEF of
<1>2. /\ of[1].name = "presets"
  BY <1>1 DEF Required, Optional
<1>3. HasFields(PrintPresetList)
  BY <1>1, <1>2 DEF HasFields, FieldNames, of
<1> QED
  BY <1>1, <1>3 DEF FieldsOf, of

(* The fields of capabilities.                                             *)
LEMMA PrinterCapabilitiesSchema ==
  /\ HasFields(PrinterCapabilities)
  /\ FieldsOf(PrinterCapabilities) =
       { Required("color_modes", List(ColorMode)),
         Required("duplex_modes", List(DuplexMode)),
         Required("media", List(Text)),
         Required("scaling_modes", List(ScalingMode)),
         Required("edge_to_edge", EdgeToEdgeCapability),
         Required("max_copies", Copies) }
<1> DEFINE of == PrinterCapabilities.of
<1>1. /\ PrinterCapabilities.kind = "object" /\ Len(of) = 6 /\ DOMAIN of = 1 .. 6
      /\ of[1] = Required("color_modes", List(ColorMode))
      /\ of[2] = Required("duplex_modes", List(DuplexMode))
      /\ of[3] = Required("media", List(Text))
      /\ of[4] = Required("scaling_modes", List(ScalingMode))
      /\ of[5] = Required("edge_to_edge", EdgeToEdgeCapability)
      /\ of[6] = Required("max_copies", Copies)
  BY DEF PrinterCapabilities, Struct
<1> HIDE DEF of
<1>2. /\ of[1].name = "color_modes" /\ of[2].name = "duplex_modes"
      /\ of[3].name = "media" /\ of[4].name = "scaling_modes"
      /\ of[5].name = "edge_to_edge" /\ of[6].name = "max_copies"
  BY <1>1 DEF Required, Optional
<1>3. HasFields(PrinterCapabilities)
  BY <1>1, <1>2 DEF HasFields, FieldNames, of
<1> QED
  BY <1>1, <1>3 DEF FieldsOf, of

(* The fields of a printer.                                                *)
LEMMA PrinterSchema ==
  /\ HasFields(Printer)
  /\ FieldsOf(Printer) =
       { Required("id", Text), Required("display_name", Text),
         Required("default", Flag),
         Required("capabilities", PrinterCapabilities) }
<1> DEFINE of == Printer.of
<1>1. /\ Printer.kind = "object" /\ Len(of) = 4 /\ DOMAIN of = 1 .. 4
      /\ of[1] = Required("id", Text)
      /\ of[2] = Required("display_name", Text)
      /\ of[3] = Required("default", Flag)
      /\ of[4] = Required("capabilities", PrinterCapabilities)
  BY DEF Printer, Struct
<1> HIDE DEF of
<1>2. /\ of[1].name = "id" /\ of[2].name = "display_name"
      /\ of[3].name = "default" /\ of[4].name = "capabilities"
  BY <1>1 DEF Required, Optional
<1>3. HasFields(Printer)
  BY <1>1, <1>2 DEF HasFields, FieldNames, of
<1> QED
  BY <1>1, <1>3 DEF FieldsOf, of

(* The fields of the printers.                                             *)
LEMMA PrinterListSchema ==
  /\ HasFields(PrinterList)
  /\ FieldsOf(PrinterList) =
       { Required("printers", List(Printer)) }
<1> DEFINE of == PrinterList.of
<1>1. /\ PrinterList.kind = "object" /\ Len(of) = 1 /\ DOMAIN of = 1 .. 1
      /\ of[1] = Required("printers", List(Printer))
  BY DEF PrinterList, Struct
<1> HIDE DEF of
<1>2. /\ of[1].name = "printers"
  BY <1>1 DEF Required, Optional
<1>3. HasFields(PrinterList)
  BY <1>1, <1>2 DEF HasFields, FieldNames, of
<1> QED
  BY <1>1, <1>3 DEF FieldsOf, of

(* The fields of the status of a printer.                                  *)
LEMMA PrinterStatusSchema ==
  /\ HasFields(PrinterStatus)
  /\ FieldsOf(PrinterStatus) =
       { Required("printer_id", Text),
         Required("status", PrinterStatusStatus), Optional("message", Text),
         Optional("responsive", Flag), Optional("queued_jobs", QueuedJobs),
         Optional("reasons", List(Text)),
         Optional("cups_status", PrinterStatusCupsStatus) }
<1> DEFINE of == PrinterStatus.of
<1>1. /\ PrinterStatus.kind = "object" /\ Len(of) = 7 /\ DOMAIN of = 1 .. 7
      /\ of[1] = Required("printer_id", Text)
      /\ of[2] = Required("status", PrinterStatusStatus)
      /\ of[3] = Optional("message", Text)
      /\ of[4] = Optional("responsive", Flag)
      /\ of[5] = Optional("queued_jobs", QueuedJobs)
      /\ of[6] = Optional("reasons", List(Text))
      /\ of[7] = Optional("cups_status", PrinterStatusCupsStatus)
  BY DEF PrinterStatus, Struct
<1> HIDE DEF of
<1>2. /\ of[1].name = "printer_id" /\ of[2].name = "status"
      /\ of[3].name = "message" /\ of[4].name = "responsive"
      /\ of[5].name = "queued_jobs" /\ of[6].name = "reasons"
      /\ of[7].name = "cups_status"
  BY <1>1 DEF Required, Optional
<1>3. HasFields(PrinterStatus)
  BY <1>1, <1>2 DEF HasFields, FieldNames, of
<1> QED
  BY <1>1, <1>3 DEF FieldsOf, of

(* A leaf or a list of leaves that is written, read back and valid.        *)
IsList(x) == x = [i \in DOMAIN x |-> x[i]]

IsLeaf(type) == type.kind \in LeafKinds /\ (type.kind = "enum" => "newer" \notin type.of)

Sound(type, x) ==
  IF type.kind = "list"
    THEN IsLeaf(type.of) /\ IsList(x) /\ \A i \in DOMAIN x : ValidLeaf(type.of, x[i])
    ELSE IsLeaf(type) /\ ValidLeaf(type, x)

(* Any text, flag, or list of texts is sound.                              *)
LEMMA SoundTexts ==
  ASSUME NEW x
  PROVE  /\ Sound(Text, x) /\ Sound(Flag, x)
         /\ IsList(x) => Sound(List(Text), x)
  BY DEF Sound, IsLeaf, LeafKinds, ValidLeaf, Text, Flag, List

(* Numbers in their range are sound.                                       *)
LEMMA SoundNumbers ==
  ASSUME NEW x
  PROVE  /\ x \in 1 .. 99 => Sound(Copies, x)
         /\ x \in Nat => Sound(QueuedJobs, x)
  BY DEF Sound, IsLeaf, LeafKinds, ValidLeaf, Copies, QueuedJobs, Number

(* A value of an enumeration is sound, since none has the value newer.     *)
LEMMA SoundEnums ==
  ASSUME NEW values, "newer" \notin values, NEW x
  PROVE  /\ x \in values => Sound(Enum(values), x)
         /\ IsList(x) /\ (\A i \in DOMAIN x : x[i] \in values) => Sound(List(Enum(values)), x)
  BY DEF Sound, IsLeaf, LeafKinds, ValidLeaf, Enum, List

(* The modes that config.validate accepts are those of the schemas.        *)
LEMMA SoundModes ==
  ASSUME NEW x
  PROVE  /\ x \in ColorModes => Sound(ColorMode, x)
         /\ x \in DuplexModes => Sound(DuplexMode, x)
         /\ x \in ScalingModes => Sound(ScalingMode, x)
         /\ x \in EdgeModes => Sound(EdgeToEdgeCapability, x)
         /\ IsList(x) /\ (\A i \in DOMAIN x : x[i] \in ColorModes) => Sound(List(ColorMode), x)
         /\ IsList(x) /\ (\A i \in DOMAIN x : x[i] \in DuplexModes) => Sound(List(DuplexMode), x)
         /\ IsList(x) /\ (\A i \in DOMAIN x : x[i] \in ScalingModes) => Sound(List(ScalingMode), x)
<1>1. ColorMode = Enum(ColorModes) /\ "newer" \notin ColorModes
  BY DEF ColorMode, ColorModes
<1>2. DuplexMode = Enum(DuplexModes) /\ "newer" \notin DuplexModes
  BY DEF DuplexMode, DuplexModes
<1>3. ScalingMode = Enum(ScalingModes) /\ "newer" \notin ScalingModes
  BY DEF ScalingMode, ScalingModes
<1>4. EdgeToEdgeCapability = Enum(EdgeModes) /\ "newer" \notin EdgeModes
  BY DEF EdgeToEdgeCapability, EdgeModes
<1> QED
  BY <1>1, <1>2, <1>3, <1>4, SoundEnums

(* The statuses the handlers answer are those of the schemas.              *)
LEMMA SoundStatuses ==
  /\ Sound(HealthStatusStatus, "ok") /\ Sound(PrintJobStatus, "queued")
  /\ \A x \in {"queued", "processing", "completed", "canceled", "aborted", "unknown"} :
       Sound(PrintJobStateStatus, x)
  /\ \A x \in {"ready", "busy", "unavailable", "unknown"} : Sound(PrinterStatusCupsStatus, x)
  /\ \A x \in {"ready", "busy", "unavailable", "unknown", "starting", "error"} :
       Sound(PrinterStatusStatus, x)
<1>1. Sound(HealthStatusStatus, "ok")
  BY SoundEnums DEF HealthStatusStatus
<1>2. Sound(PrintJobStatus, "queued")
  BY SoundEnums DEF PrintJobStatus
<1>3. \A x \in {"queued", "processing", "completed", "canceled", "aborted", "unknown"} :
        Sound(PrintJobStateStatus, x)
  BY SoundEnums DEF PrintJobStateStatus
<1>4. \A x \in {"ready", "busy", "unavailable", "unknown"} : Sound(PrinterStatusCupsStatus, x)
  BY SoundEnums DEF PrinterStatusCupsStatus
<1>5. \A x \in {"ready", "busy", "unavailable", "unknown", "starting", "error"} :
        Sound(PrinterStatusStatus, x)
  BY SoundEnums DEF PrinterStatusStatus
<1> QED
  BY <1>1, <1>2, <1>3, <1>4, <1>5

(* A struct of such fields is understood at any level.                     *)
Sound1(type, x) == Fits1(type, x) /\ Valid1(type, x)
Sound2(type, x) == Fits2(type, x) /\ Valid2(type, x)
Sound3(type, x) == Fits(type, x) /\ Valid(type, x)

(* The fields of x are those of the struct, with every required one.       *)
Filled(type, x) ==
  /\ HasFields(type) /\ IsList(x)
  /\ \A n \in DOMAIN x : \E f \in FieldsOf(type) : f.name = n
  /\ \A f \in FieldsOf(type) : f.required => f.name \in DOMAIN x

(* Each field of such a value is one of the struct, found by its name.     *)
LEMMA FilledFields ==
  ASSUME NEW type, NEW x, Filled(type, x)
  PROVE  /\ HasFields(type) /\ x = [n \in DOMAIN x |-> x[n]]
         /\ DOMAIN x \subseteq FieldNames(type)
         /\ \A k \in DOMAIN type.of : /\ type.of[k] \in FieldsOf(type)
                                      /\ type.of[k].required => type.of[k].name \in DOMAIN x
         /\ \A n \in DOMAIN x : \E f \in FieldsOf(type) : f.name = n /\ TypeOf(type, n) = f.type
<1>1. \A f \in FieldsOf(type) : \E k \in DOMAIN type.of : f = type.of[k]
  BY DEF FieldsOf
<1>2. \A k \in DOMAIN type.of : type.of[k] \in FieldsOf(type)
  BY DEF FieldsOf
<1>3. \A n \in DOMAIN x : \E k \in DOMAIN type.of : type.of[k].name = n
  BY <1>1 DEF Filled
<1>4. \A n \in DOMAIN x : \E f \in FieldsOf(type) : f.name = n /\ TypeOf(type, n) = f.type
  <2> SUFFICES ASSUME NEW n \in DOMAIN x
               PROVE  \E f \in FieldsOf(type) : f.name = n /\ TypeOf(type, n) = f.type
    OBVIOUS
  <2>1. PICK k \in DOMAIN type.of : type.of[k].name = n
    BY <1>3
  <2>2. TypeOf(type, n) = type.of[k].type
    BY <2>1, TypeOfField DEF Filled
  <2> QED
    BY <2>1, <2>2, <1>2
<1>5. DOMAIN x \subseteq FieldNames(type)
  BY <1>3 DEF FieldNames
<1> QED
  BY <1>2, <1>4, <1>5 DEF Filled, IsList

(* Leaves and lists of leaves fit and are valid at every level.            *)
LEMMA SoundField ==
  ASSUME NEW type, NEW x, Sound(type, x)
  PROVE  /\ FitsField(FitsLeaf, type, x) /\ FitsField(Fits1, type, x)
         /\ FitsField(Fits2, type, x)
         /\ ValidField(ValidLeaf, type, x) /\ ValidField(Valid1, type, x)
         /\ ValidField(Valid2, type, x)
  BY DEF Sound, IsLeaf, IsList, LeafKinds, FitsField, FitsOne, FitsLeaf, ValidField, ValidOne

(* A struct of sound fields is sound at every level.                       *)
LEMMA FlatStruct ==
  ASSUME NEW type, NEW x, Filled(type, x),
         \A f \in FieldsOf(type) : f.name \in DOMAIN x => Sound(f.type, x[f.name])
  PROVE  Sound1(type, x) /\ Sound2(type, x) /\ Sound3(type, x)
<1>1. \A n \in DOMAIN x : Sound(TypeOf(type, n), x[n])
  BY FilledFields
<1>2. \A k \in DOMAIN type.of :
        type.of[k].name \in DOMAIN x => Sound(type.of[k].type, x[type.of[k].name])
  BY FilledFields
<1>3. Fits1(type, x)
  BY SoundField, <1>1, FilledFields DEF Fits1, FitsStruct
<1>4. Fits2(type, x)
  BY SoundField, <1>1, FilledFields DEF Fits2, FitsStruct
<1>5. Fits(type, x)
  BY SoundField, <1>1, FilledFields DEF Fits, FitsStruct
<1>6. Valid1(type, x) /\ Valid2(type, x) /\ Valid(type, x)
  BY SoundField, <1>2 DEF Valid1, Valid2, Valid, ValidStruct
<1> QED
  BY <1>3, <1>4, <1>5, <1>6 DEF Sound1, Sound2, Sound3

(* A struct whose fields hold structs of the level below.                  *)
LEMMA NestedStruct ==
  ASSUME NEW type, NEW x, Filled(type, x)
  PROVE  /\ (\A f \in FieldsOf(type) : f.name \in DOMAIN x =>
                /\ FitsField(Fits1, f.type, x[f.name])
                /\ ValidField(Valid1, f.type, x[f.name])) => Sound2(type, x)
         /\ (\A f \in FieldsOf(type) : f.name \in DOMAIN x =>
                /\ FitsField(Fits2, f.type, x[f.name])
                /\ ValidField(Valid2, f.type, x[f.name])) => Sound3(type, x)
<1>1. ASSUME \A f \in FieldsOf(type) : f.name \in DOMAIN x =>
               /\ FitsField(Fits1, f.type, x[f.name])
               /\ ValidField(Valid1, f.type, x[f.name])
      PROVE  Sound2(type, x)
  <2>1. \A n \in DOMAIN x : FitsField(Fits1, TypeOf(type, n), x[n])
    BY <1>1, FilledFields
  <2>2. Fits2(type, x)
    BY <2>1, FilledFields DEF Fits2, FitsStruct
  <2>3. Valid2(type, x)
    BY <1>1, FilledFields DEF Valid2, ValidStruct
  <2> QED
    BY <2>2, <2>3 DEF Sound2
<1>2. ASSUME \A f \in FieldsOf(type) : f.name \in DOMAIN x =>
               /\ FitsField(Fits2, f.type, x[f.name])
               /\ ValidField(Valid2, f.type, x[f.name])
      PROVE  Sound3(type, x)
  <2>1. \A n \in DOMAIN x : FitsField(Fits2, TypeOf(type, n), x[n])
    BY <1>2, FilledFields
  <2>2. Fits(type, x)
    BY <2>1, FilledFields DEF Fits, FitsStruct
  <2>3. Valid(type, x)
    BY <1>2, FilledFields DEF Valid, ValidStruct
  <2> QED
    BY <2>2, <2>3 DEF Sound3
<1> QED
  BY <1>1, <1>2

(* A list of structs of the level below.                                   *)
LEMMA StructList ==
  ASSUME NEW type, type.kind = "object", NEW x, IsList(x),
         \A i \in DOMAIN x : Sound2(type, x[i])
  PROVE  FitsField(Fits2, List(type), x) /\ ValidField(Valid2, List(type), x)
  BY DEF Sound2, IsList, List, FitsField, FitsOne, ValidField, ValidOne

-----------------------------------------------------------------------------
(* What the handlers answer is understood.                                 *)
LEMMA ErrorSound ==
  ASSUME NEW code
  PROVE  Sound3(Error, ErrorValue(code))
<1> DEFINE x == ErrorValue(code)
<1>1. DOMAIN x = {"code", "message"} /\ IsList(x)
  BY DEF ErrorValue, IsList
<1> HIDE DEF x
<1>2. Filled(Error, x)
  BY <1>1, ErrorSchema DEF Filled, Required
<1>3. \A f \in FieldsOf(Error) : Sound(f.type, x[f.name])
  BY ErrorSchema, SoundTexts DEF Required
<1> QED
  BY <1>2, <1>3, FlatStruct DEF x

(* GET /healthz.                                                           *)
LEMMA HealthSound ==
  Sound3(HealthStatus, [status |-> "ok"])
<1> DEFINE x == [status |-> "ok"]
<1>1. DOMAIN x = {"status"} /\ IsList(x) /\ x["status"] = "ok"
  BY DEF IsList
<1> HIDE DEF x
<1>2. Filled(HealthStatus, x)
  BY <1>1, HealthStatusSchema DEF Filled, Required
<1>3. \A f \in FieldsOf(HealthStatus) : Sound(f.type, x[f.name])
  BY <1>1, HealthStatusSchema, SoundStatuses DEF Required
<1> QED
  BY <1>2, <1>3, FlatStruct DEF x

(* POST /print, when the job is queued.                                    *)
LEMMA PrintJobSound ==
  ASSUME NEW job, NEW printer
  PROVE  Sound3(PrintJob, [job_id |-> job, printer_id |-> printer, status |-> "queued"])
<1> DEFINE x == [job_id |-> job, printer_id |-> printer, status |-> "queued"]
<1>1. DOMAIN x = {"job_id", "printer_id", "status"} /\ IsList(x) /\ x["status"] = "queued"
  BY DEF IsList
<1> HIDE DEF x
<1>2. Filled(PrintJob, x)
  BY <1>1, PrintJobSchema DEF Filled, Required
<1>3. \A f \in FieldsOf(PrintJob) : Sound(f.type, x[f.name])
  BY <1>1, PrintJobSchema, SoundTexts, SoundStatuses DEF Required
<1> QED
  BY <1>2, <1>3, FlatStruct DEF x

(* GET /jobs/{id}.                                                         *)
LEMMA JobSound ==
  ASSUME NEW arg, NEW x \in JobValues(arg)
  PROVE  Sound3(PrintJobState, x)
<1> DEFINE states == {"queued", "processing", "completed", "canceled", "aborted", "unknown"}
<1>1. /\ DOMAIN x \in { {"job_id", "status", "message"},
                        {"job_id", "printer_id", "status", "message"} }
      /\ IsList(x) /\ x["status"] \in states
  BY DEF JobValues, IsList
<1>2. Filled(PrintJobState, x)
  BY <1>1, PrintJobStateSchema DEF Filled, Required, Optional
<1>3. \A f \in FieldsOf(PrintJobState) : Sound(f.type, x[f.name])
  BY <1>1, PrintJobStateSchema, SoundTexts, SoundStatuses DEF Required, Optional
<1> QED
  BY <1>2, <1>3, FlatStruct

(* GET /printers/{id}/status: what the printer has said, or not said,      *)
(* decides which fields there are.                                         *)
LEMMA StatusSound ==
  ASSUME NEW arg, NEW x \in StatusValues(arg)
  PROVE  Sound3(PrinterStatus, x)
<1> DEFINE cups == {"ready", "busy", "unavailable", "unknown"}
<1> DEFINE told == {"ready", "busy", "starting", "error"}
           IsStatus(y) ==
             /\ DOMAIN y \subseteq {"printer_id", "status", "message", "responsive",
                                    "queued_jobs", "reasons", "cups_status"}
             /\ {"printer_id", "status"} \subseteq DOMAIN y
             /\ IsList(y) /\ y["status"] \in cups \cup {"starting", "error"}
             /\ "queued_jobs" \in DOMAIN y => y["queued_jobs"] \in Nat
             /\ "reasons" \in DOMAIN y => IsList(y["reasons"])
             /\ "cups_status" \in DOMAIN y => y["cups_status"] \in cups
           unknown == [printer_id |-> arg, status |-> "unavailable", message |-> "text"]
           unprobed == { [printer_id |-> arg, status |-> c, message |-> "text",
                          cups_status |-> c] : c \in cups }
           failed == [printer_id : {arg}, status : {"starting", "error"}, message : {"text"},
                      cups_status : cups, responsive : BOOLEAN, reasons : {<<"text">>}]
           probed == [printer_id : {arg}, status : told, message : {"text"},
                      cups_status : cups, responsive : {TRUE}, queued_jobs : {0, 2}]
           reasoned == [printer_id : {arg}, status : told, message : {"text"},
                        cups_status : cups, responsive : {TRUE}, queued_jobs : {0, 2},
                        reasons : {<<"paused", "media-empty">>}]
<1>1. IsStatus(x)
  <2>1. x \in {unknown} \cup unprobed \cup failed \cup probed \cup reasoned
    BY DEF StatusValues
  <2>2. IsList(<<"text">>) /\ IsList(<<"paused", "media-empty">>)
    BY DEF IsList
  <2>3. IsStatus(unknown)
    BY DEF IsList
  <2>4. ASSUME NEW y \in unprobed PROVE IsStatus(y)
    BY DEF IsList
  <2>5. ASSUME NEW y \in failed PROVE IsStatus(y)
    <3>1. IsList(y)
      BY DEF IsList
    <3> QED
      BY <2>2, <3>1
  <2>6. ASSUME NEW y \in probed PROVE IsStatus(y)
    <3>1. IsList(y)
      BY DEF IsList
    <3> QED
      BY <3>1
  <2>7. ASSUME NEW y \in reasoned PROVE IsStatus(y)
    <3>1. IsList(y)
      BY DEF IsList
    <3> QED
      BY <2>2, <3>1
  <2> HIDE DEF unknown, unprobed, failed, probed, reasoned, IsStatus
  <2> QED
    BY <2>1, <2>3, <2>4, <2>5, <2>6, <2>7
<1> HIDE DEF cups, unknown, unprobed, failed, probed, reasoned
<1>2. Filled(PrinterStatus, x)
  BY <1>1, PrinterStatusSchema DEF Filled, Required, Optional
<1>3. \A f \in FieldsOf(PrinterStatus) : f.name \in DOMAIN x => Sound(f.type, x[f.name])
  BY <1>1, PrinterStatusSchema, SoundTexts, SoundNumbers, SoundStatuses
     DEF Required, Optional, cups
<1> QED
  BY <1>2, <1>3, FlatStruct

(* A preset of the configuration, with the fields it sets.                 *)
LEMMA PresetSound ==
  ASSUME NEW p, NEW ids, ValidPreset(p, ids)
  PROVE  Sound2(PrintPreset, PresetValue(p))
<1> DEFINE x == PresetValue(p)
           names == {"id", "printer_id", "copies", "duplex", "color_mode", "media",
                     "scaling", "edge_to_edge"}
<1>1. /\ DOMAIN x \subseteq names /\ "id" \in DOMAIN x /\ IsList(x)
      /\ \A n \in DOMAIN x \ {"id"} : /\ OptionOf[n] \in DOMAIN p.options
                                      /\ x[n] = p.options[OptionOf[n]]
  BY DEF PresetValue, OptionOf, IsList
<1> HIDE DEF x
<1>2. /\ "copies" \in DOMAIN x => x["copies"] \in 1 .. 99
      /\ "duplex" \in DOMAIN x => x["duplex"] \in DuplexModes
      /\ "color_mode" \in DOMAIN x => x["color_mode"] \in ColorModes
      /\ "scaling" \in DOMAIN x => x["scaling"] \in ScalingModes
  BY <1>1 DEF OptionOf, ValidPreset, GivesOnly
<1>3. Filled(PrintPreset, x)
  BY <1>1, PrintPresetSchema DEF Filled, Required, Optional
<1>4. \A f \in FieldsOf(PrintPreset) : f.name \in DOMAIN x => Sound(f.type, x[f.name])
  BY <1>2, PrintPresetSchema, SoundTexts, SoundNumbers, SoundModes DEF Required, Optional
<1> QED
  BY <1>3, <1>4, FlatStruct DEF x

(* What is known of the configuration that is served.                      *)
Served(c) ==
  /\ \A i \in DOMAIN c.printers :
       LET caps == c.printers[i].caps IN
       /\ ValidCapabilities(caps)
       /\ IsList(caps.colorModes) /\ IsList(caps.duplexModes)
       /\ IsList(caps.media) /\ IsList(caps.scalingModes)
  /\ \A i \in DOMAIN c.presets : ValidPreset(c.presets[i], PrinterIds(c))

(* config.validate makes sure of it, and Normalize does not undo it.       *)
LEMMA ValidIsServed ==
  ASSUME NEW c \in ConfigFiles, ValidConfig(c)
  PROVE  Served(Normalize(c))
<1> DEFINE n == Normalize(c)
<1>1. n.printers = c.printers /\ n.presets = c.presets
  BY ApiClientAssumption DEF Normalize
<1>2. PrinterIds(n) = PrinterIds(c)
  BY <1>1 DEF PrinterIds
<1>3. \A x \in Seq(STRING) : IsList(x)
  BY DEF IsList
<1> HIDE DEF n
<1>4. ASSUME NEW i \in DOMAIN c.printers
      PROVE  LET caps == c.printers[i].caps IN
             /\ ValidCapabilities(caps)
             /\ IsList(caps.colorModes) /\ IsList(caps.duplexModes)
             /\ IsList(caps.media) /\ IsList(caps.scalingModes)
  <2> DEFINE caps == c.printers[i].caps
  <2>1. {caps.colorModes, caps.duplexModes, caps.media, caps.scalingModes} \subseteq Seq(STRING)
    BY ApiClientAssumption
  <2>2. ValidCapabilities(caps)
    BY DEF ValidConfig, ValidPrinter
  <2> HIDE DEF caps
  <2>3. /\ IsList(caps.colorModes) /\ IsList(caps.duplexModes)
        /\ IsList(caps.media) /\ IsList(caps.scalingModes)
    BY <2>1, <1>3
  <2> QED
    BY <2>2, <2>3 DEF caps
<1>5. \A i \in DOMAIN c.presets : ValidPreset(c.presets[i], PrinterIds(c))
  BY DEF ValidConfig
<1> QED
  BY <1>1, <1>2, <1>4, <1>5 DEF Served, n

(* Capabilities of a printer of the configuration.                         *)
LEMMA CapabilitiesSound ==
  ASSUME NEW p, NEW i \in DOMAIN config.printers, p = config.printers[i], Served(config)
  PROVE  Sound1(PrinterCapabilities, PrinterValue(p).capabilities)
<1> DEFINE caps == p.caps
           x == PrinterValue(p).capabilities
<1>1. x = [color_modes |-> caps.colorModes, duplex_modes |-> caps.duplexModes,
           media |-> caps.media, scaling_modes |-> caps.scalingModes,
           edge_to_edge |-> caps.edgeToEdge, max_copies |-> caps.maxCopies]
  BY DEF PrinterValue
<1>2. /\ IsList(caps.colorModes) /\ IsList(caps.duplexModes)
      /\ IsList(caps.media) /\ IsList(caps.scalingModes)
      /\ \A k \in DOMAIN caps.colorModes : caps.colorModes[k] \in ColorModes
      /\ \A k \in DOMAIN caps.duplexModes : caps.duplexModes[k] \in DuplexModes
      /\ \A k \in DOMAIN caps.scalingModes : caps.scalingModes[k] \in ScalingModes
      /\ caps.edgeToEdge \in EdgeModes /\ caps.maxCopies \in 1 .. 99
  BY DEF Served, ValidCapabilities, ValidValues
<1> HIDE DEF caps, x
<1>3. /\ DOMAIN x = {"color_modes", "duplex_modes", "media", "scaling_modes",
                     "edge_to_edge", "max_copies"}
      /\ x["color_modes"] = caps.colorModes /\ x["duplex_modes"] = caps.duplexModes
      /\ x["media"] = caps.media /\ x["scaling_modes"] = caps.scalingModes
      /\ x["edge_to_edge"] = caps.edgeToEdge /\ x["max_copies"] = caps.maxCopies
      /\ IsList(x)
  BY <1>1 DEF IsList
<1>4. Filled(PrinterCapabilities, x)
  BY <1>3, PrinterCapabilitiesSchema DEF Filled, Required
<1>5. /\ Sound(List(ColorMode), x["color_modes"]) /\ Sound(List(DuplexMode), x["duplex_modes"])
      /\ Sound(List(Text), x["media"]) /\ Sound(List(ScalingMode), x["scaling_modes"])
      /\ Sound(EdgeToEdgeCapability, x["edge_to_edge"]) /\ Sound(Copies, x["max_copies"])
  BY <1>2, <1>3, SoundTexts, SoundNumbers, SoundModes
<1>6. \A f \in FieldsOf(PrinterCapabilities) : Sound(f.type, x[f.name])
  BY <1>5, PrinterCapabilitiesSchema DEF Required
<1> QED
  BY <1>4, <1>6, FlatStruct DEF x

(* A printer of the configuration.                                         *)
LEMMA PrinterSound ==
  ASSUME NEW p, NEW i \in DOMAIN config.printers, p = config.printers[i], Served(config)
  PROVE  Sound2(Printer, PrinterValue(p))
<1> DEFINE x == PrinterValue(p)
<1>1. DOMAIN x = {"id", "display_name", "default", "capabilities"} /\ IsList(x)
  BY DEF PrinterValue, IsList
<1>2. Sound1(PrinterCapabilities, x["capabilities"])
  BY CapabilitiesSound
<1> HIDE DEF x
<1>3. PrinterCapabilities.kind = "object"
  BY PrinterCapabilitiesSchema DEF HasFields
<1>4. Filled(Printer, x)
  BY <1>1, PrinterSchema DEF Filled, Required
<1>5. FitsField(Fits1, PrinterCapabilities, x["capabilities"])
  BY <1>2, <1>3 DEF Sound1, FitsField, FitsOne
<1>6. ValidField(Valid1, PrinterCapabilities, x["capabilities"])
  BY <1>2, <1>3 DEF Sound1, ValidField, ValidOne
<1>7. \A f \in FieldsOf(Printer) :
        FitsField(Fits1, f.type, x[f.name]) /\ ValidField(Valid1, f.type, x[f.name])
  BY <1>5, <1>6, PrinterSchema, SoundTexts, SoundField DEF Required
<1> QED
  BY <1>4, <1>7, NestedStruct DEF x

(* GET /printers: any number of printers.                                  *)
LEMMA PrintersSound ==
  ASSUME Served(config)
  PROVE  Sound3(PrinterList, [printers |-> [i \in DOMAIN config.printers |->
                                              PrinterValue(config.printers[i])]])
<1> DEFINE list == [i \in DOMAIN config.printers |-> PrinterValue(config.printers[i])]
           x == [printers |-> list]
<1>1. IsList(list) /\ \A i \in DOMAIN list : Sound2(Printer, list[i])
  BY PrinterSound DEF IsList
<1> HIDE DEF list
<1>2. DOMAIN x = {"printers"} /\ IsList(x) /\ x["printers"] = list
  BY DEF IsList
<1> HIDE DEF x
<1>3. Filled(PrinterList, x)
  BY <1>2, PrinterListSchema DEF Filled, Required
<1>4. FitsField(Fits2, List(Printer), list) /\ ValidField(Valid2, List(Printer), list)
  BY <1>1, PrinterSchema, StructList DEF HasFields
<1>5. \A f \in FieldsOf(PrinterList) :
        FitsField(Fits2, f.type, x[f.name]) /\ ValidField(Valid2, f.type, x[f.name])
  BY <1>2, <1>4, PrinterListSchema DEF Required
<1> QED
  BY <1>3, <1>5, NestedStruct DEF x, list

(* GET /presets: any number of presets.                                    *)
LEMMA PresetsSound ==
  ASSUME Served(config)
  PROVE  Sound3(PrintPresetList, [presets |-> [i \in DOMAIN config.presets |->
                                                 PresetValue(config.presets[i])]])
<1> DEFINE list == [i \in DOMAIN config.presets |-> PresetValue(config.presets[i])]
           x == [presets |-> list]
<1>1. IsList(list) /\ \A i \in DOMAIN list : Sound2(PrintPreset, list[i])
  BY PresetSound DEF IsList, Served
<1> HIDE DEF list
<1>2. DOMAIN x = {"presets"} /\ IsList(x) /\ x["presets"] = list
  BY DEF IsList
<1> HIDE DEF x
<1>3. Filled(PrintPresetList, x)
  BY <1>2, PrintPresetListSchema DEF Filled, Required
<1>4. FitsField(Fits2, List(PrintPreset), list) /\ ValidField(Valid2, List(PrintPreset), list)
  BY <1>1, PrintPresetSchema, StructList DEF HasFields
<1>5. \A f \in FieldsOf(PrintPresetList) :
        FitsField(Fits2, f.type, x[f.name]) /\ ValidField(Valid2, f.type, x[f.name])
  BY <1>2, <1>4, PrintPresetListSchema DEF Required
<1> QED
  BY <1>3, <1>5, NestedStruct DEF x, list

-----------------------------------------------------------------------------
(* The request of a call: the service reads it as it was meant.            *)
RequestOf(c) ==
  [method |-> MethodOf(c.op), path |-> PathOf(c.op, c.arg), form |-> EncodeForm(c.form)]

(* The parameter of a call is a sequence over some set of tokens.          *)
LEMMA CallPlain ==
  ASSUME NEW c \in Calls
  PROVE  \E S : Plain(S, c.arg)
<1> DEFINE S == STRING \cup Tokens \cup {"%2F"}
<1>1. Tokens \cup {"%2F"} \subseteq S /\ STRING \subseteq S
  OBVIOUS
<1>2. CASE c.op \in Parameterised
  <2>1. c.arg \in Seq(STRING) /\ "%2F" \notin ToSet(c.arg)
    BY <1>2, ApiClientAssumption
  <2>2. \A i \in 1 .. Len(c.arg) : c.arg[i] # "%2F"
    BY <2>1 DEF ToSet
  <2> HIDE DEF S
  <2>3. c.arg \in Seq(S)
    BY <1>1, <2>1, WiderSeq
  <2> QED
    BY <1>1, <2>2, <2>3 DEF Plain
<1>3. CASE c.op \notin Parameterised
  <2>1. c.arg = << >>
    BY <1>3, ApiClientAssumption
  <2> HIDE DEF S
  <2> QED
    BY <1>1, <2>1 DEF Plain
<1> QED
  BY <1>2, <1>3

(* The service routes the request of a call to its operation, and reads    *)
(* the parameter and the form as they were meant.                          *)
LEMMA CallRead ==
  ASSUME NEW c \in Calls
  PROVE  LET path  == RequestOf(c).path
             found == Route(path)
         IN  /\ found.op = c.op /\ c.op \in Ops /\ Unescape(found.arg) = c.arg
             /\ c.op \notin Parameterised \/ c.arg \notin NoSegment => IsClean(path)
             /\ DecodeForm(RequestOf(c).form) = c.form
             /\ c = [op |-> c.op, arg |-> c.arg, form |-> c.form] /\ c # Nothing
<1> DEFINE path == PathOf(c.op, c.arg)
<1>1. RequestOf(c).path = path /\ RequestOf(c).form = EncodeForm(c.form)
  BY DEF RequestOf
<1>2. PICK S : Plain(S, c.arg)
  BY CallPlain
<1>3. Unescape(Escape(c.arg)) = c.arg
  BY <1>2, Escaped
<1>4. c.op \in Ops
  BY ApiClientAssumption DEF Ops
<1>5. ASSUME c.op \in Parameterised
      PROVE  /\ Route(path).op = c.op /\ Unescape(Route(path).arg) = c.arg
             /\ c.op \notin Parameterised \/ c.arg \notin NoSegment => IsClean(path)
  <2>1. c.op \in {"getPrintJob", "getPrinterStatus"}
    BY <1>5 DEF Parameterised
  <2>2. /\ Route(path) = Leaf(c.op, Escape(c.arg))
        /\ c.arg \notin NoSegment => IsClean(path)
    BY <1>2, <2>1, JobPath, StatusPath
  <2> HIDE DEF path
  <2>3. Route(path).op = c.op /\ Unescape(Route(path).arg) = c.arg
    BY <1>3, <2>2 DEF Leaf
  <2> QED
    BY <1>5, <2>2, <2>3
<1>6. ASSUME c.op \notin Parameterised
      PROVE  /\ Route(path).op = c.op /\ Unescape(Route(path).arg) = c.arg
             /\ c.op \notin Parameterised \/ c.arg \notin NoSegment => IsClean(path)
  <2>1. c.arg = << >>
    BY <1>6, ApiClientAssumption
  <2>2. Escape(c.arg) = << >>
    <3>1. Escape(c.arg) \in Seq(S) /\ Len(Escape(c.arg)) = Len(c.arg)
      BY <1>2, Escaped
    <3>2. Len(Escape(c.arg)) = 0
      BY <2>1, <3>1
    <3> QED
      BY <3>1, <3>2, EmptySeq
  <2>3. Route(path) = Leaf(c.op, << >>) /\ IsClean(path)
    BY <1>2, <1>4, <1>6, <2>1, FixedPath DEF Plain
  <2> HIDE DEF path
  <2>4. Route(path).op = c.op /\ Unescape(Route(path).arg) = c.arg
    BY <1>3, <2>2, <2>3 DEF Leaf
  <2> QED
    BY <2>3, <2>4
<1>7. DecodeForm(EncodeForm(c.form)) = c.form
  <2>1. WritableForm(c.form)
    BY ApiClientAssumption DEF WritableForm, FieldNames, ToSet
  <2> QED
    BY <2>1, FormReadBack
<1>8. c = [op |-> c.op, arg |-> c.arg, form |-> c.form]
  BY ApiClientAssumption
<1>9. c # Nothing
  <2>1. DOMAIN c = {"op", "arg", "form"}
    BY ONLY <1>8
  <2>2. DOMAIN Nothing = {}
    BY DEF Nothing
  <2> QED
    BY <2>1, <2>2
<1> QED
  BY <1>1, <1>4, <1>5, <1>6, <1>7, <1>8, <1>9

-----------------------------------------------------------------------------
(* The reply: what was said is understood.                                 *)
IsReply(r) == DOMAIN r = {"status", "json", "body"}

Understandable(op, r, answer) ==
  LET type == ReplyType(op, r.status) IN
  /\ r.status \in Statuses(op) /\ r.json = TRUE
  /\ r.body = Encode(type[2], answer[2]) /\ answer = <<type[1], answer[2]>>
  /\ Sound3(type[2], answer[2])

(* Every answer of a handler is written as a status and a body that the    *)
(* operation has, and is a sound value of its schema.                      *)
LEMMA AnswerUnderstandable ==
  ASSUME Served(config), NEW op \in Ops, NEW arg, NEW answer \in HandlerAnswers(op, arg)
  PROVE  IsReply(Written(op, answer)) /\ Understandable(op, Written(op, answer), answer)
<1> DEFINE status == StatusOf(answer[1])
           type == ReplyType(op, status)
           r == Written(op, answer)
<1>1. /\ r.status = status /\ r.json = TRUE /\ r.body = Encode(type[2], answer[2])
      /\ IsReply(r)
  BY DEF Written, IsReply
<1>2. /\ status \in Statuses(op) /\ answer = <<type[1], answer[2]>>
      /\ Sound3(type[2], answer[2])
  <2>1. CASE op = "healthCheck"
    <3>1. answer = <<"HealthStatus", [status |-> "ok"]>>
      BY <2>1 DEF HandlerAnswers
    <3>2. status = 200
      BY <3>1 DEF StatusOf
    <3>3. type = <<"HealthStatus", HealthStatus>>
      BY <2>1 DEF ReplyType
    <3> HIDE DEF status, type
    <3> QED
      BY <2>1, <3>1, <3>2, <3>3, HealthSound DEF Statuses
  <2>2. CASE op = "listPrinters"
    <3> DEFINE x == [printers |-> [i \in DOMAIN config.printers |->
                                     PrinterValue(config.printers[i])]]
    <3>1. answer = <<"PrinterList", x>>
      BY <2>2 DEF HandlerAnswers
    <3>2. Sound3(PrinterList, x)
      BY PrintersSound
    <3> HIDE DEF x
    <3>3. status = 200
      BY <3>1 DEF StatusOf
    <3>4. type = <<"PrinterList", PrinterList>>
      BY <2>2 DEF ReplyType
    <3> HIDE DEF status, type
    <3> QED
      BY <2>2, <3>1, <3>2, <3>3, <3>4 DEF Statuses
  <2>3. CASE op = "listPresets"
    <3> DEFINE x == [presets |-> [i \in DOMAIN config.presets |->
                                    PresetValue(config.presets[i])]]
    <3>1. answer = <<"PrintPresetList", x>>
      BY <2>3 DEF HandlerAnswers
    <3>2. Sound3(PrintPresetList, x)
      BY PresetsSound
    <3> HIDE DEF x
    <3>3. status = 200
      BY <3>1 DEF StatusOf
    <3>4. type = <<"PrintPresetList", PrintPresetList>>
      BY <2>3 DEF ReplyType
    <3> HIDE DEF status, type
    <3> QED
      BY <2>3, <3>1, <3>2, <3>3, <3>4 DEF Statuses
  <2>4. CASE op = "getPrintJob"
    <3>1. PICK x \in JobValues(arg) : answer = <<"PrintJobState", x>>
      BY <2>4 DEF HandlerAnswers
    <3>2. status = 200
      BY <3>1 DEF StatusOf
    <3>3. type = <<"PrintJobState", PrintJobState>>
      BY <2>4 DEF ReplyType
    <3> HIDE DEF status, type
    <3> QED
      BY <2>4, <3>1, <3>2, <3>3, JobSound DEF Statuses
  <2>5. CASE op = "getPrinterStatus"
    <3>1. PICK x \in StatusValues(arg) : answer = <<"PrinterStatus", x>>
      BY <2>5 DEF HandlerAnswers
    <3>2. status = 200
      BY <3>1 DEF StatusOf
    <3>3. type = <<"PrinterStatus", PrinterStatus>>
      BY <2>5 DEF ReplyType
    <3> HIDE DEF status, type
    <3> QED
      BY <2>5, <3>1, <3>2, <3>3, StatusSound DEF Statuses
  <2>6. CASE op = "printDocument"
    <3>1. answer \in PrintValues /\ type = PrintReplyType(status)
      BY <2>6 DEF HandlerAnswers, ReplyType
    <3>2. CASE \E i \in DOMAIN config.printers :
                 answer = <<"PrintJob", [job_id |-> "job-7", status |-> "queued",
                                         printer_id |-> config.printers[i].id]>>
      <4>1. PICK i \in DOMAIN config.printers :
              answer = <<"PrintJob", [job_id |-> "job-7", status |-> "queued",
                                      printer_id |-> config.printers[i].id]>>
        BY <3>2
      <4> DEFINE x == [job_id |-> "job-7", printer_id |-> config.printers[i].id,
                       status |-> "queued"]
      <4>2. answer = <<"PrintJob", x>>
        BY <4>1
      <4>3. Sound3(PrintJob, x)
        BY PrintJobSound
      <4> HIDE DEF x
      <4>4. status = 202
        BY <4>2 DEF StatusOf
      <4>5. type = <<"PrintJob", PrintJob>>
        BY <3>1, <4>4 DEF PrintReplyType
      <4> HIDE DEF status, type
      <4> QED
        BY <2>6, <4>2, <4>3, <4>4, <4>5 DEF Statuses
    <3>3. ASSUME NEW code, answer = <<"PrintDocumentBadRequest", ErrorValue(code)>>
          PROVE  /\ status \in Statuses(op) /\ answer = <<type[1], answer[2]>>
                 /\ Sound3(type[2], answer[2])
      <4>1. status = 400
        BY <3>3 DEF StatusOf
      <4>2. type = <<"PrintDocumentBadRequest", Error>>
        BY <3>1, <4>1 DEF PrintReplyType
      <4> HIDE DEF status, type
      <4> QED
        BY <2>6, <3>3, <4>1, <4>2, ErrorSound DEF Statuses
    <3>4. CASE answer = <<"PrintDocumentRequestEntityTooLarge", ErrorValue("file_too_large")>>
      <4>1. status = 413
        BY <3>4 DEF StatusOf
      <4>2. type = <<"PrintDocumentRequestEntityTooLarge", Error>>
        BY <3>1, <4>1 DEF PrintReplyType
      <4> HIDE DEF status, type
      <4> QED
        BY <2>6, <3>4, <4>1, <4>2, ErrorSound DEF Statuses
    <3>5. CASE answer = <<"PrintDocumentInternalServerError", ErrorValue("cups_error")>>
      <4>1. status = 500
        BY <3>5 DEF StatusOf
      <4>2. type = <<"PrintDocumentInternalServerError", Error>>
        BY <3>1, <4>1 DEF PrintReplyType
      <4> HIDE DEF status, type
      <4> QED
        BY <2>6, <3>5, <4>1, <4>2, ErrorSound DEF Statuses
    <3> HIDE DEF status, type
    <3> QED
      BY <3>1, <3>2, <3>3, <3>4, <3>5 DEF PrintValues
  <2> QED
    BY <2>1, <2>2, <2>3, <2>4, <2>5, <2>6, OpsListed
<1> HIDE DEF r
<1> QED
  BY <1>1, <1>2 DEF Understandable, r

(* Such a reply is read as what was said; altered, it is read as that or   *)
(* not believed, as the alteration says the same or does harm.             *)
LEMMA ReadBack ==
  ASSUME NEW op, NEW r, NEW answer, Understandable(op, r, answer)
  PROVE  /\ Read(op, r) = answer
         /\ \A v \in Variants(ReplyType(op, r.status)[2], r.body) :
              \A q : q.status = r.status /\ q.json = TRUE /\ q.body = v.body =>
                Read(op, q) = IF v.harm THEN Failed ELSE answer
<1> DEFINE name == ReplyType(op, r.status)[1]
           type == ReplyType(op, r.status)[2]
           value == answer[2]
           Reads(j)   == Decodes(type, j) /\ Decode(type, j) = value
           Refuses(j) == ~ (Decodes(type, j) /\ Valid(type, Decode(type, j)))
<1>1. /\ r.status \in Statuses(op) /\ r.json = TRUE /\ r.body = Encode(type, value)
      /\ answer = <<name, value>> /\ Fits(type, value) /\ Valid(type, value)
  BY DEF Understandable, Sound3
<1>2. UnderstoodStruct3(type, value)
  BY <1>1, StructUnderstood3
<1>3. /\ Reads(r.body)
      /\ \A v \in Variants(type, r.body) : IF v.harm THEN Refuses(v.body) ELSE Reads(v.body)
  BY <1>1, <1>2 DEF UnderstoodStruct3
<1>4. ASSUME NEW q, q.status = r.status, q.json = TRUE
      PROVE  Read(op, q) = IF Decodes(type, q.body) /\ Valid(type, Decode(type, q.body))
                             THEN <<name, Decode(type, q.body)>> ELSE Failed
  BY <1>1, <1>4 DEF Read
<1> HIDE DEF name, type, value
<1>5. ASSUME NEW q, q.status = r.status, q.json = TRUE, Reads(q.body)
      PROVE  Read(op, q) = answer
  BY <1>1, <1>4, <1>5
<1>6. ASSUME NEW q, q.status = r.status, q.json = TRUE, Refuses(q.body)
      PROVE  Read(op, q) = Failed
  BY <1>4, <1>6
<1> HIDE DEF Reads, Refuses
<1>7. Read(op, r) = answer
  BY <1>1, <1>3, <1>5
<1>8. ASSUME NEW v \in Variants(type, r.body), NEW q,
             q.status = r.status, q.json = TRUE, q.body = v.body
      PROVE  Read(op, q) = IF v.harm THEN Failed ELSE answer
  <2>1. IF v.harm THEN Refuses(q.body) ELSE Reads(q.body)
    BY <1>3, <1>8
  <2> QED
    BY <2>1, <1>5, <1>6, <1>8
<1> QED
  BY <1>7, <1>8 DEF type

(* A reply that broke off is not believed, nor is one whose status the     *)
(* operation does not have.                                                *)
LEMMA BrokenRead ==
  ASSUME NEW op, NEW r
  PROVE  /\ r.status \notin Statuses(op) => Read(op, r) = Failed
         /\ r.body = Broken => Read(op, r) = Failed
<1>1. \A type : ~ Decodes(type, Broken)
  BY DEF Decodes, DecodesStruct, Broken
<1>2. r.body = Broken => Read(op, r) = Failed
  BY <1>1 DEF Read
<1> QED
  BY <1>2 DEF Read

-----------------------------------------------------------------------------
(* The invariant: what is on its way is what was asked and what was said.  *)
Quiet == wire = Nothing /\ given = Nothing /\ said = Nothing /\ reply = Nothing

SaidInv ==
  said # Nothing =>
    /\ given = Nothing =>
         \/ key # "right" /\ call.op # "healthCheck"
         \/ MayBeRefused
    /\ given # Nothing => given = call

ReplyInv ==
  phase = "waiting" /\ reply # Nothing =>
    /\ IsReply(reply) /\ said # Nothing
    /\ transit = "intact" =>
         \/ Understandable(call.op, reply, said)
         \/ given = Nothing /\ reply.status \notin Statuses(call.op)
    /\ transit = "changed" => Read(call.op, reply) = said
    /\ transit = "harmed" => Read(call.op, reply) = Failed

ClientInv ==
  /\ Served(config)
  /\ phase \in {"idle", "waiting", "closed"}
  /\ transit \in {"intact", "changed", "harmed"}
  /\ phase = "idle" => Quiet /\ call = Nothing /\ result = Nothing /\ transit = "intact"
  /\ phase # "idle" => call \in Calls
  /\ phase = "waiting" => result = Nothing
  /\ phase = "waiting" /\ reply = Nothing => transit = "intact"
  /\ wire # Nothing =>
       /\ phase # "idle" /\ wire = RequestOf(call)
       /\ given = Nothing /\ said = Nothing /\ reply = Nothing
       /\ phase = "closed" => transit = "harmed"
  /\ said = Nothing => given = Nothing /\ reply = Nothing
  /\ SaidInv /\ ReplyInv
  /\ phase = "closed" /\ given # Nothing /\ transit # "harmed" => result = said

(* At first nothing was asked.                                             *)
LEMMA ClientInit == Init => ClientInv
<1> SUFFICES ASSUME Init PROVE ClientInv
  OBVIOUS
<1>1. Served(config)
  BY ValidIsServed DEF Init
<1> QED
  BY <1>1 DEF Init, ClientInv, Quiet, SaidInv, ReplyInv

(* The request that is sent is that of the call.                           *)
LEMMA SendKeeps ==
  ASSUME ClientInv, NEW c \in Calls, Send(c)
  PROVE  ClientInv'
<1>1. phase = "idle" /\ Quiet /\ transit = "intact" /\ result = Nothing
  BY DEF Send, ClientInv
<1>2. /\ call' = c /\ UNCHANGED << config, key, given, said, reply, transit >>
      /\ \/ phase' = "closed" /\ wire' = wire
         \/ phase' = "waiting" /\ wire' = RequestOf(c) /\ result' = result
  BY DEF Send, RequestOf
<1>3. Served(config)' 
  BY <1>2 DEF ClientInv, Served
<1> QED
  BY <1>1, <1>2, <1>3 DEF ClientInv, Quiet, SaidInv, ReplyInv

(* An altered reply is read as what was said, or is not believed.          *)
LEMMA AlterKeeps ==
  ASSUME ClientInv, Alter
  PROVE  ClientInv'
<1>1. /\ phase = "waiting" /\ reply # Nothing /\ transit = "intact"
      /\ IsReply(reply) /\ said # Nothing /\ wire = Nothing
      /\ UNCHANGED << config, phase, call, key, wire, upload, given, said, result >>
  BY DEF Alter, ClientInv, ReplyInv
<1>2. /\ IsReply(reply') /\ transit' \in {"changed", "harmed"}
      /\ transit' = "changed" => Read(call.op, reply') = said
      /\ transit' = "harmed" => Read(call.op, reply') = Failed
  <2>1. CASE reply' = [reply EXCEPT !.body = Broken] /\ transit' = "harmed"
    <3>1. IsReply(reply') /\ reply'.body = Broken
      BY <1>1, <2>1 DEF IsReply
    <3> QED
      BY <2>1, <3>1, BrokenRead
  <2>2. CASE /\ reply' = [status |-> 502, json |-> FALSE, body |-> Broken]
             /\ transit' = "harmed"
    <3>1. IsReply(reply') /\ reply'.body = Broken
      BY <2>2 DEF IsReply
    <3> QED
      BY <2>2, <3>1, BrokenRead
  <2>3. CASE /\ reply.status \in Statuses(call.op)
             /\ \E v \in Variants(ReplyType(call.op, reply.status)[2], reply.body) :
                  /\ reply' = [reply EXCEPT !.body = v.body]
                  /\ transit' = IF v.harm THEN "harmed" ELSE "changed"
    <3>1. PICK v \in Variants(ReplyType(call.op, reply.status)[2], reply.body) :
            /\ reply' = [reply EXCEPT !.body = v.body]
            /\ transit' = IF v.harm THEN "harmed" ELSE "changed"
      BY <2>3
    <3>2. Understandable(call.op, reply, said)
      BY <1>1, <2>3 DEF ClientInv, ReplyInv
    <3>3. IsReply(reply') /\ reply'.status = reply.status /\ reply'.json = reply.json
      BY <1>1, <3>1 DEF IsReply
    <3>4. reply'.body = v.body
      <4>1. PICK body : body = v.body
        OBVIOUS
      <4> QED
        BY <1>1, <3>1, <4>1 DEF IsReply
    <3>5. reply.json = TRUE
      BY <3>2 DEF Understandable
    <3>6. Read(call.op, reply') = IF v.harm THEN Failed ELSE said
      BY <3>2, <3>3, <3>4, <3>5, ReadBack
    <3> QED
      BY <3>1, <3>3, <3>6
  <2> QED
    BY <2>1, <2>2, <2>3 DEF Alter
<1>3. Served(config)' /\ SaidInv'
  BY <1>1 DEF ClientInv, Served, SaidInv, MayBeRefused
<1>4. reply' # Nothing
  <2>1. DOMAIN reply' # DOMAIN Nothing
    BY <1>2 DEF IsReply, Nothing
  <2> QED
    BY <2>1
<1>5. ReplyInv'
  BY <1>1, <1>2 DEF ReplyInv
<1> QED
  BY <1>1, <1>2, <1>3, <1>4, <1>5 DEF ClientInv

(* The caller is told what was said, or that the call failed.              *)
LEMMA ReceiveKeeps ==
  ASSUME ClientInv, Receive
  PROVE  ClientInv' /\ result' \in {said, Failed}
<1>1. /\ phase = "waiting" /\ reply # Nothing /\ phase' = "closed" /\ reply' = Nothing
      /\ result' = Read(call.op, reply) /\ call \in Calls /\ wire = Nothing
      /\ IsReply(reply) /\ said # Nothing
      /\ UNCHANGED << config, call, key, wire, upload, given, said, transit >>
  BY DEF Receive, ClientInv, ReplyInv
<1>2. /\ Read(call.op, reply) \in {said, Failed}
      /\ given # Nothing /\ transit # "harmed" => Read(call.op, reply) = said
  <2>1. CASE transit = "intact"
    <3>1. CASE Understandable(call.op, reply, said)
      BY <3>1, ReadBack
    <3>2. CASE given = Nothing /\ reply.status \notin Statuses(call.op)
      BY <3>2, BrokenRead
    <3> QED
      BY <1>1, <2>1, <3>1, <3>2 DEF ClientInv, ReplyInv
  <2>2. CASE transit # "intact"
    BY <1>1, <2>2 DEF ClientInv, ReplyInv
  <2> QED
    BY <2>1, <2>2
<1>3. Served(config)' /\ SaidInv'
  BY <1>1 DEF ClientInv, Served, SaidInv, MayBeRefused
<1> QED
  BY <1>1, <1>2, <1>3 DEF ClientInv, ReplyInv

(* Whoever gives up is told nothing of the service.                        *)
LEMMA GiveUpKeeps ==
  ASSUME ClientInv, GiveUp
  PROVE  ClientInv'
<1>1. /\ phase = "waiting" /\ phase' = "closed" /\ transit' = "harmed"
      /\ UNCHANGED << config, call, key, wire, upload, given, said, reply >>
  BY DEF GiveUp
<1>2. Served(config)' /\ SaidInv'
  BY <1>1 DEF ClientInv, Served, SaidInv, MayBeRefused
<1> QED
  BY <1>1, <1>2 DEF ClientInv, ReplyInv

(* What a step of the service does when it refuses: a path of nobody.      *)
LEMMA NotFound ==
  ASSUME Refuse(404, FALSE, "none")
  PROVE  /\ IsReply(reply') /\ said' # Nothing /\ given' = given
         /\ \A op : reply'.status \notin Statuses(op)
<1>1. /\ DOMAIN reply' = {"status", "json", "body"} /\ reply'.status = 404
      /\ said' = <<"refused", ErrorValue("none")>> /\ given' = given
  BY DEF Refuse
<1>2. said' # Nothing
  BY <1>1 DEF Nothing
<1> QED
  BY <1>1, <1>2 DEF IsReply, Statuses

(* No key or a wrong one.                                                  *)
LEMMA NotAllowed ==
  ASSUME Refuse(401, TRUE, "unauthorized")
  PROVE  /\ IsReply(reply') /\ said' # Nothing /\ given' = given
         /\ \A op : reply'.status \notin Statuses(op)
<1>1. /\ DOMAIN reply' = {"status", "json", "body"} /\ reply'.status = 401
      /\ said' = <<"refused", ErrorValue("unauthorized")>> /\ given' = given
  BY DEF Refuse
<1>2. said' # Nothing
  BY <1>1 DEF Nothing
<1> QED
  BY <1>1, <1>2 DEF IsReply, Statuses

(* A value that is not allowed.                                            *)
LEMMA BadRequest ==
  ASSUME NEW code, Refuse(400, TRUE, code)
  PROVE  /\ IsReply(reply') /\ said' # Nothing /\ given' = given
         /\ Understandable("printDocument", reply', said')
         /\ \A op : op # "printDocument" => reply'.status \notin Statuses(op)
<1> DEFINE value == ErrorValue(code)
<1>1. Sound3(Error, value)
  BY ErrorSound
<1>2. /\ reply' = [status |-> 400, json |-> TRUE, body |-> Encode(Error, value)]
      /\ said' = <<"PrintDocumentBadRequest", value>> /\ given' = given
  BY DEF Refuse
<1>3. ReplyType("printDocument", 400) = <<"PrintDocumentBadRequest", Error>>
  BY DEF ReplyType, PrintReplyType
<1> HIDE DEF value
<1>4. /\ IsReply(reply') /\ said' # Nothing /\ reply'.status = 400
      /\ reply'.json = TRUE /\ reply'.body = Encode(Error, value) /\ said'[2] = value
  BY <1>2 DEF IsReply, Nothing
<1>5. 400 \in Statuses("printDocument")
  BY DEF Statuses
<1>6. Understandable("printDocument", reply', said')
  BY <1>1, <1>2, <1>3, <1>4, <1>5 DEF Understandable
<1> QED
  BY <1>2, <1>4, <1>6 DEF Statuses

(* A document over the limit.                                              *)
LEMMA TooLarge ==
  ASSUME NEW code, Refuse(413, TRUE, code)
  PROVE  /\ IsReply(reply') /\ said' # Nothing /\ given' = given
         /\ Understandable("printDocument", reply', said')
<1> DEFINE value == ErrorValue(code)
<1>1. Sound3(Error, value)
  BY ErrorSound
<1>2. /\ reply' = [status |-> 413, json |-> TRUE, body |-> Encode(Error, value)]
      /\ said' = <<"PrintDocumentRequestEntityTooLarge", value>> /\ given' = given
  BY DEF Refuse
<1>3. ReplyType("printDocument", 413) = <<"PrintDocumentRequestEntityTooLarge", Error>>
  BY DEF ReplyType, PrintReplyType
<1> HIDE DEF value
<1>4. /\ IsReply(reply') /\ said' # Nothing /\ reply'.status = 413
      /\ reply'.json = TRUE /\ reply'.body = Encode(Error, value) /\ said'[2] = value
  BY <1>2 DEF IsReply, Nothing
<1>5. 413 \in Statuses("printDocument")
  BY DEF Statuses
<1>6. Understandable("printDocument", reply', said')
  BY <1>1, <1>2, <1>3, <1>4, <1>5 DEF Understandable
<1> QED
  BY <1>2, <1>4, <1>6

(* The handler is given the call, or the request is refused for a reason,  *)
(* and what is said is written so that the client can read it.             *)
LEMMA ServeKeeps ==
  ASSUME ClientInv, Serve
  PROVE  /\ ClientInv'
         /\ call # Nothing /\ said = Nothing /\ said' # Nothing
         /\ given' \in {given, call}
<1> DEFINE found == Route(wire.path)
           arg   == Unescape(found.arg)
           form  == DecodeForm(wire.form)
           allowed == found.op = "healthCheck" \/ key = "right"
           decoded == /\ found.op \in Parameterised => arg # << >>
                      /\ found.op = "printDocument" =>
                           upload # "lost" /\ Valid(PrintDocumentReq, form)
           clean == IsClean(wire.path)
           Pass(answer) ==
             /\ given' = [op |-> found.op, arg |-> arg, form |-> form]
             /\ said' = answer /\ reply' = Written(found.op, answer)
<1>1. /\ wire' = Nothing
      /\ UNCHANGED << config, phase, call, key, upload, transit, result >>
      /\ IF ~ clean \/ found.op = "none" THEN Refuse(404, FALSE, "none")
         ELSE IF ~ allowed THEN Refuse(401, TRUE, "unauthorized")
         ELSE IF found.op = "printDocument" /\ upload = "large"
           THEN Refuse(413, TRUE, "file_too_large")
         ELSE IF ~ decoded THEN Refuse(400, TRUE, "invalid_request")
         ELSE \E answer \in HandlerAnswers(found.op, arg) : Pass(answer)
  BY ZenonT(60) DEF Serve
<1>2. /\ wire # Nothing /\ wire = RequestOf(call) /\ phase \in {"waiting", "closed"}
      /\ call \in Calls /\ given = Nothing /\ said = Nothing /\ reply = Nothing
      /\ Served(config)
      /\ phase = "closed" => transit = "harmed"
      /\ phase = "waiting" => transit = "intact"
  BY DEF Serve, ClientInv
<1>3. /\ found.op = call.op /\ arg = call.arg /\ form = call.form
      /\ call.op \notin Parameterised \/ call.arg \notin NoSegment => clean
      /\ call.op \in Ops /\ call # Nothing
      /\ call = [op |-> call.op, arg |-> call.arg, form |-> call.form]
  BY <1>2, CallRead
<1> HIDE DEF found, arg, form, clean
<1>4. call.op # "none"
  BY <1>3, OpsListed
<1> DEFINE Told ==
             /\ IsReply(reply') /\ said' # Nothing /\ given' \in {Nothing, call}
             /\ \/ Understandable(call.op, reply', said')
                \/ given' = Nothing /\ reply'.status \notin Statuses(call.op)
             /\ given' = Nothing =>
                  \/ key # "right" /\ call.op # "healthCheck"
                  \/ MayBeRefused
<1>5. ASSUME ~ clean, Refuse(404, FALSE, "none") PROVE Told
  <2>1. /\ IsReply(reply') /\ said' # Nothing /\ given' = given
        /\ reply'.status \notin Statuses(call.op)
    <3>1. Refuse(404, FALSE, "none")
      BY <1>5
    <3> QED
      BY <3>1, NotFound
  <2>2. MayBeRefused
    BY <1>3, <1>5 DEF MayBeRefused
  <2> QED
    BY <1>2, <2>1, <2>2
<1>6. ASSUME ~ allowed, Refuse(401, TRUE, "unauthorized") PROVE Told
  <2>1. /\ IsReply(reply') /\ said' # Nothing /\ given' = given
        /\ reply'.status \notin Statuses(call.op)
    <3>1. Refuse(401, TRUE, "unauthorized")
      BY <1>6
    <3> QED
      BY <3>1, NotAllowed
  <2>2. key # "right" /\ call.op # "healthCheck"
    BY <1>3, <1>6
  <2> QED
    BY <1>2, <2>1, <2>2
<1>7. ASSUME found.op = "printDocument", upload = "large",
             Refuse(413, TRUE, "file_too_large")
      PROVE  Told
  <2>1. /\ IsReply(reply') /\ said' # Nothing /\ given' = given
        /\ Understandable("printDocument", reply', said')
    BY <1>7, TooLarge
  <2>2. call.op = "printDocument" /\ MayBeRefused
    BY <1>3, <1>7 DEF MayBeRefused
  <2> QED
    BY <1>2, <2>1, <2>2
<1>8. ASSUME ~ decoded, Refuse(400, TRUE, "invalid_request") PROVE Told
  <2>1. /\ IsReply(reply') /\ said' # Nothing /\ given' = given
        /\ Understandable("printDocument", reply', said')
        /\ call.op # "printDocument" => reply'.status \notin Statuses(call.op)
    BY <1>8, BadRequest
  <2>2. MayBeRefused
    BY <1>3, <1>8 DEF MayBeRefused, NoSegment
  <2>3. \/ Understandable(call.op, reply', said')
        \/ given' = Nothing /\ reply'.status \notin Statuses(call.op)
    BY <1>2, <2>1
  <2> QED
    BY <1>2, <2>1, <2>2, <2>3
<1>9. ASSUME NEW answer \in HandlerAnswers(found.op, arg), Pass(answer) PROVE Told
  <2>1. given' = call /\ said' = answer /\ reply' = Written(call.op, answer)
    BY <1>3, <1>9
  <2>2. answer \in HandlerAnswers(call.op, call.arg)
    BY <1>3
  <2>3. IsReply(reply') /\ Understandable(call.op, reply', said')
    <3> DEFINE op == call.op
               id == call.arg
    <3> HIDE DEF op, id
    <3>1. op \in Ops /\ answer \in HandlerAnswers(op, id)
      BY <1>3, <2>2 DEF op, id
    <3>2. /\ IsReply(Written(op, answer))
          /\ Understandable(op, Written(op, answer), answer)
      BY <1>2, <3>1, AnswerUnderstandable, Zenon
    <3> QED
      BY <2>1, <3>2, Zenon DEF op
  <2>4. said' # Nothing
    <3>1. said' = <<ReplyType(call.op, reply'.status)[1], said'[2]>>
      BY <2>3 DEF Understandable
    <3> DEFINE a == ReplyType(call.op, reply'.status)[1]
               b == said'[2]
    <3> HIDE DEF a, b
    <3>2. said' = <<a, b>>
      BY <3>1 DEF a, b
    <3> QED
      BY <3>2 DEF Nothing
  <2> QED
    BY <1>3, <2>1, <2>3, <2>4
<1>10. Told
  <2> HIDE DEF Told, Pass, decoded, allowed
  <2>1. \/ ~ clean /\ Refuse(404, FALSE, "none")
        \/ ~ allowed /\ Refuse(401, TRUE, "unauthorized")
        \/ /\ found.op = "printDocument" /\ upload = "large"
           /\ Refuse(413, TRUE, "file_too_large")
        \/ ~ decoded /\ Refuse(400, TRUE, "invalid_request")
        \/ \E answer \in HandlerAnswers(found.op, arg) : Pass(answer)
    <3>1. found.op # "none"
      BY <1>3, <1>4
    <3> QED
      BY <1>1, <3>1, ZenonT(60)
  <2> QED
    BY <1>5, <1>6, <1>7, <1>8, <1>9, <2>1, ZenonT(60)
<1>11. reply' # Nothing
  <2>1. DOMAIN reply' # DOMAIN Nothing
    BY <1>10 DEF IsReply, Nothing
  <2> QED
    BY <2>1
<1>12. Served(config)' /\ SaidInv'
  <2>1. Served(config)'
    <3>1. config' = config /\ Served(config)
      BY <1>1, <1>2
    <3> QED
      BY <3>1, Zenon DEF Served
  <2> HIDE DEF allowed, decoded, Pass
  <2>2. SaidInv'
    BY <1>1, <1>2, <1>10 DEF SaidInv, MayBeRefused
  <2> QED
    BY <2>1, <2>2
<1>13. ReplyInv'
  BY <1>1, <1>2, <1>10 DEF ReplyInv
<1> HIDE DEF allowed, decoded, Pass
<1>14. ClientInv'
  BY <1>1, <1>2, <1>10, <1>11, <1>12, <1>13 DEF ClientInv
<1> QED
  BY <1>2, <1>3, <1>10, <1>14

(* Every step keeps the invariant.                                         *)
LEMMA ClientStep == ClientInv /\ [Next]_vars => ClientInv'
<1> SUFFICES ASSUME ClientInv, [Next]_vars PROVE ClientInv'
  OBVIOUS
<1>1. CASE Serve
  BY <1>1, ServeKeeps
<1>2. CASE Alter
  BY <1>2, AlterKeeps
<1>3. CASE Receive
  BY <1>3, ReceiveKeeps
<1>4. CASE GiveUp
  BY <1>4, GiveUpKeeps
<1>5. ASSUME NEW c \in Calls, Send(c) PROVE ClientInv'
  BY <1>5, SendKeeps
<1>6. CASE UNCHANGED vars
  BY <1>6 DEF vars, ClientInv, Served, Quiet, SaidInv, MayBeRefused, ReplyInv
<1> QED
  BY <1>1, <1>2, <1>3, <1>4, <1>5, <1>6 DEF Next

(* The invariant holds for every configuration, identifier and form.       *)
THEOREM ClientInvariance == Spec => []ClientInv
<1>1. Init => ClientInv
  BY ClientInit
<1>2. ClientInv /\ [Next]_vars => ClientInv'
  BY ClientStep
<1> QED
  BY <1>1, <1>2, PTL DEF Spec

(* A handler is given the identifier and the form its caller meant.  A     *)
(* request with the right key is turned down only for what openapi.yaml    *)
(* does not allow, for "." or ".." in place of an identifier, or for a     *)
(* body that is too large, breaks off or finds no room in /tmp.            *)
THEOREM ReadAsMeant == Spec => []RequestReadAsMeant
<1>1. ClientInv => RequestReadAsMeant
  BY DEF ClientInv, SaidInv, RequestReadAsMeant
<1> QED
  BY <1>1, ClientInvariance, PTL

(* The client believes whatever the service says of any configuration it   *)
(* can be started with, unless the reply was harmed on its way.            *)
THEOREM RepliesAccepted == Spec => []EveryReplyAccepted
<1>1. ClientInv => EveryReplyAccepted
  BY DEF ClientInv, EveryReplyAccepted
<1> QED
  BY <1>1, ClientInvariance, PTL

(* A call is carried out once at most and as it was asked, and its caller  *)
(* is told what the service said, or that the call failed.                 *)
THEOREM CallImplemented == Spec => ImplementsRemoteCall
<1>1. Init => Remote!Init
  BY DEF Init, Remote!Init
<1>2. ClientInv /\ [Next]_vars => [Remote!Next]_Remote!vars
  <2> SUFFICES ASSUME ClientInv, [Next]_vars PROVE [Remote!Next]_Remote!vars
    OBVIOUS
  <2>1. CASE Serve
    <3>1. /\ call # Nothing /\ said = Nothing /\ said' # Nothing
          /\ given' \in {given, call}
      BY <2>1, ServeKeeps
    <3>2. UNCHANGED << call, result >>
      BY <2>1 DEF Serve
    <3> QED
      BY <3>1, <3>2 DEF Remote!Next, Remote!CarryOut, Remote!Refuse
  <2>2. CASE Alter
    BY <2>2 DEF Alter, Remote!vars
  <2>3. CASE Receive
    <3>1. result' \in {said, Failed}
      BY <2>3, ReceiveKeeps
    <3>2. result = Nothing /\ said # Nothing /\ UNCHANGED << call, given, said >>
      BY <2>3 DEF Receive, ClientInv, ReplyInv
    <3> QED
      BY <3>1, <3>2 DEF Remote!Next, Remote!Tell, Remote!Fail
  <2>4. CASE GiveUp
    BY <2>4 DEF GiveUp, ClientInv, Remote!Next, Remote!Fail
  <2>5. ASSUME NEW c \in Calls, Send(c) PROVE [Remote!Next]_Remote!vars
    <3>1. /\ call = Nothing /\ call' = c /\ result = Nothing
          /\ UNCHANGED << given, said >> /\ result' \in {Failed, result}
      BY <2>5 DEF Send, ClientInv
    <3>2. c # Nothing
      BY CallRead
    <3> QED
      BY <3>1, <3>2 DEF Remote!Next, Remote!Ask, Remote!Fail
  <2>6. CASE UNCHANGED vars
    BY <2>6 DEF vars, Remote!vars
  <2> QED
    BY <2>1, <2>2, <2>3, <2>4, <2>5, <2>6 DEF Next
<1> QED
  BY <1>1, <1>2, ClientInvariance, PTL DEF Spec, ImplementsRemoteCall, Remote!Spec

=============================================================================
