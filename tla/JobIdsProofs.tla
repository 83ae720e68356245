---------------------------- MODULE JobIdsProofs ----------------------------
(***************************************************************************)
(* The identifiers of jobs denote one job each, whatever dashes and digits *)
(* are in the names of the destinations.  The reason is the last dash of   *)
(* an identifier: only digits follow it, so it is where the name ends.     *)
(***************************************************************************)
EXTENDS JobIds, SequenceLemmas

(* A dash of an identifier with only digits, and at least one, behind it.  *)
LastDash(id, k) ==
  /\ k >= 1 /\ k < Len(id) /\ id[k] = Dash
  /\ \A i \in 1 .. Len(id) : i > k => id[i] \in Digits

LEMMA OneLastDash ==
  ASSUME NEW id \in Seq(Chars), NEW k \in Nat, NEW m \in Nat,
         LastDash(id, k), LastDash(id, m)
  PROVE  k = m
<1>1. Dash \notin Digits /\ Len(id) \in Nat
  BY JobIdsAssumption
<1>2. ~ (k < m)
  BY <1>1 DEF LastDash
<1>3. ~ (m < k)
  BY <1>1 DEF LastDash
<1> QED
  BY <1>2, <1>3

(* What the code compares, character by character.                         *)
LEMMA PrefixMeans ==
  ASSUME NEW id \in Seq(Chars), NEW dest \in Seq(Chars),
         NEW k \in Nat, k = Len(dest) + 1
  PROVE  /\ HasPrefix(id, dest) <=>
              /\ k <= Len(id) /\ id[k] = Dash
              /\ \A i \in 1 .. Len(dest) : id[i] = dest[i]
         /\ k <= Len(id) =>
              /\ Sequence(id, dest) \in Seq(Chars)
              /\ Len(Sequence(id, dest)) = Len(id) - k
              /\ \A i \in 1 .. Len(id) - k : Sequence(id, dest)[i] = id[k + i]
<1> DEFINE pre == dest \o <<Dash>>
<1>1. Dash \in Chars /\ Len(dest) \in Nat /\ Len(id) \in Nat
  BY JobIdsAssumption
<1>2. /\ pre \in Seq(Chars) /\ Len(pre) = k /\ pre[k] = Dash
      /\ \A i \in 1 .. Len(dest) : pre[i] = dest[i]
  BY <1>1
<1> HIDE DEF pre
<1>3. IsPrefix(pre, id) <=>
        Len(pre) <= Len(id) /\ \A i \in 1 .. Len(pre) : pre[i] = id[i]
  BY <1>2, Begins, Zenon
<1>4. \A i \in 1 .. k : i = k \/ i \in 1 .. Len(dest)
  BY <1>1
<1>5. k \in 1 .. k /\ \A i \in 1 .. Len(dest) : i \in 1 .. k
  BY <1>1
<1>6. IsPrefix(pre, id) <=>
        /\ k <= Len(id) /\ id[k] = Dash
        /\ \A i \in 1 .. Len(dest) : id[i] = dest[i]
  BY <1>2, <1>3, <1>4, <1>5
<1>7. ASSUME k <= Len(id)
      PROVE  /\ Sequence(id, dest) \in Seq(Chars)
             /\ Len(Sequence(id, dest)) = Len(id) - k
             /\ \A i \in 1 .. Len(id) - k : Sequence(id, dest)[i] = id[k + i]
  <2> DEFINE h == Len(id)
             n == h - k
             rest == SubSeq(id, k + 1, h)
  <2>1. /\ n \in Nat /\ n + (k + 1) = h + 1
        /\ h \in Nat /\ h <= Len(id) /\ k + 1 \in Nat \ {0}
    BY <1>1, <1>7
  <2>2. Sequence(id, dest) = rest
    BY DEF Sequence
  <2> HIDE DEF n
  <2>3. /\ rest \in Seq(Chars) /\ Len(rest) = n
        /\ \A i \in 1 .. n : rest[i] = id[k + 1 + i - 1]
    BY <2>1, Part
  <2>4. \A i \in 1 .. n : k + 1 + i - 1 = k + i
    BY <2>1
  <2> HIDE DEF rest
  <2> QED
    BY <2>2, <2>3, <2>4 DEF n
<1> QED
  BY <1>6, <1>7 DEF HasPrefix, pre

(* The identifier begins with the name, and a number is the rest.          *)
Names(id, dest) == HasPrefix(id, dest) /\ IsNumeral(Sequence(id, dest))

(* It is no larger than the 64 bits the code reads it into, too.           *)
Owns(id, dest) == HasPrefix(id, dest) /\ IsUint(Sequence(id, dest))

LEMMA OwnersName ==
  ASSUME NEW id, NEW dest, Owns(id, dest)
  PROVE  Names(id, dest)
BY DEF Owns, Names, IsUint

LEMMA NamesMeans ==
  ASSUME NEW id \in Seq(Chars), NEW dest \in Seq(Chars)
  PROVE  Names(id, dest) <=> /\ LastDash(id, Len(dest) + 1)
                             /\ \A i \in 1 .. Len(dest) : id[i] = dest[i]
<1> DEFINE k == Len(dest) + 1
           h == Len(id)
           rest == Sequence(id, dest)
<1>1. k \in Nat \ {0} /\ h \in Nat /\ k = Len(dest) + 1 /\ h = Len(id)
  OBVIOUS
<1> HIDE DEF k
<1>2. HasPrefix(id, dest) <=> /\ k <= h /\ id[k] = Dash
                              /\ \A i \in 1 .. Len(dest) : id[i] = dest[i]
  BY <1>1, PrefixMeans
<1>3. k <= h => /\ rest \in Seq(Chars) /\ Len(rest) = h - k
                /\ \A i \in 1 .. h - k : rest[i] = id[k + i]
  BY <1>1, PrefixMeans
<1> HIDE DEF rest
<1>4. ASSUME k <= h
      PROVE  IsNumeral(rest) <=> k < h /\ \A i \in 1 .. h : i > k => id[i] \in Digits
  <2> DEFINE n == h - k
  <2>1. n \in Nat /\ (n = 0 <=> ~ (k < h))
    BY <1>1, <1>4
  <2>2. /\ \A i \in 1 .. n : k + i \in 1 .. h /\ k + i > k
        /\ \A i \in 1 .. h : i > k => i - k \in 1 .. n /\ k + (i - k) = i
    BY <1>1, <1>4
  <2>3. /\ rest \in Seq(Chars) /\ Len(rest) = n
        /\ \A i \in 1 .. n : rest[i] = id[k + i]
    BY <1>3, <1>4
  <2> HIDE DEF n, h
  <2>4. rest # << >> <=> k < h
    BY <2>1, <2>3, EmptySeq
  <2>5. DOMAIN rest = 1 .. n
    BY <2>3
  <2>6. IsNumeral(rest) <=> rest # << >> /\ \A i \in 1 .. n : rest[i] \in Digits
    BY <2>5 DEF IsNumeral
  <2>7. (\A i \in 1 .. n : rest[i] \in Digits) <=>
          \A i \in 1 .. h : i > k => id[i] \in Digits
    BY <2>2, <2>3
  <2> QED
    BY <2>4, <2>6, <2>7
<1>5. LastDash(id, k) <=> /\ k < h /\ id[k] = Dash
                          /\ \A i \in 1 .. h : i > k => id[i] \in Digits
  BY <1>1 DEF LastDash
<1> HIDE DEF h
<1>6. Names(id, dest) <=> LastDash(id, k) /\ \A i \in 1 .. Len(dest) : id[i] = dest[i]
  BY <1>1, <1>2, <1>4, <1>5 DEF Names, rest
<1> QED
  BY <1>6 DEF k

(* An identifier names at most one destination.                            *)
LEMMA OneName ==
  ASSUME NEW id \in Seq(Chars), NEW d \in Seq(Chars), NEW e \in Seq(Chars),
         Names(id, d), Names(id, e)
  PROVE  d = e
<1>1. Len(d) \in Nat /\ Len(e) \in Nat
  OBVIOUS
<1>2. /\ LastDash(id, Len(d) + 1) /\ \A i \in 1 .. Len(d) : id[i] = d[i]
      /\ LastDash(id, Len(e) + 1) /\ \A i \in 1 .. Len(e) : id[i] = e[i]
  BY NamesMeans
<1>3. Len(d) + 1 = Len(e) + 1
  BY <1>1, <1>2, OneLastDash
<1>4. Len(d) = Len(e)
  BY <1>1, <1>3
<1>5. \A i \in 1 .. Len(d) : d[i] = e[i]
  BY <1>2, <1>4
<1> QED
  BY <1>4, <1>5, EqualSeqs

(* The characters of an identifier that is put together: a name, a dash at *)
(* place k, and the n characters of the rest.                              *)
Spells(id, dest, rest, k, n) ==
  /\ id \in Seq(Chars) /\ Len(id) = k + n
  /\ id[k] = Dash
  /\ \A i \in 1 .. Len(dest) : id[i] = dest[i]
  /\ \A i \in 1 .. n : id[k + i] = rest[i]

LEMMA JobIDMeans ==
  ASSUME NEW dest \in Seq(Chars), NEW rest \in Seq(Chars), NEW k \in Nat, NEW n \in Nat,
         k = Len(dest) + 1, n = Len(rest)
  PROVE  Spells(JobID(dest, rest), dest, rest, k, n)
<1>1. Dash \in Chars
  BY JobIdsAssumption
<1> QED
  BY <1>1 DEF JobID, Spells

(* An identifier that begins with a name and a dash is put together of     *)
(* them and the rest.                                                      *)
LEMMA PutTogether ==
  ASSUME NEW id \in Seq(Chars), NEW dest \in Seq(Chars), HasPrefix(id, dest)
  PROVE  id = JobID(dest, Sequence(id, dest)) /\ Sequence(id, dest) \in Seq(Chars)
<1> DEFINE l == Len(dest)
           k == l + 1
           h == Len(id)
           n == h - k
           rest == Sequence(id, dest)
           all == JobID(dest, rest)
<1>1. /\ k \in Nat /\ k = Len(dest) + 1 /\ h \in Nat /\ h = Len(id)
      /\ l \in Nat /\ k = l + 1
  OBVIOUS
<1> HIDE DEF k
<1>2. /\ k <= h /\ id[k] = Dash
      /\ \A i \in 1 .. l : id[i] = dest[i]
  BY <1>1, PrefixMeans
<1>3. /\ rest \in Seq(Chars) /\ Len(rest) = n
      /\ \A i \in 1 .. n : rest[i] = id[k + i]
  BY <1>1, <1>2, PrefixMeans
<1>4. n \in Nat /\ k + n = h
  BY <1>1, <1>2
<1> HIDE DEF rest, n
<1>5. Spells(all, dest, rest, k, n)
  BY <1>1, <1>3, <1>4, JobIDMeans
<1>6. \A i \in 1 .. h : \/ i \in 1 .. l
                        \/ i = k
                        \/ i - k \in 1 .. n /\ k + (i - k) = i
  BY <1>1, <1>4
<1> HIDE DEF all
<1>7. /\ all \in Seq(Chars) /\ Len(all) = k + n /\ all[k] = Dash
      /\ \A i \in 1 .. l : all[i] = dest[i]
      /\ \A i \in 1 .. n : all[k + i] = rest[i]
  BY <1>5 DEF Spells
<1> HIDE DEF h, l
<1>8. \A i \in 1 .. n : id[k + i] = all[k + i]
  BY <1>3, <1>7
<1>9. \A i \in 1 .. h : id[i] = all[i]
  BY <1>2, <1>6, <1>7, <1>8
<1>10. id = all
  BY <1>1, <1>4, <1>7, <1>9, EqualSeqs
<1> QED
  BY <1>3, <1>10 DEF all, rest

(* The identifier CUPS gives a job names its destination, and its number   *)
(* is the rest.                                                            *)
LEMMA JobIDNames ==
  ASSUME NEW dest \in Seq(Chars), NEW number \in Seq(Digits), number # << >>
  PROVE  /\ JobID(dest, number) \in Seq(Chars)
         /\ Names(JobID(dest, number), dest)
         /\ Sequence(JobID(dest, number), dest) = number
<1> DEFINE id == JobID(dest, number)
           k == Len(dest) + 1
           n == Len(number)
           h == Len(id)
           rest == Sequence(id, dest)
<1>1. /\ number \in Seq(Chars) /\ k \in Nat /\ n \in Nat \ {0}
      /\ k = Len(dest) + 1 /\ n = Len(number)
  BY JobIdsAssumption, EmptySeq
<1> HIDE DEF k, n
<1>2. Spells(id, dest, number, k, n)
  BY <1>1, JobIDMeans
<1> HIDE DEF id
<1>3. /\ id \in Seq(Chars) /\ id[k] = Dash
      /\ \A i \in 1 .. Len(dest) : id[i] = dest[i]
      /\ \A i \in 1 .. n : id[k + i] = number[i]
  BY <1>2 DEF Spells
<1>4. k <= h
  BY <1>1, <1>2 DEF Spells
<1>5. h - k = n
  BY <1>1, <1>2 DEF Spells
<1>6. HasPrefix(id, dest)
  BY <1>1, <1>3, <1>4, PrefixMeans
<1>7. /\ rest \in Seq(Chars) /\ Len(rest) = h - k
      /\ \A i \in 1 .. h - k : rest[i] = id[k + i]
  BY <1>1, <1>3, <1>4, PrefixMeans
<1> HIDE DEF rest, h
<1>8. rest = number
  BY <1>1, <1>3, <1>5, <1>7, EqualSeqs
<1>9. IsNumeral(number)
  BY DEF IsNumeral
<1> QED
  BY <1>3, <1>6, <1>8, <1>9 DEF Names, id, rest

-----------------------------------------------------------------------------
(* parseJobID finds the identifier in the words lp prints.                 *)
LEMMA ParsedFromLp ==
  ASSUME NEW id
  PROVE  ParseJobID(LpOutput(id)) = id
<1> DEFINE words == LpOutput(id)
           is == { i \in 1 .. Len(words) - 1 : words[i] = "is" }
           m == CHOOSE i \in is : \A j \in is : i <= j
<1>1. /\ Len(words) = 5 /\ words[1] = "request" /\ words[2] = "id"
      /\ words[3] = "is" /\ words[4] = id
  BY DEF LpOutput
<1> HIDE DEF words
<1>2. is \in SUBSET Nat /\ 3 \in is /\ 1 \notin is /\ 2 \notin is /\ 0 \notin is
  BY <1>1
<1>3. ParseJobID(LpOutput(id)) = words[1 + m]
  BY DEF ParseJobID, words
<1> HIDE DEF is
<1>4. m \in is /\ \A j \in is : m <= j
  BY <1>2, LeastChosen
<1> HIDE DEF m
<1>5. m = 3
  BY <1>2, <1>4
<1> QED
  BY <1>1, <1>3, <1>5

(* The printers of a configuration.                                        *)
PrintersOK == printers \in UNION { [1 .. n -> Destinations] : n \in 1 .. MaxPrinters }

LEMMA PrintersType ==
  ASSUME PrintersOK
  PROVE  /\ DOMAIN printers \in SUBSET (Nat \ {NoPrinter})
         /\ \A i \in DOMAIN printers :
              printers[i] \in Destinations /\ printers[i] \in Seq(Chars)
<1>1. PICK n \in 1 .. MaxPrinters : printers \in [1 .. n -> Destinations]
  BY DEF PrintersOK
<1>2. n \in Nat /\ Destinations \subseteq Seq(Chars)
  BY JobIdsAssumption
<1> QED
  BY <1>1, <1>2 DEF NoPrinter

(* An identifier that ends in the dash behind one name names no other.     *)
LEMMA EndsInDash ==
  ASSUME NEW id \in Seq(Chars), NEW d \in Seq(Chars), NEW e \in Seq(Chars),
         HasPrefix(id, d), Sequence(id, d) = << >>
  PROVE  ~ Names(id, e)
<1> DEFINE k == Len(d) + 1
           m == Len(e) + 1
           h == Len(id)
<1>1. k \in Nat /\ k = Len(d) + 1 /\ m \in Nat /\ h \in Nat
  OBVIOUS
<1> HIDE DEF k
<1>2. k <= h /\ id[k] = Dash
  BY <1>1, PrefixMeans
<1>3. Len(Sequence(id, d)) = h - k
  BY <1>1, <1>2, PrefixMeans
<1>4. Len(<< >>) = h - k
  BY <1>3
<1>5. h = k
  BY <1>1, <1>4
<1>6. Dash \notin Digits
  BY JobIdsAssumption
<1>7. Names(id, e) => LastDash(id, m)
  BY NamesMeans
<1>8. LastDash(id, m) => m < h /\ \A i \in 1 .. h : i > m => id[i] \in Digits
  BY DEF LastDash
<1> HIDE DEF m, h
<1>9. LastDash(id, m) => id[h] \in Digits
  BY <1>1, <1>8
<1> QED
  BY <1>2, <1>5, <1>6, <1>7, <1>9

(* printerForJobID finds the first printer the identifier is one of.       *)
FirstOwner(id, p) ==
  IF p = NoPrinter THEN \A i \in DOMAIN printers : ~ Owns(id, printers[i])
  ELSE /\ p \in DOMAIN printers /\ Owns(id, printers[p])
       /\ \A i \in DOMAIN printers : Owns(id, printers[i]) => p <= i

LEMMA FindsFirstOwner ==
  ASSUME PrintersOK, NEW id \in Seq(Chars)
  PROVE  FirstOwner(id, PrinterForJobID(id))
<1> DEFINE stop == { i \in DOMAIN printers :
                       /\ HasPrefix(id, printers[i])
                       /\ \/ Sequence(id, printers[i]) = << >>
                          \/ IsUint(Sequence(id, printers[i])) }
           m == CHOOSE k \in stop : \A j \in stop : k <= j
<1>1. /\ DOMAIN printers \in SUBSET (Nat \ {NoPrinter})
      /\ \A i \in DOMAIN printers : printers[i] \in Seq(Chars)
  BY PrintersType
<1>2. PrinterForJobID(id) = IF stop = {} THEN NoPrinter
                            ELSE IF Sequence(id, printers[m]) = << >>
                              THEN NoPrinter ELSE m
  BY DEF PrinterForJobID
<1>3. \A i \in DOMAIN printers : Owns(id, printers[i]) => i \in stop
  BY DEF Owns
<1>4. stop \in SUBSET DOMAIN printers
  OBVIOUS
<1>5. \A i \in stop : /\ HasPrefix(id, printers[i])
                      /\ \/ Sequence(id, printers[i]) = << >>
                         \/ Owns(id, printers[i])
  BY DEF Owns
<1> HIDE DEF stop
<1>6. CASE stop = {}
  BY <1>2, <1>3, <1>6 DEF FirstOwner
<1>7. CASE stop # {}
  <2>1. stop \in SUBSET Nat
    BY <1>1, <1>4
  <2>2. m \in stop /\ \A j \in stop : m <= j
    BY <2>1, <1>7, LeastChosen
  <2> HIDE DEF m
  <2>3. CASE Sequence(id, printers[m]) = << >>
    <3>1. \A i \in DOMAIN printers : ~ Owns(id, printers[i])
      BY <2>2, <2>3, <1>1, <1>4, <1>5, EndsInDash, OwnersName
    <3>2. PrinterForJobID(id) = NoPrinter
      BY <2>3, <1>2, <1>7
    <3> QED
      BY <3>1, <3>2 DEF FirstOwner
  <2>4. CASE Sequence(id, printers[m]) # << >>
    <3>1. PrinterForJobID(id) = m
      BY <2>4, <1>2, <1>7
    <3>2. m \in DOMAIN printers /\ m # NoPrinter /\ Owns(id, printers[m])
      BY <2>2, <2>4, <1>1, <1>4, <1>5
    <3>3. \A i \in DOMAIN printers : Owns(id, printers[i]) => m <= i
      BY <2>2, <1>3
    <3> QED
      BY <3>1, <3>2, <3>3 DEF FirstOwner
  <2> QED
    BY <2>3, <2>4
<1> QED
  BY <1>6, <1>7

-----------------------------------------------------------------------------
(* The inductive invariant: the jobs of CUPS have a destination and a      *)
(* number; the last answer was computed from the identifier asked, and     *)
(* what was listed then is listed still; and every identifier posted is    *)
(* the one CUPS gave a job of that printer's destination.                  *)
IdsTypeOK ==
  /\ PrintersOK
  /\ cupsJobs \subseteq [dest : Destinations, number : Numbers]
  /\ posted \subseteq [printer : DOMAIN printers, id : Seq(Chars)]
  /\ found.id \in Seq(Chars)

FoundInv ==
  /\ found.printer = PrinterForJobID(found.id)
  /\ found.listed => found.printer # NoPrinter /\ found.id \in Listing(cupsJobs)

GivenTo(job) ==
  \E j \in cupsJobs : j.dest = printers[job.printer] /\ job.id = JobID(j.dest, j.number)

PostedInv == \A job \in posted : GivenTo(job)

IdsInv == IdsTypeOK /\ FoundInv /\ PostedInv

LEMMA InitKeeps == Init => IdsInv
<1> SUFFICES ASSUME Init PROVE IdsInv
  OBVIOUS
<1>1. /\ PrintersOK /\ found.id = << >>
      /\ found.printer = NoPrinter /\ found.listed = FALSE
  BY DEF Init, PrintersOK
<1>2. << >> \in Seq(Chars)
  OBVIOUS
<1>3. IdsTypeOK /\ PostedInv
  BY <1>1, <1>2 DEF Init, IdsTypeOK, PostedInv
<1>4. \A d \in Seq(Chars) : ~ Names(<< >>, d)
  <2> TAKE d \in Seq(Chars)
  <2> DEFINE k == Len(d) + 1
  <2>1. LastDash(<< >>, k) => k >= 1 /\ k < Len(<< >>)
    BY DEF LastDash
  <2>2. Names(<< >>, d) => LastDash(<< >>, k)
    BY <1>2, NamesMeans
  <2>3. k \in Nat /\ Len(<< >>) = 0
    OBVIOUS
  <2> HIDE DEF k
  <2> QED
    BY <2>1, <2>2, <2>3
<1>5. FirstOwner(<< >>, PrinterForJobID(<< >>))
  BY <1>1, <1>2, FindsFirstOwner
<1>6. PrinterForJobID(<< >>) = NoPrinter
  BY <1>1, <1>4, <1>5, PrintersType, OwnersName DEF FirstOwner
<1> QED
  BY <1>1, <1>3, <1>6 DEF IdsInv, FoundInv

(* An added job leaves every earlier one where it was.                     *)
LEMMA JobsGrow ==
  ASSUME IdsInv, printers' = printers, found' = found, cupsJobs \subseteq cupsJobs'
  PROVE  FoundInv' /\ \A job \in posted : GivenTo(job)'
<1>1. Listing(cupsJobs) \subseteq Listing(cupsJobs')
  BY DEF Listing
<1>2. PrinterForJobID(found.id)' = PrinterForJobID(found.id)
  BY DEF PrinterForJobID
<1> QED
  BY <1>1, <1>2 DEF IdsInv, FoundInv, PostedInv, GivenTo

LEMMA PostKeeps ==
  ASSUME IdsInv, NEW i \in DOMAIN printers, NEW number \in Numbers, Post(i, number)
  PROVE  IdsInv'
<1> DEFINE dest == printers[i]
           job == [printer |-> i, id |-> JobID(dest, number)]
           new == [dest |-> dest, number |-> number]
<1>1. /\ dest \in Destinations /\ dest \in Seq(Chars)
      /\ number \in Seq(Digits) /\ number # << >>
  BY PrintersType, JobIdsAssumption DEF IdsInv, IdsTypeOK
<1>2. JobID(dest, number) \in Seq(Chars)
  BY <1>1, JobIDNames
<1>3. /\ cupsJobs' = cupsJobs \cup {new} /\ posted' = posted \cup {job}
      /\ printers' = printers /\ found' = found
  BY ParsedFromLp DEF Post
<1>4. IdsTypeOK'
  BY <1>1, <1>2, <1>3 DEF IdsInv, IdsTypeOK, PrintersOK
<1>5. FoundInv' /\ \A other \in posted : GivenTo(other)'
  BY <1>3, JobsGrow
<1>6. GivenTo(job)'
  <2>1. new \in cupsJobs' /\ new.dest = printers'[job.printer]
        /\ job.id = JobID(new.dest, new.number)
    BY <1>3
  <2> QED
    BY <2>1 DEF GivenTo
<1>7. PostedInv'
  BY <1>3, <1>5, <1>6 DEF PostedInv
<1> QED
  BY <1>4, <1>5, <1>7 DEF IdsInv

LEMMA ForeignJobKeeps ==
  ASSUME IdsInv, NEW dest \in Destinations, NEW number \in Numbers,
         ForeignJob(dest, number)
  PROVE  IdsInv'
<1>1. /\ cupsJobs' = cupsJobs \cup { [dest |-> dest, number |-> number] }
      /\ printers' = printers /\ found' = found /\ posted' = posted
  BY DEF ForeignJob
<1>2. IdsTypeOK'
  BY <1>1 DEF IdsInv, IdsTypeOK, PrintersOK
<1>3. FoundInv' /\ \A job \in posted : GivenTo(job)'
  BY <1>1, JobsGrow
<1> QED
  BY <1>1, <1>2, <1>3 DEF IdsInv, PostedInv

LEMMA GetKeeps ==
  ASSUME IdsInv, NEW id \in Asked \cup { job.id : job \in posted }, Get(id)
  PROVE  IdsInv'
<1>1. id \in Seq(Chars)
  BY JobIdsAssumption DEF IdsInv, IdsTypeOK
<1>2. /\ printers' = printers /\ cupsJobs' = cupsJobs /\ posted' = posted
      /\ found'.id = id /\ found'.printer = PrinterForJobID(id)
      /\ found'.listed => PrinterForJobID(id) # NoPrinter /\ id \in Listing(cupsJobs)
  BY DEF Get, ContainsJobID
<1>3. IdsTypeOK'
  BY <1>1, <1>2 DEF IdsInv, IdsTypeOK, PrintersOK
<1>4. PrinterForJobID(found.id)' = PrinterForJobID(found'.id)
  BY <1>2 DEF PrinterForJobID
<1>5. FoundInv'
  BY <1>2, <1>4 DEF FoundInv
<1>6. PostedInv'
  BY <1>2 DEF IdsInv, PostedInv, GivenTo
<1> QED
  BY <1>3, <1>5, <1>6 DEF IdsInv

(* The invariant is one of the specification.                              *)
THEOREM IdsInvariance == Spec => []IdsInv
<1>1. Init => IdsInv
  BY InitKeeps
<1>2. IdsInv /\ [Next]_vars => IdsInv'
  <2> SUFFICES ASSUME IdsInv, [Next]_vars PROVE IdsInv'
    OBVIOUS
  <2>1. ASSUME NEW i \in DOMAIN printers, NEW n \in Numbers, Post(i, n) PROVE IdsInv'
    BY <2>1, PostKeeps
  <2>2. ASSUME NEW d \in Destinations, NEW n \in Numbers, ForeignJob(d, n) PROVE IdsInv'
    BY <2>2, ForeignJobKeeps
  <2>3. ASSUME NEW id \in Asked \cup { job.id : job \in posted }, Get(id) PROVE IdsInv'
    BY <2>3, GetKeeps
  <2>4. CASE UNCHANGED vars
    BY <2>4 DEF vars, IdsInv, IdsTypeOK, PrintersOK, FoundInv, PostedInv, GivenTo,
                PrinterForJobID
  <2> QED
    BY <2>1, <2>2, <2>3, <2>4 DEF Next
<1> QED
  BY <1>1, <1>2, PTL DEF Spec

-----------------------------------------------------------------------------
(* The identifiers a name and a number make up are its own.                 *)
LEMMA OwnersAreNamed ==
  ASSUME NEW id \in Seq(Chars), NEW dest \in Seq(Chars)
  PROVE  (\E cut \in DOMAIN id : Denotes(id, dest, SubSeq(id, cut, Len(id))))
           <=> Owns(id, dest)
<1>1. ASSUME NEW cut \in DOMAIN id, Denotes(id, dest, SubSeq(id, cut, Len(id)))
      PROVE  Owns(id, dest)
  <2> DEFINE number == SubSeq(id, cut, Len(id))
  <2>1. number \in Seq(Chars)
    BY SubSeqProperties
  <2> HIDE DEF number
  <2>2. IsUint(number) /\ id = JobID(dest, number)
    BY <1>1 DEF Denotes, number
  <2>3. number \in Seq(Digits) /\ number # << >>
    BY <2>1, <2>2 DEF IsUint, IsNumeral
  <2>4. HasPrefix(id, dest) /\ Sequence(id, dest) = number
    BY <2>2, <2>3, JobIDNames DEF Names
  <2> QED
    BY <2>2, <2>4 DEF Owns
<1>2. ASSUME Owns(id, dest)
      PROVE  \E cut \in DOMAIN id : Denotes(id, dest, SubSeq(id, cut, Len(id)))
  <2> DEFINE cut == Len(dest) + 2
  <2>1. LastDash(id, Len(dest) + 1)
    BY <1>2, NamesMeans, OwnersName
  <2>2. cut \in DOMAIN id
    BY <2>1 DEF LastDash
  <2>3. /\ id = JobID(dest, Sequence(id, dest)) /\ IsUint(Sequence(id, dest))
    BY <1>2, PutTogether DEF Owns
  <2>4. Denotes(id, dest, SubSeq(id, cut, Len(id)))
    BY <2>3 DEF Denotes, Sequence
  <2> QED
    BY <2>2, <2>4
<1> QED
  BY <1>1, <1>2

(* printerForJobID finds a printer exactly when the identifier is that of  *)
(* a configured destination and a number of at most 64 bits, whatever      *)
(* dashes and digits are in the names, and then the first with that        *)
(* destination.                                                            *)
THEOREM FoundIsOwner == Spec => []PrinterFoundIsOwner
<1>1. IdsInv => PrinterFoundIsOwner
  <2> SUFFICES ASSUME IdsInv PROVE PrinterFoundIsOwner
    OBVIOUS
  <2> DEFINE id == found.id
             p == found.printer
             owners == { i \in DOMAIN printers :
                           \E cut \in DOMAIN found.id :
                             Denotes(found.id, printers[i],
                                     SubSeq(found.id, cut, Len(found.id))) }
  <2>1. /\ PrintersOK /\ id \in Seq(Chars)
        /\ \A i \in DOMAIN printers : printers[i] \in Seq(Chars)
    BY PrintersType DEF IdsInv, IdsTypeOK
  <2>2. FirstOwner(id, p)
    BY <2>1, FindsFirstOwner DEF IdsInv, FoundInv
  <2>3. \A i \in DOMAIN printers : i \in owners <=> Owns(id, printers[i])
    BY <2>1, OwnersAreNamed
  <2>4. owners \subseteq DOMAIN printers
    OBVIOUS
  <2>5. PrinterFoundIsOwner <=>
          IF p = NoPrinter THEN owners = {}
          ELSE /\ p \in owners
               /\ \A i \in owners : p <= i /\ printers[i] = printers[p]
    BY DEF PrinterFoundIsOwner
  <2> HIDE DEF owners, id, p
  <2>6. \A i, j \in owners : printers[i] = printers[j]
    BY <2>1, <2>3, <2>4, OneName, OwnersName
  <2> QED
    BY <2>2, <2>3, <2>4, <2>5, <2>6 DEF FirstOwner
<1> QED
  BY <1>1, IdsInvariance, PTL

(* What GET finds in a listing is the job asked for: no job of another     *)
(* destination and no other number has that identifier.                    *)
THEOREM ListedIsIt == Spec => []ListedIsThatJob
<1>1. IdsInv => ListedIsThatJob
  <2> SUFFICES ASSUME IdsInv, found.listed PROVE ListedIsThatJob
    BY DEF ListedIsThatJob
  <2> DEFINE id == found.id
             p == found.printer
  <2>1. /\ PrintersOK /\ id \in Seq(Chars) /\ p # NoPrinter
        /\ \A i \in DOMAIN printers : printers[i] \in Seq(Chars)
    BY PrintersType DEF IdsInv, IdsTypeOK, FoundInv
  <2>2. p \in DOMAIN printers /\ Names(id, printers[p])
    BY <2>1, FindsFirstOwner, OwnersName DEF IdsInv, FoundInv, FirstOwner
  <2>3. ASSUME NEW j \in cupsJobs, JobID(j.dest, j.number) = id
        PROVE  /\ j = [dest |-> j.dest, number |-> j.number]
               /\ j.dest = printers[p] /\ j.number = Sequence(id, printers[p])
    <3>1. /\ j = [dest |-> j.dest, number |-> j.number]
          /\ j.dest \in Seq(Chars) /\ j.number \in Seq(Digits) /\ j.number # << >>
      BY JobIdsAssumption DEF IdsInv, IdsTypeOK
    <3>2. Names(id, j.dest) /\ Sequence(id, j.dest) = j.number
      BY <3>1, <2>3, JobIDNames
    <3>3. j.dest = printers[p]
      BY <3>1, <3>2, <2>1, <2>2, OneName
    <3> QED
      BY <3>1, <3>2, <3>3
  <2>4. PICK j \in cupsJobs : id = JobID(j.dest, j.number)
    BY DEF IdsInv, FoundInv, Listing
  <2> QED
    BY <2>3, <2>4 DEF ListedIsThatJob
<1> QED
  BY <1>1, IdsInvariance, PTL

(* The identifier POST answered is the one of a CUPS job on the printer it *)
(* was sent to, and GET recovers that destination from it.                 *)
THEOREM PostedIsFound == Spec => []PostedRoundTrips
<1>1. IdsInv => PostedRoundTrips
  <2> SUFFICES ASSUME IdsInv, NEW job \in posted
               PROVE  /\ \E j \in cupsJobs : /\ j.dest = printers[job.printer]
                                             /\ job.id = JobID(j.dest, j.number)
                      /\ PrinterForJobID(job.id) # NoPrinter
                      /\ printers[PrinterForJobID(job.id)] = printers[job.printer]
    BY DEF PostedRoundTrips
  <2> DEFINE id == job.id
             p == PrinterForJobID(id)
  <2>1. PICK j \in cupsJobs : j.dest = printers[job.printer] /\ id = JobID(j.dest, j.number)
    BY DEF IdsInv, PostedInv, GivenTo
  <2>2. /\ j.dest \in Seq(Chars) /\ j.number \in Seq(Digits)
        /\ j.number # << >> /\ Value(j.number) <= MaxUint
    BY JobIdsAssumption DEF IdsInv, IdsTypeOK
  <2>3. id \in Seq(Chars) /\ Owns(id, j.dest)
    <3>1. /\ id \in Seq(Chars) /\ Names(id, j.dest)
          /\ Sequence(id, j.dest) = j.number
      BY <2>1, <2>2, JobIDNames
    <3> QED
      BY <3>1, <2>2 DEF Names, Owns, IsUint
  <2>4. PrintersOK /\ job.printer \in DOMAIN printers
    BY DEF IdsInv, IdsTypeOK
  <2>5. FirstOwner(id, p)
    BY <2>3, <2>4, FindsFirstOwner
  <2> HIDE DEF p, id
  <2>6. p # NoPrinter /\ p \in DOMAIN printers /\ Owns(id, printers[p])
    BY <2>1, <2>3, <2>4, <2>5 DEF FirstOwner
  <2>7. printers[p] \in Seq(Chars)
    BY <2>4, <2>6, PrintersType
  <2>8. printers[p] = j.dest
    BY <2>2, <2>3, <2>6, <2>7, OneName, OwnersName
  <2> QED
    BY <2>1, <2>6, <2>8 DEF p, id
<1> QED
  BY <1>1, IdsInvariance, PTL
=============================================================================
