------------------------------- MODULE JobIds -------------------------------
(***************************************************************************)
(* api.go: the identifiers of jobs.  CUPS names a job after its            *)
(* destination and its number, "mono-queue-7"; the service keeps no job    *)
(* table, so POST /print reads the identifier out of lp's output and       *)
(* GET /jobs/{id} recovers the printer from the identifier alone.  Names   *)
(* may contain dashes and digits themselves, which is what can go wrong    *)
(* here, so names are sequences of characters in this module only.         *)
(***************************************************************************)
EXTENDS Naturals, Sequences, SequencesExt

CONSTANTS
  Chars,         \* the characters names are made of
  Digits,        \* those that are decimal digits
  Worth,         \* the value of each digit
  MaxUint,       \* the largest number of 64 bits, 2^64 - 1
  Dash,          \* the character "-"
  Destinations,  \* CUPS destinations that may be configured (nonempty)
  Numbers,       \* the numbers CUPS gives its jobs, as digit strings
  Asked,         \* the identifiers clients ask for
  MaxPrinters    \* bound on the length of the configured list

(* What strconv.ParseUint reads in a string of digits.                     *)
Value(s) == FoldLeft(LAMBDA n, digit : 10 * n + Worth[digit], 0, s)

(* CUPS numbers its jobs with integers of 32 bits.                         *)
ASSUME JobIdsAssumption ==
  /\ Digits \subseteq Chars /\ Dash \in Chars \ Digits
  /\ Worth \in [Digits -> 0 .. 9] /\ MaxUint \in Nat
  /\ Destinations \subseteq Seq(Chars) \ {<< >>}
  /\ Numbers \subseteq Seq(Digits) \ {<< >>}
  /\ \A number \in Numbers : Value(number) <= MaxUint
  /\ Asked \subseteq Seq(Chars)
  /\ MaxPrinters \in Nat

VARIABLES
  printers,   \* config.Printers: the destination of each configured printer
  cupsJobs,   \* every job CUPS knows, [dest, number]; some are not ours
  posted,     \* what POST /print answered, [printer, id]
  found       \* the last answer of GET /jobs/{id}, [id, printer]

vars == << printers, cupsJobs, posted, found >>

-----------------------------------------------------------------------------
(* CUPS: the identifier of a job, the words lp prints for it, and the      *)
(* first column of a listing.                                              *)
JobID(dest, number) == dest \o <<Dash>> \o number

LpOutput(id) == << "request", "id", "is", id, "(1 file(s))" >>

Listing(jobs) == { JobID(j.dest, j.number) : j \in jobs }

(* Mutant: the last character is cut off, as if it always were a period.   *)
MutParseJobID(words) ==
  LET is == { i \in 1 .. Len(words) - 1 : words[i] = "is" }
  IN  Front(words[1 + CHOOSE i \in is : \A j \in is : i <= j])

(* parseJobID: the word after the first "is".  (lp's words never end in a  *)
(* period, and an output without "is" does not occur with exit status 0.)  *)
ParseJobID(words) ==
  LET is == { i \in 1 .. Len(words) - 1 : words[i] = "is" }
  IN  words[1 + CHOOSE i \in is : \A j \in is : i <= j]

IsNumeral(s) == s # << >> /\ \A i \in DOMAIN s : s[i] \in Digits

(* ParseUint(s, 10, 64): digits, zeros in front included, and no more than *)
(* 64 bits hold.                                                           *)
IsUint(s) == IsNumeral(s) /\ Value(s) <= MaxUint

HasPrefix(id, dest) == IsPrefix(dest \o <<Dash>>, id)

Sequence(id, dest) == SubSeq(id, Len(dest) + 2, Len(id))

NoPrinter == 0

(* Mutant: any suffix is taken for a job number.                           *)
MutPrinterForJobID(id) ==
  LET match == { i \in DOMAIN printers : HasPrefix(id, printers[i]) }
  IN  IF match = {} THEN NoPrinter ELSE CHOOSE i \in match : \A j \in match : i <= j

(* printerForJobID: the loop ends at the first destination with an empty   *)
(* rest, which is not found, or with a number for its rest; a rest that is *)
(* no number, or one too large, leaves it to the destinations behind.      *)
PrinterForJobID(id) ==
  LET stop == { i \in DOMAIN printers :
                  /\ HasPrefix(id, printers[i])
                  /\ \/ Sequence(id, printers[i]) = << >>
                     \/ IsUint(Sequence(id, printers[i])) }
      i    == CHOOSE k \in stop : \A j \in stop : k <= j
  IN  IF stop = {} THEN NoPrinter
      ELSE IF Sequence(id, printers[i]) = << >> THEN NoPrinter ELSE i

(* Mutant: the identifier is looked for anywhere at the start of a line.   *)
MutContainsJobID(listing, id) == \E line \in listing : IsPrefix(id, line)

(* containsJobID: a line whose first field is the identifier.              *)
ContainsJobID(listing, id) == id \in listing

-----------------------------------------------------------------------------
Init ==
  /\ printers \in UNION { [1 .. n -> Destinations] : n \in 1 .. MaxPrinters }
  /\ cupsJobs = {}
  /\ posted = {}
  /\ found = [id |-> << >>, printer |-> NoPrinter, listed |-> FALSE]

Fresh(number) == \A j \in cupsJobs : j.number # number

(* PrintDocument, as far as the identifier is concerned.                   *)
Post(i, number) ==
  /\ Fresh(number)
  /\ cupsJobs' = cupsJobs \cup { [dest |-> printers[i], number |-> number] }
  /\ posted' = posted \cup
       { [printer |-> i, id |-> ParseJobID(LpOutput(JobID(printers[i], number)))] }
  /\ UNCHANGED << printers, found >>

(* Another user of CUPS prints, on any destination.                        *)
ForeignJob(dest, number) ==
  /\ Fresh(number)
  /\ cupsJobs' = cupsJobs \cup { [dest |-> dest, number |-> number] }
  /\ UNCHANGED << printers, posted, found >>

(* GetPrintJob, as far as the identifier is concerned.                     *)
Get(id) ==
  /\ found' = [id |-> id, printer |-> PrinterForJobID(id),
               listed |-> PrinterForJobID(id) # NoPrinter
                            /\ ContainsJobID(Listing(cupsJobs), id)]
  /\ UNCHANGED << printers, cupsJobs, posted >>

Next ==
  \/ \E i \in DOMAIN printers, n \in Numbers : Post(i, n)
  \/ \E d \in Destinations, n \in Numbers : ForeignJob(d, n)
  \/ \E id \in Asked \cup { job.id : job \in posted } : Get(id)

Spec == Init /\ [][Next]_vars

-----------------------------------------------------------------------------
(* Reference: the identifiers of a destination.  They are more than CUPS   *)
(* gives: a number may begin with zeros, and has 64 bits, not 32.          *)
Denotes(id, dest, number) == IsUint(number) /\ id = JobID(dest, number)

(* printerForJobID finds a printer exactly when the identifier is that of  *)
(* a configured destination, with a number of at most 64 bits behind its   *)
(* last dash, and then the first printer with that destination, dashes and *)
(* digits in names notwithstanding.                                        *)
PrinterFoundIsOwner ==
  LET owners == { i \in DOMAIN printers :
                    \E cut \in DOMAIN found.id :
                      Denotes(found.id, printers[i],
                              SubSeq(found.id, cut, Len(found.id))) }
  IN  IF found.printer = NoPrinter THEN owners = {}
      ELSE /\ found.printer \in owners
           /\ \A i \in owners : found.printer <= i /\ printers[i] = printers[found.printer]

(* No job of another destination, and no other job number, can answer for  *)
(* the identifier asked: what GET finds in a listing is that very job.     *)
ListedIsThatJob ==
  found.listed =>
    /\ \E j \in cupsJobs : /\ found.id = JobID(j.dest, j.number)
                           /\ j.dest = printers[found.printer]
    /\ \A j, k \in cupsJobs :
         JobID(j.dest, j.number) = found.id /\ JobID(k.dest, k.number) = found.id
           => j = k

(* The identifier POST answered names one CUPS job, on the destination of  *)
(* the printer it was sent to, and GET recognises it.                      *)
PostedRoundTrips ==
  \A job \in posted :
    /\ \E j \in cupsJobs : j.dest = printers[job.printer]
                             /\ job.id = JobID(j.dest, j.number)
    /\ PrinterForJobID(job.id) # NoPrinter
    /\ printers[PrinterForJobID(job.id)] = printers[job.printer]

=============================================================================
