------------------------------ MODULE PrintOnce -----------------------------
(***************************************************************************)
(* What POST /print promises a client, with no files, processes or steps   *)
(* inside a request: a request gives CUPS at most one job, a refused one   *)
(* none, a queued one exactly one; a request that failed, or whose answer  *)
(* was lost, may have given it one or not; and nothing is printed for a    *)
(* request after it is over.                                               *)
(***************************************************************************)
EXTENDS Naturals

CONSTANT Clients

VARIABLES
  submitted,  \* the number of jobs CUPS was given for each request
  reply       \* what each client was told

Init ==
  /\ submitted = [c \in Clients |-> 0]
  /\ reply = [c \in Clients |-> "none"]

Submit(c) ==
  /\ reply[c] = "none" /\ submitted[c] = 0
  /\ submitted' = [submitted EXCEPT ![c] = 1]
  /\ UNCHANGED reply

Tell(c, word) ==
  /\ reply[c] = "none"
  /\ reply' = [reply EXCEPT ![c] = word]
  /\ UNCHANGED submitted

Queue(c)  == submitted[c] = 1 /\ Tell(c, "queued")
Refuse(c) == submitted[c] = 0 /\ Tell(c, "refused")

(* One request fails, or several are cut off at once.                      *)
Fail(cs) ==
  /\ \A c \in cs : reply[c] = "none"
  /\ reply' = [c \in Clients |-> IF c \in cs THEN "failed" ELSE reply[c]]
  /\ UNCHANGED submitted

Next ==
  \/ \E c \in Clients : Submit(c) \/ Queue(c) \/ Refuse(c)
  \/ \E cs \in (SUBSET Clients) \ {{}} : Fail(cs)

Spec == Init /\ [][Next]_<< submitted, reply >>

=============================================================================
