----------------------------- MODULE RemoteCall -----------------------------
(***************************************************************************)
(* What a method of the generated client promises, with no bytes and no    *)
(* connection: the service carries a call out once at most, perhaps when   *)
(* the caller has given up; the caller is told what the service said, word *)
(* for word, or that the call failed, which says nothing of the service.   *)
(***************************************************************************)
CONSTANTS
  Nothing,  \* no call yet, or no answer yet
  Failed    \* the call failed

VARIABLES
  asked,    \* the call
  carried,  \* the call as it was carried out
  said,     \* what the service said
  told      \* what the caller is told

vars == << asked, carried, said, told >>

Init ==
  /\ asked = Nothing /\ carried = Nothing
  /\ said = Nothing /\ told = Nothing

Ask ==
  /\ asked = Nothing /\ asked' # Nothing
  /\ UNCHANGED << carried, said, told >>

CarryOut ==
  /\ asked # Nothing /\ said = Nothing
  /\ carried' = asked /\ said' # Nothing
  /\ UNCHANGED << asked, told >>

Refuse ==
  /\ asked # Nothing /\ said = Nothing
  /\ said' # Nothing
  /\ UNCHANGED << asked, carried, told >>

Tell ==
  /\ told = Nothing /\ said # Nothing
  /\ told' = said
  /\ UNCHANGED << asked, carried, said >>

(* A call may fail before it is sent.                                      *)
Fail ==
  /\ told = Nothing /\ told' = Failed
  /\ asked # Nothing => asked' = asked
  /\ UNCHANGED << carried, said >>

Next == Ask \/ CarryOut \/ Refuse \/ Tell \/ Fail

Spec == Init /\ [][Next]_vars

=============================================================================
