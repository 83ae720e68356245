------------------------------ MODULE MCJobIds ------------------------------
(* Destinations with dashes and digits in them, so that one identifier     *)
(* begins with several destinations: "a-1-1" is job 1 of "a-1" and looks   *)
(* like a job of "a".  Every string of at most MaxLen characters is asked  *)
(* for, and "a-" and "1-" with any two characters behind them.  Ten stands *)
(* for the largest number of 64 bits: "a-10" is an identifier, as "a-01"   *)
(* is, and "a-11" is none.                                                 *)
EXTENDS JobIds

CONSTANT MaxLen

MCChars  == {"a", "-", "0", "1"}
MCDigits == {"0", "1"}
MCWorth  == [digit \in MCDigits |-> IF digit = "1" THEN 1 ELSE 0]
MCDestinations == { <<"a">>, <<"a", "-">>, <<"a", "-", "1">>, <<"1">> }
MCNumbers == { <<"1">>, <<"1", "0">> }
MCAsked   ==
  UNION { [1 .. n -> Chars] : n \in 1 .. MaxLen }
    \cup { << first, "-" >> \o rest : first \in {"a", "1"}, rest \in [1 .. 2 -> Chars] }
=============================================================================
