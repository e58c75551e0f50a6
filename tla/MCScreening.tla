----------------------------- MODULE MCScreening ------------------------------
(***************************************************************************)
(* Screening for TLC: a plain request, and one that either count blocks.   *)
(***************************************************************************)
EXTENDS Screening, TLC

CONSTANTS US, CA

MCAsks ==
  { [amount_minor |-> 499999, billing |-> US, shipping |-> NoCountry, high_risk_ip |-> FALSE],
    [amount_minor |-> 2000000, billing |-> US, shipping |-> CA, high_risk_ip |-> FALSE] }

\* Requests are interchangeable.
Symmetry == Permutations(Requests)

===============================================================================
