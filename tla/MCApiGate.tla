------------------------------ MODULE MCApiGate -------------------------------
(***************************************************************************)
(* ApiGate for TLC.                                                        *)
(***************************************************************************)
EXTENDS ApiGate, TLC

\* Requests and rotations are each interchangeable.
Symmetry == Permutations(Requests) \cup Permutations(Rotations)

===============================================================================
