-------------------------------- MODULE Clock --------------------------------
(***************************************************************************)
(* The wall clock that the API servers, Redis, PostgreSQL and the          *)
(* operators read.  It is bounded for model checking only.                 *)
(***************************************************************************)
EXTENDS Integers

CONSTANT MaxClock   \* bound of the model

ASSUME ClockAssumption == MaxClock \in Nat

VARIABLE clock

Tick ==
  /\ clock < MaxClock
  /\ clock' = clock + 1

===============================================================================
