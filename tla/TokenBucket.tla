----------------------------- MODULE TokenBucket ------------------------------
(***************************************************************************)
(* What the rate limiter promises: a bucket that is never forgotten, where *)
(* the time between two requests, on their own clocks, buys tokens up to   *)
(* the capacity and every request that is let through pays one.            *)
(***************************************************************************)
EXTENDS Integers

CONSTANTS Capacity, Refill, Token

VARIABLES level, last

Bought(now) == IF now > last THEN (now - last) * Refill ELSE 0

Full(units) == IF units < Capacity THEN units ELSE Capacity

Init == level = Capacity /\ last = 0

\* A request made at the time that becomes the time of the last request.
Take ==
  LET units == Full(level + Bought(last'))
  IN /\ last' \in Nat
     /\ level' = IF units >= Token THEN units - Token ELSE units

Spec == Init /\ [][Take]_<<level, last>>

===============================================================================
