----------------------------- MODULE RateLimiter ------------------------------
(***************************************************************************)
(* The token bucket of one merchant: a Lua script that Redis runs as one   *)
(* step, on the time the calling API server read before it sent the call.  *)
(*                                                                         *)
(* Tokens are real numbers in the script.  Here a token is worth Token     *)
(* units, small enough that a tick of the clock buys Refill whole units.   *)
(* A bucket that has expired is one whose values nobody reads any more.    *)
(***************************************************************************)
EXTENDS Clock

CONSTANTS
  Capacity,  \* capacity, in units
  Refill,    \* refill_per_second, in units per tick
  Token,     \* units of one token
  Margin,    \* the 60 seconds added to the time to live
  Skew       \* how far a caller's now may be from Redis's time, either way

ASSUME BucketAssumption ==
  /\ Capacity \in Nat /\ Refill \in Nat \ {0} /\ Token \in Nat \ {0}
  /\ Margin \in Nat /\ Skew \in Nat

\* A call is not delayed, and a server's clock not wrong, by half the margin.
ASSUME MarginAssumption == 2 * Skew <= Margin

VARIABLES
  tokens, last_refill,  \* the bucket
  expires_at,           \* when Redis drops it
  allowed,              \* requests let through since the window was opened
  first,                \* now of the window's first request, -1 before it
  regress               \* by how much last_refill was set back since then

bucketVars == <<tokens, last_refill, expires_at, allowed, first, regress>>

BucketInit ==
  /\ tokens = Capacity
  /\ last_refill = 0
  /\ expires_at = 0
  /\ allowed = 0
  /\ first = -1
  /\ regress = 0

\* What a caller may have read as time.time().
CallerTime == { now \in (clock - Skew) .. (clock + Skew) : now >= 0 }

Elapsed(now) == IF now > last_refill THEN now - last_refill ELSE 0

Refilled(now) ==
  LET units == tokens + Elapsed(now) * Refill
  IN IF clock < expires_at /\ units < Capacity THEN units ELSE Capacity

\* Mutant: the bucket is dropped without the time it needs to refill.
TimeToLive_MarginOnly == Margin

\* math.ceil(capacity / refill_per_second) + 60.
TimeToLive == ((Capacity + Refill - 1) \div Refill) + Margin

Sufficient(now) == Refilled(now) >= Token

\* Mutant: the answer comes back as a string, and bool("0") is True.
check_rate_limit_Truthy(now) ==
  /\ tokens' = IF Sufficient(now) THEN Refilled(now) - Token ELSE Refilled(now)
  /\ last_refill' = now
  /\ expires_at' = clock + TimeToLive
  /\ allowed' = allowed + 1
  /\ first' = IF first = -1 THEN now ELSE first
  /\ UNCHANGED regress

\* The script: last_refill is the caller's now, even when that sets it back.
check_rate_limit(now) ==
  /\ tokens' = IF Sufficient(now) THEN Refilled(now) - Token ELSE Refilled(now)
  /\ last_refill' = now
  /\ expires_at' = clock + TimeToLive
  /\ allowed' = IF Sufficient(now) THEN allowed + 1 ELSE allowed
  /\ IF first = -1
     THEN first' = now /\ regress' = 0
     ELSE /\ regress' = IF now < last_refill THEN regress + (last_refill - now)
                                             ELSE regress
          /\ UNCHANGED first

\* An observer begins to count: what is shown of one window holds for all.
OpenWindow ==
  /\ first # -1
  /\ allowed' = 0
  /\ first' = -1
  /\ regress' = 0
  /\ UNCHANGED <<tokens, last_refill, expires_at>>

BucketNext ==
  \/ /\ \E now \in CallerTime : check_rate_limit(now)
     /\ UNCHANGED clock
  \/ OpenWindow /\ UNCHANGED clock
  \/ Tick /\ UNCHANGED bucketVars

BucketSpec == clock = 0 /\ BucketInit /\ [][BucketNext]_<<bucketVars, clock>>

-------------------------------------------------------------------------------

\* Type invariant.
BucketTypeOK ==
  /\ clock \in Nat
  /\ tokens \in 0 .. Capacity
  /\ last_refill \in Nat
  /\ expires_at \in Nat
  /\ allowed \in Nat
  /\ first \in Nat \cup {-1}
  /\ regress \in Nat

\* In any window, wherever it begins and however many servers call, the requests let
\* through are those of a full bucket and of the time that passed; the script lets
\* through more only for time that a late or slow caller makes it count twice.
WindowLimit ==
  first # -1 => allowed * Token <= Capacity + Refill * (last_refill - first + regress)

Promise == INSTANCE TokenBucket WITH level <- tokens, last <- last_refill

\* The script with its expiry implements a bucket that is never forgotten: "A bucket
\* idle long enough to fully refill has nothing left to remember", for all callers
\* whose clocks are off by no more than half the margin.
NothingToRemember == Promise!Spec

===============================================================================
