------------------------------- MODULE ApiGate --------------------------------
(***************************************************************************)
(* What a request to a payment endpoint passes before its handler runs:    *)
(* the lookup of the merchant by the presented key, and then the           *)
(* merchant's bucket.                                                      *)
(***************************************************************************)
EXTENDS RateLimiter, MerchantKeys

CONSTANT Requests  \* POST requests to create, capture or refund

VARIABLE stage     \* per request: how far it has come

vars == <<clock, bucketVars, keyVars, stage>>

Init ==
  /\ clock = 0
  /\ BucketInit
  /\ KeysInit
  /\ stage = [q \in Requests |-> "idle"]

\* UNAUTHORIZED: a request that does not authenticate takes no token.
get_current_merchant(q, key) ==
  /\ stage[q] = "idle"
  /\ stage' = [stage EXCEPT ![q] = IF Authenticates(key) THEN "authenticated" ELSE "refused"]
  /\ UNCHANGED <<clock, bucketVars, keyVars>>

\* RATE_LIMITED
enforce_rate_limit(q, now) ==
  /\ stage[q] = "authenticated"
  /\ stage' = [stage EXCEPT ![q] = IF Sufficient(now) THEN "admitted" ELSE "limited"]
  /\ check_rate_limit(now)
  /\ UNCHANGED <<clock, keyVars>>

Next ==
  \/ \E q \in Requests :
       \/ \E key \in Keys : get_current_merchant(q, key)
       \/ \E now \in CallerTime : enforce_rate_limit(q, now)
  \/ OpenWindow /\ UNCHANGED <<clock, keyVars, stage>>
  \/ RotateNext /\ UNCHANGED <<clock, bucketVars, stage>>
  \/ Tick /\ UNCHANGED <<bucketVars, keyVars, stage>>

Spec == Init /\ [][Next]_vars

-------------------------------------------------------------------------------

\* Type invariant.
TypeOK ==
  /\ BucketTypeOK
  /\ KeysTypeOK
  /\ stage \in [Requests -> {"idle", "refused", "authenticated", "limited", "admitted"}]

===============================================================================
