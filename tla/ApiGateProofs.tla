----------------------------- MODULE ApiGateProofs -----------------------------
(***************************************************************************)
(* For any capacity, refill rate, margin and skew, any requests and any    *)
(* rotations: the limit of a window, the expiry that forgets nothing, and  *)
(* the handover of keys.                                                   *)
(***************************************************************************)
EXTENDS ApiGate, TLAPS

(***************************************************************************)
(* The bucket.                                                             *)
(***************************************************************************)

\* The bucket's part of a step of the gate is a step of the bucket.
LEMMA GateStepsBucket ==
  ASSUME [Next]_vars
  PROVE  [BucketNext]_<<bucketVars, clock>>
  BY DEF Next, vars, BucketNext, bucketVars, get_current_merchant, enforce_rate_limit

\* A full refill takes no longer than the time to live without its margin.
LEMMA RefillTime ==
  /\ TimeToLive - Margin \in Nat
  /\ (TimeToLive - Margin) * Refill >= Capacity
  <1> DEFINE n == (Capacity + Refill - 1) \div Refill
  <1>1. n \in Nat /\ n * Refill >= Capacity
    BY BucketAssumption
  <1>2. TimeToLive - Margin = n
    BY <1>1, BucketAssumption DEF TimeToLive
  <1> QED
    BY <1>1, <1>2

LEMMA TimeToLiveNat == TimeToLive \in Nat
  BY RefillTime, BucketAssumption DEF TimeToLive

LEMMA Monotone ==
  ASSUME NEW a \in Nat, NEW b \in Nat, NEW c \in Nat, a >= b
  PROVE  a * c \in Nat /\ a * c >= b * c
  OBVIOUS

\* The tokens that are left and those that were taken come from a full bucket and
\* from the time that was counted.
WindowInv ==
  IF first = -1 THEN allowed = 0 /\ regress = 0 ELSE
    tokens + allowed * Token <= Capacity + Refill * (last_refill - first + regress)

\* When a bucket expires, every caller's clock has passed the time of a full refill.
ExpiryInv ==
  \/ tokens = Capacity
  \/ last_refill + TimeToLive <= expires_at + Skew

BucketInv == BucketTypeOK /\ WindowInv /\ ExpiryInv

LEMMA RefilledBounds ==
  ASSUME BucketTypeOK, NEW now \in Nat
  PROVE  /\ Elapsed(now) \in Nat
         /\ Elapsed(now) * Refill \in Nat
         /\ Refilled(now) \in 0 .. Capacity
  <1>1. Elapsed(now) \in Nat
    BY DEF BucketTypeOK, Elapsed
  <1>2. Elapsed(now) * Refill \in Nat
    BY <1>1, Monotone, BucketAssumption
  <1> QED
    BY <1>1, <1>2, BucketAssumption DEF BucketTypeOK, Refilled

\* An expired bucket would have been full.
LEMMA ExpiredIsFull ==
  ASSUME BucketInv, NEW now \in CallerTime, ~(clock < expires_at)
  PROVE  tokens + Elapsed(now) * Refill >= Capacity
  <1>1. now \in Nat /\ now >= clock - Skew
    BY BucketAssumption DEF CallerTime, BucketInv, BucketTypeOK
  <1>2. CASE tokens = Capacity
    BY <1>1, <1>2, RefilledBounds, BucketAssumption DEF BucketInv, BucketTypeOK
  <1>3. CASE last_refill + TimeToLive <= expires_at + Skew
    <2>1. now - last_refill >= TimeToLive - Margin
      BY <1>1, <1>3, TimeToLiveNat, BucketAssumption, MarginAssumption
      DEF BucketInv, BucketTypeOK
    <2>2. Elapsed(now) \in Nat /\ Elapsed(now) >= TimeToLive - Margin
      BY <1>1, <2>1, RefillTime DEF Elapsed, BucketInv, BucketTypeOK
    <2>3. Elapsed(now) * Refill >= (TimeToLive - Margin) * Refill
      BY <2>2, RefillTime, BucketAssumption, Monotone
    <2>4. Elapsed(now) * Refill \in Nat /\ (TimeToLive - Margin) * Refill \in Nat
      BY <2>2, RefillTime, BucketAssumption, Monotone
    <2> QED
      BY <2>3, <2>4, RefillTime, BucketAssumption DEF BucketInv, BucketTypeOK
  <1> QED
    BY <1>2, <1>3 DEF BucketInv, ExpiryInv

\* A request's step, on numbers.
LEMMA TakeStep ==
  ASSUME BucketInv, NEW now \in CallerTime, check_rate_limit(now), UNCHANGED clock
  PROVE  BucketInv'
  <1> DEFINE e == Elapsed(now) * Refill
  <1>1. now \in Nat /\ now <= clock + Skew
    BY BucketAssumption DEF CallerTime, BucketInv, BucketTypeOK
  <1>2. e \in Nat /\ Refilled(now) \in 0 .. Capacity
    BY <1>1, RefilledBounds DEF BucketInv
  <1>3. tokens' \in 0 .. Capacity /\ allowed' \in Nat
    BY <1>2, BucketAssumption DEF check_rate_limit, Sufficient, BucketInv, BucketTypeOK
  <1>4. BucketTypeOK'
    BY <1>1, <1>3, TimeToLiveNat DEF check_rate_limit, BucketInv, BucketTypeOK
  <1>5. ExpiryInv'
    BY <1>1, TimeToLiveNat, BucketAssumption
    DEF check_rate_limit, ExpiryInv, BucketInv, BucketTypeOK
  <1>6. tokens' + allowed' * Token = Refilled(now) + allowed * Token
    <2>1. allowed \in Nat /\ Token \in Nat /\ (allowed + 1) * Token = allowed * Token + Token
      BY BucketAssumption DEF BucketInv, BucketTypeOK
    <2>2. allowed * Token \in Nat
      BY <2>1, Monotone
    <2> QED
      BY <1>2, <2>1, <2>2 DEF check_rate_limit
  <1>7. WindowInv'
    <2> DEFINE counted == last_refill - first + regress
    <2>1. CASE first = -1
      <3>1. first' = now /\ last_refill' = now /\ regress' = 0 /\ allowed = 0
        BY <2>1 DEF check_rate_limit, BucketInv, WindowInv
      <3>2. Refill * (last_refill' - first' + regress') = 0
        BY <1>1, <3>1, BucketAssumption
      <3> QED
        BY <1>1, <1>2, <1>6, <3>1, <3>2, BucketAssumption DEF WindowInv
    <2>2. CASE first # -1
      <3>1. /\ counted \in Int /\ Refill \in Nat /\ Capacity \in Nat
            /\ allowed * Token \in Nat /\ tokens \in Nat
        BY <2>2, BucketAssumption, Monotone DEF BucketInv, BucketTypeOK
      <3>2. tokens + allowed * Token <= Capacity + Refill * counted
        BY <2>2 DEF BucketInv, WindowInv
      <3>3. Refilled(now) <= tokens + e
        BY <1>2, <3>1, ExpiredIsFull DEF Refilled
      <3>4. last_refill' - first' + regress' = counted + Elapsed(now)
        BY <1>1, <2>2 DEF check_rate_limit, Elapsed, BucketInv, BucketTypeOK
      <3>5. Refill * (counted + Elapsed(now)) = Refill * counted + e
        BY <1>1, <3>1, RefilledBounds DEF BucketInv
      <3>6. Refill * counted \in Int
        BY <3>1
      <3>7. tokens' + allowed' * Token
              <= Capacity + Refill * (last_refill' - first' + regress')
        BY <1>2, <1>6, <3>1, <3>2, <3>3, <3>4, <3>5, <3>6
      <3>8. first' # -1
        BY <2>2 DEF check_rate_limit
      <3> QED
        BY <3>7, <3>8 DEF WindowInv
    <2> QED
      BY <2>1, <2>2
  <1> QED
    BY <1>4, <1>5, <1>7 DEF BucketInv

LEMMA BucketInvariant == Spec => []BucketInv
  <1>1. Init => BucketInv
    BY BucketAssumption, ClockAssumption
    DEF Init, BucketInit, BucketInv, BucketTypeOK, WindowInv, ExpiryInv
  <1>2. BucketInv /\ [Next]_vars => BucketInv'
    <2> SUFFICES ASSUME BucketInv, [BucketNext]_<<bucketVars, clock>>
                 PROVE  BucketInv'
      BY GateStepsBucket
    <2>1. ASSUME NEW now \in CallerTime, check_rate_limit(now), UNCHANGED clock
          PROVE  BucketInv'
      BY <2>1, TakeStep
    <2>2. CASE OpenWindow /\ UNCHANGED clock
      BY <2>2 DEF OpenWindow, BucketInv, BucketTypeOK, WindowInv, ExpiryInv
    <2>3. CASE Tick /\ UNCHANGED bucketVars
      BY <2>3 DEF Tick, bucketVars, BucketInv, BucketTypeOK, WindowInv, ExpiryInv
    <2>4. CASE UNCHANGED <<bucketVars, clock>>
      BY <2>4 DEF bucketVars, BucketInv, BucketTypeOK, WindowInv, ExpiryInv
    <2> QED
      BY <2>1, <2>2, <2>3, <2>4 DEF BucketNext
  <1> QED
    BY <1>1, <1>2, PTL DEF Spec

\* However many servers call and whatever their clocks say, what the script lets
\* through in a window is bounded by the capacity and the time it counted.
THEOREM LimitKept == Spec => []WindowLimit
  <1>1. BucketInv => WindowLimit
    <2> SUFFICES ASSUME BucketInv, first # -1 PROVE WindowLimit
      BY DEF WindowLimit
    <2>1. allowed * Token \in Nat /\ tokens \in Nat /\ Capacity \in Nat
      BY BucketAssumption, Monotone DEF BucketInv, BucketTypeOK
    <2>2. Refill * (last_refill - first + regress) \in Int
      BY BucketAssumption DEF BucketInv, BucketTypeOK
    <2> QED
      BY <2>1, <2>2 DEF BucketInv, WindowInv, WindowLimit
  <1> QED
    BY <1>1, BucketInvariant, PTL

\* The bucket with its time to live implements one that is never forgotten.
THEOREM ExpiryUnobservable == Spec => NothingToRemember
  <1>1. Init => Promise!Init
    BY DEF Init, BucketInit, Promise!Init
  <1>2. BucketInv /\ [Next]_vars => [Promise!Take]_<<tokens, last_refill>>
    <2> SUFFICES ASSUME BucketInv, [BucketNext]_<<bucketVars, clock>>
                 PROVE  [Promise!Take]_<<tokens, last_refill>>
      BY GateStepsBucket
    <2>1. ASSUME NEW now \in CallerTime, check_rate_limit(now), UNCHANGED clock
          PROVE  Promise!Take
      <3>1. now \in Nat /\ last_refill' = now
        BY <2>1, BucketAssumption DEF check_rate_limit, CallerTime, BucketInv, BucketTypeOK
      <3>2. Promise!Bought(now) = Elapsed(now) * Refill
        BY <3>1, BucketAssumption DEF Promise!Bought, Elapsed, BucketInv, BucketTypeOK
      <3>3. /\ tokens \in Nat /\ Capacity \in Nat /\ Elapsed(now) * Refill \in Nat
            /\ Refilled(now) \in 0 .. Capacity
        BY <3>1, RefilledBounds, BucketAssumption DEF BucketInv, BucketTypeOK
      <3>4. Refilled(now) = Promise!Full(tokens + Promise!Bought(now))
        BY <3>2, <3>3, ExpiredIsFull DEF Refilled, Promise!Full
      <3> QED
        BY <2>1, <3>1, <3>4 DEF check_rate_limit, Sufficient, Promise!Take
    <2> QED
      BY <2>1 DEF BucketNext, OpenWindow, bucketVars
  <1> QED
    BY <1>1, <1>2, BucketInvariant, PTL DEF Spec, NothingToRemember, Promise!Spec

(***************************************************************************)
(* The keys.                                                               *)
(***************************************************************************)

GateKeysNext == RotateNext \/ UNCHANGED keyVars

\* The keys' part of a step of the gate is a step of a rotation, or none.
LEMMA GateStepsKeys ==
  ASSUME [Next]_vars, clock \in Nat
  PROVE  GateKeysNext /\ clock' \in Nat /\ clock' >= clock
                      /\ (clock' = clock \/ UNCHANGED keyVars)
  BY DEF Next, vars, GateKeysNext, get_current_merchant, enforce_rate_limit, Tick

LEMMA HashInjective ==
  ASSUME NEW a, NEW b, hash_api_key(a) = hash_api_key(b)
  PROVE  a = b
  BY DEF hash_api_key

\* While runs neither overlap nor die before they print, at most one is under way,
\* what it loaded is current, and the key that was given last is the current one
\* or, until the new key is printed, the previous one.
SerialInv ==
  /\ \A o, p \in Rotations :
       rotation[o] \in {"loaded", "committed"} /\ rotation[p] \in {"loaded", "committed"}
         => o = p
  /\ \A o \in Rotations : rotation[o] = "loaded" => loaded[o] = api_key_hash
  /\ \A o \in Rotations :
       rotation[o] = "committed" => /\ api_key_hash = hash_api_key(o)
                                    /\ previous_api_key_hash = hash_api_key(given)
  /\ (\A o \in Rotations : rotation[o] # "committed")
       => api_key_hash = hash_api_key(given)

KeysInv == KeysTypeOK /\ (undisturbed => SerialInv)

LEMMA KeysInvStep ==
  ASSUME KeysInv, RotateNext, clock \in Nat
  PROVE  KeysInv'
  <1> DEFINE Hashes == { hash_api_key(key) : key \in Keys }
  <1>1. PICK o \in Rotations :
          RotateLoad(o) \/ rotate_api_key(o) \/ RotatePrint(o) \/ RotateCrash(o)
    BY DEF RotateNext
  <1>2. hash_api_key(o) \in Hashes /\ o \in Keys
    BY DEF Keys
  <1>3. CASE RotateLoad(o)
    <2>1. KeysTypeOK'
      BY <1>3 DEF RotateLoad, KeysInv, KeysTypeOK
    <2>2. ASSUME undisturbed' = TRUE PROVE SerialInv'
      <3>1. /\ undisturbed
            /\ \A p \in Rotations : rotation[p] \notin {"loaded", "committed"}
        BY <1>3, <2>2, Zenon DEF RotateLoad
      <3> QED
        BY <1>3, <3>1 DEF RotateLoad, KeysInv, KeysTypeOK, SerialInv
    <2> QED
      BY <2>1, <2>2, Zenon DEF KeysInv, KeysTypeOK
  <1>4. CASE rotate_api_key(o)
    <2>1. clock + Overlap \in Nat /\ loaded[o] \in Hashes \cup {NoHash}
      BY KeysAssumption DEF KeysInv, KeysTypeOK
    <2>2. KeysTypeOK'
      BY <1>2, <1>4, <2>1 DEF rotate_api_key, KeysInv, KeysTypeOK
    <2>3. ASSUME undisturbed PROVE SerialInv'
      <3>1. SerialInv /\ loaded[o] = hash_api_key(given)
        BY <1>4, <2>3 DEF rotate_api_key, KeysInv, SerialInv
      <3> QED
        BY <1>4, <3>1 DEF rotate_api_key, KeysInv, KeysTypeOK, SerialInv
    <2> QED
      BY <1>4, <2>2, <2>3 DEF rotate_api_key, KeysInv
  <1>5. CASE RotatePrint(o)
    <2>1. KeysTypeOK'
      BY <1>2, <1>5 DEF RotatePrint, KeysInv, KeysTypeOK
    <2>2. ASSUME undisturbed PROVE SerialInv'
      BY <1>5, <2>2 DEF RotatePrint, KeysInv, KeysTypeOK, SerialInv
    <2> QED
      BY <1>5, <2>1, <2>2 DEF RotatePrint, KeysInv
  <1>6. CASE RotateCrash(o)
    <2>1. KeysTypeOK'
      BY <1>6 DEF RotateCrash, KeysInv, KeysTypeOK
    <2>2. ASSUME undisturbed' = TRUE PROVE SerialInv'
      <3>1. undisturbed /\ rotation[o] = "loaded"
        BY <1>6, <2>2, Zenon DEF RotateCrash
      <3> QED
        BY <1>6, <3>1 DEF RotateCrash, KeysInv, KeysTypeOK, SerialInv
    <2> QED
      BY <2>1, <2>2, Zenon DEF KeysInv, KeysTypeOK
  <1> QED
    BY <1>1, <1>3, <1>4, <1>5, <1>6

LEMMA KeysInvariant == Spec => []KeysInv
  <1>1. Init => KeysInv
    BY DEF Init, KeysInit, KeysInv, KeysTypeOK, SerialInv, Keys
  <1>2. BucketInv /\ KeysInv /\ [Next]_vars => KeysInv'
    <2> SUFFICES ASSUME KeysInv, clock \in Nat, GateKeysNext PROVE KeysInv'
      BY GateStepsKeys DEF BucketInv, BucketTypeOK
    <2>1. CASE RotateNext
      BY <2>1, KeysInvStep
    <2>2. CASE UNCHANGED keyVars
      BY <2>2 DEF keyVars, KeysInv, KeysTypeOK, SerialInv
    <2> QED
      BY <2>1, <2>2 DEF GateKeysNext
  <1> QED
    BY <1>1, <1>2, BucketInvariant, PTL DEF Spec

\* Rows, buckets and requests keep their types.
THEOREM GateTypeCorrect == Spec => []TypeOK
  <1> DEFINE StageOK ==
        stage \in [Requests -> {"idle", "refused", "authenticated", "limited", "admitted"}]
  <1>1. Init => StageOK
    BY DEF Init
  <1>2. StageOK /\ [Next]_vars => StageOK'
    BY DEF Next, vars, get_current_merchant, enforce_rate_limit
  <1>3. BucketInv /\ KeysInv /\ StageOK => TypeOK
    BY DEF BucketInv, KeysInv, TypeOK
  <1> QED
    BY <1>1, <1>2, <1>3, BucketInvariant, KeysInvariant, PTL DEF Spec

\* A merchant that uses the last key it was given is served through any number of
\* rotations that neither overlap nor die before they print.
THEOREM RotationWithoutOutage == Spec => []NoOutage
  <1>1. BucketInv /\ KeysInv => NoOutage
    <2> SUFFICES ASSUME clock \in Nat, KeysInv, undisturbed, merchant_status = "active",
                        ~Authenticates(given)
                 PROVE  /\ \E o \in Rotations : rotation[o] = "committed"
                        /\ previous_api_key_hash = hash_api_key(given)
                        /\ previous_api_key_expires_at <= clock
      BY DEF NoOutage, BucketInv, BucketTypeOK
    <2>1. SerialInv /\ previous_api_key_expires_at \in Nat
      BY DEF KeysInv, KeysTypeOK
    <2>2. api_key_hash # hash_api_key(given)
      BY DEF Authenticates
    <2>3. PICK o \in Rotations : rotation[o] = "committed"
      BY <2>1, <2>2 DEF SerialInv
    <2>4. previous_api_key_hash = hash_api_key(given)
      BY <2>1, <2>3 DEF SerialInv
    <2> QED
      BY <2>1, <2>3, <2>4 DEF Authenticates
  <1> QED
    BY <1>1, BucketInvariant, KeysInvariant, PTL

\* While runs do not overlap, no step makes an issued key good again.
THEOREM RetiredKeysStayRetired == Spec => RetiredForGood
  <1> DEFINE Revived(key) ==
        /\ key = SeededKey \/ rotation[key] \in {"committed", "printed", "crashed"}
        /\ ~Authenticates(key) /\ Authenticates(key)'
  <1>1. ASSUME BucketInv, KeysInv, [Next]_vars, NEW key \in Keys, Revived(key), undisturbed
        PROVE  FALSE
    <2>1. /\ clock \in Nat /\ clock' \in Nat /\ clock' >= clock
          /\ previous_api_key_expires_at \in Nat /\ SerialInv
          /\ GateKeysNext /\ (clock' = clock \/ UNCHANGED keyVars)
      BY <1>1, GateStepsKeys DEF BucketInv, BucketTypeOK, KeysInv, KeysTypeOK
    <2>2. CASE /\ UNCHANGED <<api_key_hash, previous_api_key_hash,
                              previous_api_key_expires_at, merchant_status>>
      BY <1>1, <2>1, <2>2 DEF Authenticates
    <2>3. ASSUME NEW o \in Rotations, rotate_api_key(o)
          PROVE  FALSE
      <3>1. /\ rotation[o] = "loaded" /\ loaded[o] = api_key_hash
            /\ api_key_hash' = hash_api_key(o) /\ previous_api_key_hash' = api_key_hash
            /\ merchant_status' = merchant_status
        BY <2>1, <2>3 DEF rotate_api_key, SerialInv
      <3>2. key # o
        BY <1>1, <3>1, KeysAssumption
      <3>3. api_key_hash' # hash_api_key(key)
        BY <3>1, <3>2, HashInjective
      <3>4. api_key_hash = hash_api_key(key) /\ merchant_status = "active"
        BY <1>1, <3>1, <3>3 DEF Authenticates, hash_api_key
      <3> QED
        BY <1>1, <3>4 DEF Authenticates
    <2> QED
      BY <2>1, <2>2, <2>3 DEF GateKeysNext, RotateNext, RotateLoad, RotatePrint,
         RotateCrash, keyVars
  <1>2. BucketInv /\ KeysInv /\ [Next]_vars
          => [\A key \in Keys : Revived(key) => ~undisturbed]_<<keyVars, clock>>
    BY <1>1
  <1> QED
    BY <1>2, BucketInvariant, KeysInvariant, PTL DEF Spec, RetiredForGood

===============================================================================
