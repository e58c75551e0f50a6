----------------------------- MODULE MerchantKeys -----------------------------
(***************************************************************************)
(* A merchant's API keys: the row of the merchants table, runs of          *)
(* scripts/rotate_api_key.py by operators, and the lookup every request    *)
(* makes with the key it presents.                                         *)
(*                                                                         *)
(* A run loads the row without a lock, writes it back by its id, and then  *)
(* prints the key it made: nobody has that key before.                     *)
(***************************************************************************)
EXTENDS Clock

CONSTANTS
  Rotations,   \* runs of the script; each stands for the key it generates
  SeededKey,   \* the key the merchant was seeded with
  Overlap,     \* DEFAULT_OVERLAP
  NoHash       \* NULL

Keys == Rotations \cup {SeededKey}

ASSUME KeysAssumption == SeededKey \notin Rotations /\ Overlap \in Nat \ {0}

VARIABLES
  api_key_hash, previous_api_key_hash, previous_api_key_expires_at,
  merchant_status, \* merchants.status: nothing in the program changes it
  rotation,        \* per run: its control point
  loaded,          \* per run: the api_key_hash it has read
  given,           \* the last key that was printed for the merchant
  undisturbed      \* runs did not overlap, and none died between commit and print

keyVars == <<api_key_hash, previous_api_key_hash, previous_api_key_expires_at,
             merchant_status, rotation, loaded, given, undisturbed>>

\* SHA-256 is taken to be injective on the keys there are.
hash_api_key(key) == <<"sha256", key>>

KeysInit ==
  /\ api_key_hash = hash_api_key(SeededKey)
  /\ previous_api_key_hash = NoHash
  /\ previous_api_key_expires_at = 0
  /\ merchant_status \in {"active", "suspended"}
  /\ rotation = [o \in Rotations |-> "idle"]
  /\ loaded = [o \in Rotations |-> NoHash]
  /\ given = SeededKey
  /\ undisturbed = TRUE

RotateLoad(o) ==
  /\ rotation[o] = "idle"
  /\ rotation' = [rotation EXCEPT ![o] = "loaded"]
  /\ loaded' = [loaded EXCEPT ![o] = api_key_hash]
  /\ undisturbed' = (undisturbed /\
                     \A other \in Rotations : rotation[other] \notin {"loaded", "committed"})
  /\ UNCHANGED <<api_key_hash, previous_api_key_hash, previous_api_key_expires_at,
                 merchant_status, given>>

\* Mutant: the key is replaced in place.
rotate_api_key_InPlace(o) ==
  /\ rotation[o] = "loaded"
  /\ api_key_hash' = hash_api_key(o)
  /\ rotation' = [rotation EXCEPT ![o] = "committed"]
  /\ UNCHANGED <<previous_api_key_hash, previous_api_key_expires_at, merchant_status,
                 loaded, given, undisturbed>>

\* rotate_api_key on the loaded object, and the commit.
rotate_api_key(o) ==
  /\ rotation[o] = "loaded"
  /\ previous_api_key_hash' = loaded[o]
  /\ previous_api_key_expires_at' = clock + Overlap
  /\ api_key_hash' = hash_api_key(o)
  /\ rotation' = [rotation EXCEPT ![o] = "committed"]
  /\ loaded' = [loaded EXCEPT ![o] = NoHash]
  /\ UNCHANGED <<merchant_status, given, undisturbed>>

\* Mutant: the overlap is made to begin when the key is handed over.
RotatePrint_OverlapFromPrint(o) ==
  /\ rotation[o] = "committed"
  /\ given' = o
  /\ previous_api_key_expires_at' = clock + Overlap
  /\ rotation' = [rotation EXCEPT ![o] = "printed"]
  /\ UNCHANGED <<api_key_hash, previous_api_key_hash, merchant_status, loaded, undisturbed>>

RotatePrint(o) ==
  /\ rotation[o] = "committed"
  /\ given' = o
  /\ rotation' = [rotation EXCEPT ![o] = "printed"]
  /\ UNCHANGED <<api_key_hash, previous_api_key_hash, previous_api_key_expires_at,
                 merchant_status, loaded, undisturbed>>

RotateCrash(o) ==
  /\ rotation[o] \in {"loaded", "committed"}
  /\ rotation' = [rotation EXCEPT ![o] = "crashed"]
  /\ loaded' = [loaded EXCEPT ![o] = NoHash]
  /\ undisturbed' = (undisturbed /\ rotation[o] = "loaded")
  /\ UNCHANGED <<api_key_hash, previous_api_key_hash, previous_api_key_expires_at,
                 merchant_status, given>>

RotateNext ==
  \E o \in Rotations :
    RotateLoad(o) \/ rotate_api_key(o) \/ RotatePrint(o) \/ RotateCrash(o)

\* get_current_merchant finds the merchant for this key.
Authenticates(key) ==
  /\ \/ api_key_hash = hash_api_key(key)
     \/ /\ previous_api_key_hash = hash_api_key(key)
        /\ previous_api_key_expires_at > clock
  /\ merchant_status = "active"

-------------------------------------------------------------------------------

\* Type invariant.
KeysTypeOK ==
  LET Hashes == { hash_api_key(key) : key \in Keys }
  IN /\ api_key_hash \in Hashes
     /\ previous_api_key_hash \in Hashes \cup {NoHash}
     /\ previous_api_key_expires_at \in Nat
     /\ merchant_status \in {"active", "suspended"}
     /\ rotation \in [Rotations -> {"idle", "loaded", "committed", "printed", "crashed"}]
     /\ loaded \in [Rotations -> Hashes \cup {NoHash}]
     /\ given \in Keys
     /\ undisturbed \in BOOLEAN

\* "an already-deployed integration keeps working": a merchant that uses the last key
\* it was given is not turned away during a rotation, unless the new key is not
\* handed over within the overlap, or runs overlap or die before they print.
NoOutage ==
  undisturbed /\ merchant_status = "active" =>
    \/ Authenticates(given)
    \/ /\ \E o \in Rotations : rotation[o] = "committed"
       /\ previous_api_key_hash = hash_api_key(given)
       /\ previous_api_key_expires_at <= clock

\* A key that is no longer accepted is never accepted again, and so "a second
\* rotation during the overlap window" retires the oldest key for good, as long as
\* runs do not overlap and none has died between its commit and its print.
RetiredForGood ==
  [][\A key \in Keys :
       /\ key = SeededKey \/ rotation[key] \in {"committed", "printed", "crashed"}
       /\ ~Authenticates(key) /\ Authenticates(key)'
       => ~undisturbed]_<<keyVars, clock>>

===============================================================================
