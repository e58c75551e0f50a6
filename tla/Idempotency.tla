----------------------------- MODULE Idempotency -----------------------------
(***************************************************************************)
(* One (merchant_id, idempotency_key) pair and the requests made under it. *)
(*                                                                         *)
(* create_payment and refund_payment commit their claim with the first     *)
(* effect of the operation and call the provider afterwards;               *)
(* capture_payment keeps the claim in the one transaction that also calls  *)
(* the provider.  A statement that meets an uncommitted write of the key's *)
(* row waits for that transaction: ON CONFLICT DO NOTHING for the insert,  *)
(* UPDATE for the row lock.  A plain SELECT reads what is committed.       *)
(*                                                                         *)
(* The session keeps the row it has read.  The ORM evaluates the reclaiming *)
(* UPDATE on that object too, whether or not the database matched a row,   *)
(* and a second SELECT does not refresh it: memory[r].                     *)
(***************************************************************************)
EXTENDS Integers

CONSTANTS
  Requests,     \* requests under the key
  Operations,   \* the operations clients use the key for
  Bodies,       \* what else distinguishes requests: path and body
  StaleAfter,   \* stale_after, in ticks of the clock
  Timely,       \* every request is over within StaleAfter, or has crashed
  FreeTime,     \* how long the clock runs while no claim is waiting to go stale
  None          \* no request

ASSUME OperationsAssumption == Operations \subseteq {"create", "capture", "refund"}

ASSUME TimeAssumption ==
  /\ StaleAfter \in Nat \ {0}
  /\ FreeTime \in Nat
  /\ Timely \in BOOLEAN

ASSUME NoneAssumption == None \notin Requests

VARIABLES
  request,    \* per request: its operation and body
  key,        \* the idempotency_keys row as committed, NoRow if there is none
  writer,     \* the request whose transaction has written the row
  draft,      \* what it has written
  payment,    \* the refund that holds the payment's row lock
  clock,
  pc,         \* per request: control point
  now,        \* per request: when its claim began
  memory,     \* per request: the row object in its session
  executed,   \* requests whose operation has taken effect
  result      \* per request: whose response it returned

rows == <<key, writer, draft, payment, executed>>
vars == <<request, rows, clock, pc, now, memory, result>>

\* SHA-256 of method, path and body.
compute_fingerprint(r) == request[r]

NoRow == [id |-> None, status |-> "NONE", fingerprint |-> None, locked_at |-> 0,
          response |-> None]

\* The id of the row r has claimed.  A row is named after the request that inserts it.
key_row_id(r) == IF memory[r] = NoRow THEN r ELSE memory[r].id

\* Waiting: nobody's uncommitted write of the row is in the way.
RowFree == writer = None

PaymentFree == payment = None

\* What a claim makes of the row.
Claim(row, r) ==
  [row EXCEPT !.status = "PENDING", !.locked_at = now[r], !.response = None]

Goto(r, label) == pc' = [pc EXCEPT ![r] = label]

Init ==
  /\ request \in [Requests -> [op : Operations, body : Bodies]]
  /\ key = NoRow
  /\ writer = None
  /\ draft = NoRow
  /\ payment = None
  /\ clock = 0
  /\ pc = [r \in Requests |-> "idle"]
  /\ now = [r \in Requests |-> 0]
  /\ memory = [r \in Requests |-> NoRow]
  /\ executed = {}
  /\ result = [r \in Requests |-> None]

-------------------------------------------------------------------------------
(***************************************************************************)
(* claim_idempotency_key                                                   *)
(***************************************************************************)

\* A client sends its request, or sends it again after REQUEST_IN_PROGRESS.
Begin(r) ==
  /\ pc[r] \in {"idle", "busy"}
  /\ now' = [now EXCEPT ![r] = clock]
  /\ memory' = [memory EXCEPT ![r] = NoRow]
  /\ Goto(r, "inserting")
  /\ UNCHANGED <<request, rows, clock, result>>

\* INSERT ... ON CONFLICT DO NOTHING.
Insert(r) ==
  /\ pc[r] = "inserting"
  /\ RowFree
  /\ IF key = NoRow
     THEN /\ writer' = r
          /\ draft' = Claim([NoRow EXCEPT !.id = r, !.fingerprint = compute_fingerprint(r)], r)
          /\ Goto(r, "claimed")
     ELSE /\ Goto(r, "selecting")
          /\ UNCHANGED <<writer, draft>>
  /\ UNCHANGED <<request, key, payment, executed, clock, now, memory, result>>

\* The row the SELECT gives to the session of r.
Existing(r) == IF memory[r] = NoRow THEN key ELSE memory[r]

\* Mutant: a key of another request is taken for this one's.
Conflicts_Never(r) == FALSE

Conflicts(r) == Existing(r).fingerprint # compute_fingerprint(r)

\* Mutant: locked_at is not looked at.
InProgress_Always(r) == Existing(r).status = "PENDING"

InProgress(r) ==
  Existing(r).status = "PENDING" /\ now[r] - Existing(r).locked_at < StaleAfter

\* CONFLICT: IDEMPOTENCY_KEY_REUSED.
SelectConflict(r) ==
  /\ pc[r] = "selecting"
  /\ Conflicts(r)
  /\ Goto(r, "rejected")
  /\ UNCHANGED <<request, rows, clock, now, memory, result>>

\* REPLAY: the stored response, verbatim.
SelectReplay(r) ==
  /\ pc[r] = "selecting"
  /\ ~Conflicts(r)
  /\ Existing(r).status = "COMPLETED"
  /\ result' = [result EXCEPT ![r] = Existing(r).response]
  /\ Goto(r, "done")
  /\ UNCHANGED <<request, rows, clock, now, memory>>

\* IN_PROGRESS: REQUEST_IN_PROGRESS.
SelectInProgress(r) ==
  /\ pc[r] = "selecting"
  /\ ~Conflicts(r)
  /\ InProgress(r)
  /\ Goto(r, "busy")
  /\ UNCHANGED <<request, rows, clock, now, memory, result>>

\* Mutant: a COMPLETED key is not told from an abandoned one.
SelectAbandoned_CompletedToo(r) ==
  /\ pc[r] = "selecting"
  /\ ~Conflicts(r)
  /\ ~InProgress(r)
  /\ memory' = [memory EXCEPT ![r] = Existing(r)]
  /\ Goto(r, "reclaiming")
  /\ UNCHANGED <<request, rows, clock, now, result>>

\* FAILED, or PENDING for too long.
SelectAbandoned(r) ==
  /\ pc[r] = "selecting"
  /\ ~Conflicts(r)
  /\ Existing(r).status # "COMPLETED"
  /\ ~InProgress(r)
  /\ memory' = [memory EXCEPT ![r] = Existing(r)]
  /\ Goto(r, "reclaiming")
  /\ UNCHANGED <<request, rows, clock, now, result>>

\* Mutant: the WHERE clause has only the row's id.
StillAbandoned_Unchecked(r) == TRUE

\* The WHERE clause of _reclaim.
StillAbandoned(r) ==
  /\ key.status = memory[r].status
  /\ memory[r].status = "PENDING" => key.locked_at = memory[r].locked_at

\* Zero rows: the claim is evaluated again from its beginning.
_reclaim(r) ==
  /\ pc[r] = "reclaiming"
  /\ RowFree
  /\ IF StillAbandoned(r)
     THEN /\ writer' = r
          /\ draft' = Claim(key, r)
          /\ Goto(r, "claimed")
          /\ UNCHANGED <<now, memory>>
     ELSE /\ memory' = [memory EXCEPT ![r] = Claim(@, r)]
          /\ now' = [now EXCEPT ![r] = clock]
          /\ Goto(r, "inserting")
          /\ UNCHANGED <<writer, draft>>
  /\ UNCHANGED <<request, key, payment, executed, clock, result>>

-------------------------------------------------------------------------------
(***************************************************************************)
(* The operation under the claim.                                          *)
(***************************************************************************)

\* The transaction of r ends and lets go of what it has locked.
Release(r) ==
  /\ writer' = IF writer = r THEN None ELSE writer
  /\ draft' = IF writer = r THEN NoRow ELSE draft
  /\ payment' = IF payment = r THEN None ELSE payment

\* The first commit: the new payment, or the refund's reservation, with the claim.
Start(r) ==
  /\ pc[r] = "claimed"
  /\ request[r].op \in {"create", "refund"}
  /\ request[r].op = "refund" => PaymentFree
  /\ key' = draft
  /\ executed' = executed \cup {r}
  /\ Release(r)
  /\ Goto(r, "running")
  /\ UNCHANGED <<request, clock, now, memory, result>>

\* The payment is not in a state for the operation: the claim is rolled back.
Refuse(r) ==
  /\ pc[r] = "claimed"
  /\ request[r].op \in {"capture", "refund"}
  /\ PaymentFree
  /\ Release(r)
  /\ Goto(r, "failing")
  /\ UNCHANGED <<request, key, executed, clock, now, memory, result>>

\* The provider has answered the refund: the payment is locked again.
Relock(r) ==
  /\ pc[r] = "running"
  /\ request[r].op = "refund"
  /\ PaymentFree
  /\ payment' = r
  /\ Goto(r, "finishing")
  /\ UNCHANGED <<request, key, writer, draft, executed, clock, now, memory, result>>

\* Mutant: the outcome of the operation is stored as the key's status.
Completed_Outcome(row, r) == [row EXCEPT !.status = "SUCCEEDED", !.response = r]

Completed(row, r) == [row EXCEPT !.status = "COMPLETED", !.response = r]

\* The last commit.  The UPDATE names the row by its id and nothing else.
complete_idempotency_key(r) ==
  /\ pc[r] = IF request[r].op = "create" THEN "running" ELSE "finishing"
  /\ RowFree
  /\ key' = Completed(key, r)
  /\ result' = [result EXCEPT ![r] = r]
  /\ Release(r)
  /\ Goto(r, "done")
  /\ UNCHANGED <<request, executed, clock, now, memory>>

\* Mutant: the capture is committed and its key is left to be completed later.
CaptureComplete_KeyPending(r) ==
  /\ pc[r] = "claimed"
  /\ request[r].op = "capture"
  /\ PaymentFree
  /\ key' = draft
  /\ executed' = executed \cup {r}
  /\ result' = [result EXCEPT ![r] = r]
  /\ Release(r)
  /\ Goto(r, "done")
  /\ UNCHANGED <<request, clock, now, memory>>

\* A capture is over, provider call included, in the transaction of its claim.
CaptureComplete(r) ==
  /\ pc[r] = "claimed"
  /\ request[r].op = "capture"
  /\ PaymentFree
  /\ key' = Completed(draft, r)
  /\ executed' = executed \cup {r}
  /\ result' = [result EXCEPT ![r] = r]
  /\ Release(r)
  /\ Goto(r, "done")
  /\ UNCHANGED <<request, clock, now, memory>>

\* The provider, or the database, raises an exception after the claim: before the
\* first commit it rolls the claim back.
Raise(r) ==
  /\ pc[r] \in {"claimed", "running", "finishing"}
  /\ Release(r)
  /\ Goto(r, "failing")
  /\ UNCHANGED <<request, key, executed, clock, now, memory, result>>

\* A refund that holds the key and waits for the payment, and one that holds the
\* payment and waits for the key.
Deadlocked ==
  /\ writer # None /\ payment # None
  /\ request[writer].op = "refund"

\* PostgreSQL aborts one of the two.
DeadlockAbort(r) ==
  /\ Deadlocked
  /\ r \in {writer, payment}
  /\ Release(r)
  /\ Goto(r, "failing")
  /\ UNCHANGED <<request, key, executed, clock, now, memory, result>>

\* _fail_claim_and_raise: after the roll back the row is read again by its id.  An
\* insert that was rolled back has left none ...
FailRead(r) ==
  /\ pc[r] = "failing"
  /\ Goto(r, IF key.id = key_row_id(r) /\ key.status = "PENDING" THEN "marking" ELSE "failed")
  /\ UNCHANGED <<request, rows, clock, now, memory, result>>

\* ... and marked by its id.
fail_idempotency_key(r) ==
  /\ pc[r] = "marking"
  /\ RowFree
  /\ key' = [key EXCEPT !.status = "FAILED"]
  /\ Goto(r, "marked")
  /\ UNCHANGED <<request, writer, draft, payment, executed, clock, now, memory, result>>

Active(r) == pc[r] \notin {"idle", "busy", "rejected", "done", "failed", "marked", "crashed"}

Crash(r) ==
  /\ Active(r)
  /\ Release(r)
  /\ Goto(r, "crashed")
  /\ UNCHANGED <<request, key, executed, clock, now, memory, result>>

\* A claim that goes stale as time passes.
Ageing == key.status = "PENDING" /\ clock - key.locked_at < StaleAfter

Tick ==
  /\ clock < FreeTime \/ Ageing
  /\ Timely => \A r \in Requests : Active(r) => clock + 1 - now[r] < StaleAfter
  /\ clock' = clock + 1
  /\ UNCHANGED <<request, rows, pc, now, memory, result>>

-------------------------------------------------------------------------------

Select(r) ==
  \/ SelectConflict(r)
  \/ SelectReplay(r)
  \/ SelectInProgress(r)
  \/ SelectAbandoned(r)

\* The steps a request takes unless something goes wrong.
Proceed(r) ==
  \/ Insert(r)
  \/ Select(r)
  \/ _reclaim(r)
  \/ Start(r)
  \/ Relock(r)
  \/ complete_idempotency_key(r)
  \/ CaptureComplete(r)
  \/ FailRead(r)
  \/ fail_idempotency_key(r)

RequestNext(r) ==
  \/ Begin(r)
  \/ Proceed(r)
  \/ Refuse(r)
  \/ Raise(r)
  \/ DeadlockAbort(r)
  \/ Crash(r)

Next == Tick \/ \E r \in Requests : RequestNext(r)

Spec == Init /\ [][Next]_vars

(***************************************************************************)
(* A request that runs keeps running, the database breaks deadlocks, time  *)
(* passes, and a client that was told REQUEST_IN_PROGRESS asks again.      *)
(***************************************************************************)
FairSpec ==
  /\ Spec
  /\ WF_vars(Tick)
  /\ \A r \in Requests :
       /\ WF_vars(Proceed(r))
       /\ WF_vars(DeadlockAbort(r))
       /\ WF_vars(pc[r] = "busy" /\ Begin(r))

-------------------------------------------------------------------------------
(***************************************************************************)
(* Properties.                                                             *)
(***************************************************************************)

Fingerprints == [op : Operations, body : Bodies]

Row == [ id          : Requests \cup {None},
         status      : {"NONE", "PENDING", "COMPLETED", "FAILED"},
         fingerprint : Fingerprints \cup {None},
         locked_at   : Nat,
         response    : Requests \cup {None} ]

\* The columns, the session copies and the control points keep their types.
TypeOK ==
  /\ request \in [Requests -> Fingerprints]
  /\ key \in Row
  /\ writer \in Requests \cup {None}
  /\ draft \in Row
  /\ payment \in Requests \cup {None}
  /\ clock \in Nat
  /\ pc \in [Requests -> {"idle", "inserting", "selecting", "busy", "rejected", "reclaiming",
                          "claimed", "running", "finishing", "done", "failing", "marking",
                          "failed", "marked", "crashed"}]
  /\ now \in [Requests -> Nat]
  /\ memory \in [Requests -> Row]
  /\ executed \subseteq Requests
  /\ result \in [Requests -> Requests \cup {None}]

\* However claims, roll backs and reclaims interleave, no operation takes effect
\* under the key of a different request, and no request is answered with the
\* response to a different one: both would have to match the row's fingerprint.  A
\* request that holds a claim finds the row it claimed (assert key_row is not None).
KeysNeverMix ==
  /\ \A r \in Requests : pc[r] \in {"running", "finishing"} => key.id = key_row_id(r)
  /\ \A r \in executed : key.fingerprint = compute_fingerprint(r)
  /\ \A r \in Requests : result[r] # None =>
       /\ result[r] \in executed
       /\ compute_fingerprint(result[r]) = compute_fingerprint(r)

\* However slow or crashed its holders are, captures under one key take effect at
\* most once: their claim is never visible before the capture is over.
CapturedOnce ==
  \A r, s \in executed : request[r].op = "capture" => r = s

\* The request that holds the claim: between the commit of the claim and the end
\* of the request.
Holds(r) == pc[r] \in {"running", "finishing"}

\* At most one request at a time executes the key's operation.
OneHolder == \A r, s \in Requests : Holds(r) /\ Holds(s) => r = s

\* A request has marked FAILED a claim that was not its own: it never committed one.
Mismarked == \E r \in Requests : pc[r] = "marked" /\ r \notin executed

\* While requests are timely, two of them execute the key's operation at once only
\* after _fail_claim_and_raise has marked the claim of another request: crashes,
\* exceptions, rolled-back inserts and racing reclaims do not lead there by themselves.
OneHolderUnlessMismarked == ~Mismarked => OneHolder

Promise == INSTANCE OneAnswer WITH
  decided <- IF key.status = "COMPLETED" THEN key.response ELSE None,
  answers <- result,
  broken  <- Mismarked

\* The key keeps its promise: the first completion decides the answer, nothing
\* takes it back, and every request that returns a response returns that one, until
\* a request marks the claim of another one FAILED.
KeepsPromise == Promise!Spec

\* A request that is not refused by an exception or a crash of its own gets its
\* answer: claims that were abandoned do not hold up the key for ever.
Served ==
  \A r \in Requests :
    pc[r] = "inserting" ~> pc[r] \in {"rejected", "done", "failed", "marked", "crashed"}

===============================================================================
