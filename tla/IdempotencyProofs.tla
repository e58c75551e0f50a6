-------------------------- MODULE IdempotencyProofs --------------------------
(***************************************************************************)
(* Idempotency keys for any number of requests and any stale limit.        *)
(***************************************************************************)
EXTENDS Idempotency, TLAPS

\* The absent row is a row.
LEMMA NoRowType == NoRow \in Row
  BY DEF NoRow, Row

\* Every action keeps the types: a claim records a time, a completion a request.
LEMMA TypeInductive == TypeOK /\ [Next]_vars => TypeOK'
<1> SUFFICES ASSUME TypeOK, [Next]_vars PROVE TypeOK'
  OBVIOUS
<1> USE NoRowType DEF TypeOK, rows, Goto
<1>1. CASE UNCHANGED vars
  BY <1>1 DEF vars
<1>2. CASE Tick
  BY <1>2 DEF Tick
<1>3. ASSUME NEW r \in Requests, RequestNext(r) PROVE TypeOK'
  <2>1. CASE Begin(r)
    BY <2>1 DEF Begin
  <2>2. CASE Insert(r)
    <3>1. Claim([NoRow EXCEPT !.id = r, !.fingerprint = compute_fingerprint(r)], r) \in Row
      BY Zenon DEF Claim, NoRow, Row, compute_fingerprint
    <3>2. QED
      BY <2>2, <3>1 DEF Insert
  <2>3. CASE Select(r)
    <3>1. Existing(r) \in Row /\ Existing(r).response \in Requests \cup {None}
      BY DEF Existing, Row
    <3>2. QED
      BY <2>3, <3>1 DEF Select, SelectConflict, SelectReplay, SelectInProgress, SelectAbandoned
  <2>4. CASE _reclaim(r)
    <3>1. Claim(key, r) \in Row /\ Claim(memory[r], r) \in Row
      BY Zenon DEF Claim, Row
    <3>2. QED
      BY <2>4, <3>1 DEF _reclaim
  <2>5. CASE Start(r)
    BY <2>5 DEF Start, Release
  <2>6. CASE Refuse(r) \/ Raise(r) \/ Crash(r) \/ DeadlockAbort(r)
    BY <2>6 DEF Refuse, Raise, Crash, DeadlockAbort, Release
  <2>7. CASE Relock(r)
    BY <2>7 DEF Relock
  <2>8. CASE complete_idempotency_key(r)
    <3>1. Completed(key, r) \in Row
      BY Zenon DEF Completed, Row
    <3>2. QED
      BY <2>8, <3>1 DEF complete_idempotency_key, Release
  <2>9. CASE CaptureComplete(r)
    <3>1. Completed(draft, r) \in Row
      BY Zenon DEF Completed, Row
    <3>2. QED
      BY <2>9, <3>1 DEF CaptureComplete, Release
  <2>10. CASE FailRead(r)
    BY <2>10 DEF FailRead
  <2>11. CASE fail_idempotency_key(r)
    <3>1. [key EXCEPT !.status = "FAILED"] \in Row
      BY Zenon DEF Row
    <3>2. QED
      BY <2>11, <3>1 DEF fail_idempotency_key
  <2>12. QED
    BY <1>3, <2>1, <2>2, <2>3, <2>4, <2>5, <2>6, <2>7, <2>8, <2>9, <2>10, <2>11
       DEF RequestNext, Proceed
<1>4. QED
  BY <1>1, <1>2, <1>3 DEF Next

\* The initial state has its types.
LEMMA TypeInit == Init => TypeOK
  BY NoRowType DEF Init, TypeOK, Fingerprints

\* The row, the session copies and the control points of claim_idempotency_key and
\* its callers keep their types, for any requests and any stale limit.
THEOREM KeyTypeCorrect == Spec => []TypeOK
  BY TypeInit, TypeInductive, PTL DEF Spec

-------------------------------------------------------------------------------
(***************************************************************************)
(* Fingerprints.  Everything that works on the row has its fingerprint,    *)
(* and a committed row of a capture is COMPLETED.                          *)
(***************************************************************************)

RowInv ==
  /\ key # NoRow => key.status # "NONE" /\ key.fingerprint \in Fingerprints
  /\ key # NoRow /\ key.fingerprint.op = "capture" => key.status = "COMPLETED"
  /\ key.status = "COMPLETED" => key.response \in executed

WriterInv ==
  /\ \A r \in Requests : pc[r] = "claimed" <=> writer = r
  /\ writer # None =>
       /\ draft.status = "PENDING"
       /\ draft.fingerprint = compute_fingerprint(writer)
       /\ draft.id = key_row_id(writer)
       /\ key # NoRow =>
            /\ draft.id = key.id
            /\ key.fingerprint = compute_fingerprint(writer)
            /\ request[writer].op # "capture"
            /\ key.status # "COMPLETED"

\* The control points before a claim.
Unclaimed == {"idle", "inserting", "selecting", "busy", "reclaiming"}

RequestInv ==
  \A r \in Requests :
    /\ memory[r].status # "COMPLETED"
    /\ memory[r] # NoRow =>
         /\ key # NoRow
         /\ memory[r].id = key.id
         /\ memory[r].fingerprint = key.fingerprint
         /\ key.fingerprint.op # "capture"
    /\ pc[r] = "selecting" => key # NoRow
    /\ pc[r] = "reclaiming" =>
         /\ memory[r] # NoRow
         /\ key.fingerprint = compute_fingerprint(r)
         /\ request[r].op # "capture"
    /\ pc[r] \in {"running", "finishing"} => r \in executed /\ request[r].op # "capture"
    /\ pc[r] = "marking" => key # NoRow /\ key.fingerprint.op # "capture"
    /\ pc[r] \in Unclaimed \cup {"claimed"} => r \notin executed
    /\ payment = r => pc[r] = "finishing"

EffectInv ==
  /\ executed # {} => key # NoRow
  /\ KeysNeverMix
  /\ CapturedOnce

KeyInv == RowInv /\ WriterInv /\ RequestInv /\ EffectInv

\* What a claim writes.
LEMMA ClaimFields ==
  ASSUME NEW row \in Row, NEW r
  PROVE  /\ Claim(row, r).status = "PENDING"
         /\ Claim(row, r).id = row.id
         /\ Claim(row, r).fingerprint = row.fingerprint
         /\ Claim(row, r).locked_at = now[r]
  BY DEF Claim, Row

\* What the first claim writes.
LEMMA FirstClaimFields ==
  ASSUME NEW r
  PROVE  LET first == Claim([NoRow EXCEPT !.id = r, !.fingerprint = compute_fingerprint(r)], r)
         IN /\ first.status = "PENDING"
            /\ first.id = r
            /\ first.fingerprint = compute_fingerprint(r)
            /\ first.locked_at = now[r]
  BY DEF Claim, NoRow

\* What a completion and a failure write.
LEMMA EndFields ==
  ASSUME NEW row \in Row, NEW r
  PROVE  /\ Completed(row, r).status = "COMPLETED"
         /\ Completed(row, r).id = row.id
         /\ Completed(row, r).fingerprint = row.fingerprint
         /\ Completed(row, r).response = r
         /\ [row EXCEPT !.status = "FAILED"].status = "FAILED"
         /\ [row EXCEPT !.status = "FAILED"].id = row.id
         /\ [row EXCEPT !.status = "FAILED"].fingerprint = row.fingerprint
  BY DEF Completed, Row

\* The absent row has no status.
LEMMA NoRowFields == NoRow.status = "NONE"
  BY DEF NoRow

\* Each step keeps the fingerprints together.
LEMMA KeyInvInductive == TypeOK /\ KeyInv /\ [Next]_vars => KeyInv'
<1> SUFFICES ASSUME TypeOK, KeyInv, [Next]_vars PROVE KeyInv'
  OBVIOUS
<1>0. /\ key \in Row /\ draft \in Row
      /\ writer \in Requests \cup {None} /\ executed \subseteq Requests
      /\ request \in [Requests -> Fingerprints] /\ memory \in [Requests -> Row]
      /\ result \in [Requests -> Requests \cup {None}]
      /\ DOMAIN pc = Requests /\ pc = [s \in Requests |-> pc[s]]
  BY DEF TypeOK
<1> USE <1>0, NoneAssumption, NoRowFields
        DEF KeyInv, RowInv, WriterInv, RequestInv, EffectInv, KeysNeverMix, CapturedOnce,
            Unclaimed, key_row_id, compute_fingerprint, rows, Goto, RowFree
<1>1. CASE UNCHANGED vars
  BY <1>1 DEF vars
<1>2. CASE Tick
  BY <1>2 DEF Tick
<1>3. ASSUME NEW r \in Requests, RequestNext(r) PROVE KeyInv'
  <2>1. CASE Begin(r)
    <3>1. RowInv'
      BY <2>1 DEF Begin
    <3>2. WriterInv'
      BY <2>1 DEF Begin
    <3>3. RequestInv'
      BY <2>1 DEF Begin
    <3>4. EffectInv'
      BY <2>1 DEF Begin
    <3>5. QED
      BY <3>1, <3>2, <3>3, <3>4
  <2>2. CASE Insert(r)
    <3>1. RowInv'
      BY <2>2 DEF Insert
    <3>6. CASE key = NoRow
      <4>1. /\ draft' = Claim([NoRow EXCEPT !.id = r, !.fingerprint = request[r]], r)
            /\ writer' = r /\ pc' = [pc EXCEPT ![r] = "claimed"]
            /\ UNCHANGED <<key, payment, request, executed, memory, result>>
            /\ pc[r] = "inserting" /\ writer = None
        BY <2>2, <3>6 DEF Insert
      <4>2. draft'.status = "PENDING" /\ draft'.fingerprint = request[r] /\ draft'.id = r
        BY ONLY <4>1 DEF Claim, NoRow
      <4>3. memory[r] = NoRow /\ executed = {}
        BY <3>6
      <4>4. WriterInv'
        BY <3>6, <4>1, <4>2, <4>3
      <4>5. RequestInv'
        BY <3>6, <4>1, <4>3
      <4>6. EffectInv'
        BY <3>6, <4>1, <4>3
      <4>7. QED
        BY <3>1, <4>4, <4>5, <4>6
    <3>7. CASE key # NoRow
      <4>1. /\ pc' = [pc EXCEPT ![r] = "selecting"]
            /\ UNCHANGED <<key, writer, draft, payment, request, executed, memory, result>>
            /\ pc[r] = "inserting" /\ writer = None
        BY <2>2, <3>7 DEF Insert
      <4>2. WriterInv'
        BY <3>7, <4>1
      <4>3. RequestInv'
        BY <3>7, <4>1
      <4>4. EffectInv'
        BY <3>7, <4>1
      <4>5. QED
        BY <3>1, <4>2, <4>3, <4>4
    <3>5. QED
      BY <3>6, <3>7, Zenon
  <2>3. CASE SelectConflict(r) \/ SelectInProgress(r)
    <3>1. RowInv'
      BY <2>3 DEF SelectConflict, SelectInProgress
    <3>2. WriterInv'
      BY <2>3 DEF SelectConflict, SelectInProgress
    <3>3. RequestInv'
      BY <2>3 DEF SelectConflict, SelectInProgress
    <3>4. EffectInv'
      BY <2>3 DEF SelectConflict, SelectInProgress
    <3>5. QED
      BY <3>1, <3>2, <3>3, <3>4
  <2>4. CASE SelectReplay(r)
    <3>1. RowInv'
      BY <2>4 DEF SelectReplay, Existing, Conflicts
    <3>2. WriterInv'
      BY <2>4 DEF SelectReplay, Existing, Conflicts
    <3>3. RequestInv'
      BY <2>4 DEF SelectReplay, Existing, Conflicts
    <3>4. EffectInv'
      BY <2>4 DEF SelectReplay, Existing, Conflicts
    <3>5. QED
      BY <3>1, <3>2, <3>3, <3>4
  <2>5. CASE SelectAbandoned(r)
    <3>1. RowInv'
      BY <2>5 DEF SelectAbandoned, Existing, Conflicts
    <3>2. WriterInv'
      BY <2>5 DEF SelectAbandoned, Existing, Conflicts
    <3>3. RequestInv'
      BY <2>5 DEF SelectAbandoned, Existing, Conflicts
    <3>4. EffectInv'
      BY <2>5 DEF SelectAbandoned, Existing, Conflicts
    <3>5. QED
      BY <3>1, <3>2, <3>3, <3>4
  <2>6. CASE _reclaim(r)
    <3>1. RowInv'
      BY <2>6, ClaimFields DEF _reclaim, StillAbandoned
    <3>2. WriterInv'
      <4>1. CASE StillAbandoned(r)
        <5>1. draft'.status = "PENDING" /\ draft'.fingerprint = key.fingerprint /\ draft'.id = key.id
          BY <2>6, <4>1, ClaimFields DEF _reclaim
        <5>2. key.status # "COMPLETED" /\ key.fingerprint = request[r] /\ request[r].op # "capture"
          BY <2>6, <4>1 DEF _reclaim, StillAbandoned
        <5>3. /\ writer' = r /\ pc' = [pc EXCEPT ![r] = "claimed"]
              /\ UNCHANGED <<key, request, memory>>
          BY <2>6, <4>1 DEF _reclaim
        <5>4. key_row_id(r) = key.id
          BY <2>6 DEF _reclaim
        <5>5. writer = None
          BY <2>6 DEF _reclaim
        <5>6. QED
          BY <5>1, <5>2, <5>3, <5>4, <5>5
      <4>2. CASE ~StillAbandoned(r)
        <5>1. UNCHANGED <<writer, draft, key, request>> /\ pc' = [pc EXCEPT ![r] = "inserting"]
          BY <2>6, <4>2, Zenon DEF _reclaim
        <5>2. writer = None /\ pc[r] = "reclaiming"
          BY <2>6 DEF _reclaim
        <5>3. QED
          BY <5>1, <5>2
      <4>3. QED
        BY <4>1, <4>2
    <3>3. RequestInv'
      <4>1. CASE StillAbandoned(r)
        BY <2>6, <4>1 DEF _reclaim
      <4>2. CASE ~StillAbandoned(r)
        <5>1. /\ memory'[r].status = "PENDING"
              /\ memory'[r].id = memory[r].id
              /\ memory'[r].fingerprint = memory[r].fingerprint
              /\ \A s \in Requests \ {r} : memory'[s] = memory[s]
          BY <2>6, <4>2, ClaimFields DEF _reclaim
        <5>2. memory[r] # NoRow /\ pc' = [pc EXCEPT ![r] = "inserting"]
          BY <2>6, <4>2, Zenon DEF _reclaim
        <5>3. UNCHANGED <<key, payment, request, executed>> /\ pc[r] = "reclaiming"
          BY <2>6 DEF _reclaim
        <5>4. QED
          BY <5>1, <5>2, <5>3
      <4>3. QED
        BY <4>1, <4>2
    <3>4. EffectInv'
      <4>1. /\ pc' = [pc EXCEPT ![r] = "claimed"] \/ pc' = [pc EXCEPT ![r] = "inserting"]
            /\ \A s \in Requests \ {r} : memory'[s] = memory[s]
            /\ UNCHANGED <<key, request, executed, result>>
        BY <2>6 DEF _reclaim
      <4>2. QED
        BY <4>1
    <3>5. QED
      BY <3>1, <3>2, <3>3, <3>4
  <2>7. CASE Start(r)
    <3>1. RowInv'
      BY <2>7 DEF Start, Release
    <3>2. WriterInv'
      BY <2>7 DEF Start, Release
    <3>3. RequestInv'
      BY <2>7 DEF Start, Release
    <3>4. EffectInv'
      BY <2>7 DEF Start, Release
    <3>5. QED
      BY <3>1, <3>2, <3>3, <3>4
  <2>8. CASE Refuse(r) \/ Raise(r) \/ Crash(r) \/ DeadlockAbort(r)
    <3>6. /\ pc' = [pc EXCEPT ![r] = "failing"] \/ pc' = [pc EXCEPT ![r] = "crashed"]
          /\ UNCHANGED <<request, key, executed, memory, result>>
      BY <2>8 DEF Refuse, Raise, Crash, DeadlockAbort
    <3>7. /\ \/ writer = r /\ writer' = None
             \/ writer # r /\ UNCHANGED <<writer, draft>>
          /\ payment' # r /\ (payment' = payment \/ payment' = None)
      BY <2>8 DEF Refuse, Raise, Crash, DeadlockAbort, Release
    <3>1. RowInv'
      BY <3>6
    <3>2. WriterInv'
      BY <3>6, <3>7
    <3>8. pc[r] \notin {"idle", "busy"}
      BY <2>8 DEF Refuse, Raise, Crash, Active, DeadlockAbort, Deadlocked
    <3>3. RequestInv'
      BY <3>6, <3>7, <3>8
    <3>4. EffectInv'
      BY <3>6
    <3>5. QED
      BY <3>1, <3>2, <3>3, <3>4
  <2>9. CASE Relock(r)
    <3>1. RowInv'
      BY <2>9 DEF Relock
    <3>2. WriterInv'
      BY <2>9 DEF Relock
    <3>3. RequestInv'
      BY <2>9 DEF Relock
    <3>4. EffectInv'
      BY <2>9 DEF Relock
    <3>5. QED
      BY <3>1, <3>2, <3>3, <3>4
  <2>10. CASE complete_idempotency_key(r)
    <3>1. RowInv'
      BY <2>10, EndFields DEF complete_idempotency_key, Release
    <3>2. WriterInv'
      BY <2>10, EndFields DEF complete_idempotency_key, Release
    <3> DEFINE Kept == /\ key # NoRow
                       /\ key'.id = key.id
                       /\ key'.fingerprint = key.fingerprint
                       /\ key'.status = "COMPLETED"
                       /\ UNCHANGED <<request, executed, memory>>
    <3>6. Kept /\ r \in executed
      BY <2>10, EndFields DEF complete_idempotency_key
    <3>7. key' # NoRow
      BY <3>6
    <3>3. RequestInv'
      <4>1. /\ pc' = [pc EXCEPT ![r] = "done"]
            /\ payment' # r /\ (payment' = payment \/ payment' = None)
        BY <2>10 DEF complete_idempotency_key, Release
      <4>2. QED
        BY <3>6, <3>7, <4>1
    <3>4. EffectInv'
      <4>1. result' = [result EXCEPT ![r] = r] /\ pc' = [pc EXCEPT ![r] = "done"]
        BY <2>10 DEF complete_idempotency_key
      <4>2. KeysNeverMix'
        BY <3>6, <3>7, <4>1
      <4>3. QED
        BY <3>6, <3>7, <4>2
    <3>5. QED
      BY <3>1, <3>2, <3>3, <3>4
  <2>11. CASE CaptureComplete(r)
    <3>1. RowInv'
      BY <2>11, EndFields DEF CaptureComplete, Release
    <3>2. WriterInv'
      BY <2>11, EndFields DEF CaptureComplete, Release
    <3>3. RequestInv'
      BY <2>11, EndFields DEF CaptureComplete, Release
    <3>4. EffectInv'
      BY <2>11, EndFields DEF CaptureComplete, Release
    <3>5. QED
      BY <3>1, <3>2, <3>3, <3>4
  <2>12. CASE FailRead(r)
    <3>1. RowInv'
      BY <2>12 DEF FailRead
    <3>2. WriterInv'
      BY <2>12 DEF FailRead
    <3>3. RequestInv'
      BY <2>12 DEF FailRead
    <3>4. EffectInv'
      BY <2>12 DEF FailRead
    <3>5. QED
      BY <3>1, <3>2, <3>3, <3>4
  <2>13. CASE fail_idempotency_key(r)
    <3>6. /\ key # NoRow /\ key.fingerprint.op # "capture" /\ writer = None
          /\ key'.status = "FAILED" /\ key'.fingerprint = key.fingerprint
          /\ pc' = [pc EXCEPT ![r] = "marked"] /\ pc[r] = "marking"
          /\ key'.id = key.id
          /\ UNCHANGED <<request, writer, payment, executed, memory, result>>
      BY <2>13, EndFields DEF fail_idempotency_key
    <3>7. key' # NoRow
      BY <3>6
    <3>1. RowInv'
      BY <3>6
    <3>2. WriterInv'
      BY <3>6
    <3>3. RequestInv'
      BY <3>6, <3>7
    <3>4. EffectInv'
      BY <3>6, <3>7
    <3>5. QED
      BY <3>1, <3>2, <3>3, <3>4
  <2>14. QED
    BY <1>3, <2>1, <2>2, <2>3, <2>4, <2>5, <2>6, <2>7, <2>8, <2>9, <2>10, <2>11, <2>12, <2>13, Zenon
       DEF RequestNext, Proceed, Select
<1>4. QED
  BY <1>1, <1>2, <1>3 DEF Next

\* Nothing has a fingerprint before the first claim.
LEMMA KeyInvInit == Init => KeyInv
  BY NoneAssumption DEF Init, KeyInv, RowInv, WriterInv, RequestInv, EffectInv, KeysNeverMix,
     CapturedOnce, Unclaimed, NoRow

\* The fingerprints stay together in every reachable state.
LEMMA KeyInvHolds == Spec => [](TypeOK /\ KeyInv)
  BY TypeInit, TypeInductive, KeyInvInit, KeyInvInductive, PTL DEF Spec

\* No operation takes effect, and no response is replayed, under the key of a request
\* with a different fingerprint, however slow, crashed or many the requests of
\* claim_idempotency_key are.
THEOREM KeysNeverMixed == Spec => []KeysNeverMix
<1>1. TypeOK /\ KeyInv => KeysNeverMix
  BY DEF KeyInv, EffectInv
<1>2. QED
  BY <1>1, KeyInvHolds, PTL

\* capture_payment takes effect at most once under a key, whatever the stale limit:
\* its claim is never visible before it is COMPLETED.
THEOREM CapturesOnce == Spec => []CapturedOnce
<1>1. TypeOK /\ KeyInv => CapturedOnce
  BY DEF KeyInv, EffectInv
<1>2. QED
  BY <1>1, KeyInvHolds, PTL

-------------------------------------------------------------------------------
(***************************************************************************)
(* Requests that are over within the stale limit.  The row of a request    *)
(* that owns the claim is PENDING since that request's claim began, which  *)
(* is too recent for any other request to find it stale.  It owns the      *)
(* claim until it is answered or has marked it FAILED; a request whose     *)
(* claim was rolled back never owned one, and can still mark it.           *)
(***************************************************************************)

Owns(r) ==
  \/ pc[r] \in {"running", "finishing"}
  \/ pc[r] \in {"failing", "marking"} /\ r \in executed

TimeInv ==
  \A r \in Requests :
    /\ now[r] <= clock
    /\ Active(r) => clock - now[r] < StaleAfter
    /\ pc[r] = "reclaiming" =>
         (memory[r].status = "PENDING" => now[r] - memory[r].locked_at >= StaleAfter)

OwnerInv ==
  /\ \A r \in Requests : Owns(r) =>
       /\ key.status = "PENDING"
       /\ key.locked_at = now[r]
       /\ writer = None
       /\ \A s \in Requests : Owns(s) => s = r
  /\ writer # None => draft.locked_at = now[writer]

\* One request moves at a time, none of them after it has marked a claim.
LEMMA OneMoves ==
  ASSUME TypeOK, KeyInv, NEW r \in Requests, RequestNext(r)
  PROVE  /\ pc[r] # "marked"
         /\ \A s \in Requests \ {r} : pc'[s] = pc[s] /\ (s \in executed' <=> s \in executed)
<1>1. pc[r] # "marked"
  <2>1. CASE DeadlockAbort(r)
    BY <2>1 DEF DeadlockAbort, Deadlocked, KeyInv, WriterInv, RequestInv
  <2>2. CASE ~DeadlockAbort(r)
    BY <2>2 DEF RequestNext, Proceed, Select, Begin, Insert, SelectConflict, SelectInProgress,
       SelectReplay, SelectAbandoned, _reclaim, Start, Refuse, Relock, complete_idempotency_key,
       CaptureComplete, FailRead, fail_idempotency_key, Raise, Crash, Active
  <2>3. QED
    BY <2>1, <2>2
<1>2. \E label : pc' = [pc EXCEPT ![r] = label]
  BY Zenon DEF RequestNext, Proceed, Select, Begin, Insert, SelectConflict, SelectInProgress,
     SelectReplay, SelectAbandoned, _reclaim, Start, Refuse, Relock, complete_idempotency_key,
     CaptureComplete, FailRead, fail_idempotency_key, Raise, Crash, DeadlockAbort, Goto
<1>3. executed' = executed \/ executed' = executed \cup {r}
  BY Zenon DEF RequestNext, Proceed, Select, Begin, Insert, SelectConflict, SelectInProgress,
     SelectReplay, SelectAbandoned, _reclaim, Start, Refuse, Relock, complete_idempotency_key,
     CaptureComplete, FailRead, fail_idempotency_key, Raise, Crash, DeadlockAbort, rows
<1>4. QED
  BY <1>1, <1>2, <1>3 DEF TypeOK

\* A claim that was marked by another request stays so.
LEMMA MismarkedStays == TypeOK /\ KeyInv /\ Mismarked /\ [Next]_vars => Mismarked'
<1> SUFFICES ASSUME TypeOK, KeyInv, Mismarked, [Next]_vars PROVE Mismarked'
  OBVIOUS
<1>1. CASE UNCHANGED vars \/ Tick
  BY <1>1 DEF Mismarked, vars, Tick, rows
<1>2. ASSUME NEW r \in Requests, RequestNext(r) PROVE Mismarked'
  <2>1. PICK s \in Requests : pc[s] = "marked" /\ s \notin executed
    BY DEF Mismarked
  <2>2. s # r
    BY <1>2, <2>1, OneMoves
  <2>3. pc'[s] = "marked" /\ s \notin executed'
    BY <1>2, <2>1, <2>2, OneMoves
  <2>4. QED
    BY <2>3 DEF Mismarked
<1>3. QED
  BY <1>1, <1>2 DEF Next

\* Time passes only while no request is late, and a reclaim starts from a stale claim.
LEMMA TimeInvInductive ==
  ASSUME Timely = TRUE
  PROVE  TypeOK /\ KeyInv /\ TimeInv /\ [Next]_vars => TimeInv'
<1> SUFFICES ASSUME TypeOK, KeyInv, TimeInv, [Next]_vars PROVE TimeInv'
  OBVIOUS
<1>0. /\ now \in [Requests -> Nat] /\ clock \in Nat /\ key \in Row
      /\ memory \in [Requests -> Row] /\ DOMAIN pc = Requests /\ pc = [s \in Requests |-> pc[s]]
  BY DEF TypeOK
<1> USE <1>0, TimeAssumption DEF TimeInv, Active, rows, Goto
<1>1. CASE UNCHANGED vars
  BY <1>1 DEF vars
<1>2. CASE Tick
  BY <1>2 DEF Tick
<1>3. ASSUME NEW r \in Requests, RequestNext(r) PROVE TimeInv'
  <2>1. CASE Begin(r)
    BY <2>1 DEF Begin
  <2>2. CASE SelectAbandoned(r)
    <3>1. Existing(r).locked_at \in Nat
      BY DEF Existing, Row
    <3>2. Existing(r).status = "PENDING" => now[r] - Existing(r).locked_at >= StaleAfter
      BY <2>2, <3>1 DEF SelectAbandoned, InProgress
    <3>3. /\ memory' = [memory EXCEPT ![r] = Existing(r)]
          /\ pc' = [pc EXCEPT ![r] = "reclaiming"]
          /\ UNCHANGED <<now, clock>>
          /\ pc[r] = "selecting"
      BY <2>2 DEF SelectAbandoned
    <3>4. QED
      BY <3>2, <3>3
  <2>3. CASE _reclaim(r)
    BY <2>3 DEF _reclaim
  <2>4. CASE DeadlockAbort(r)
    <3>1. pc[r] \in {"claimed", "finishing"}
      BY <2>4 DEF DeadlockAbort, Deadlocked, KeyInv, WriterInv, RequestInv
    <3>2. pc' = [pc EXCEPT ![r] = "failing"] /\ UNCHANGED <<now, clock, memory>>
      BY <2>4 DEF DeadlockAbort
    <3>3. QED
      BY <3>1, <3>2
  <2>5. CASE Insert(r) \/ SelectConflict(r) \/ SelectReplay(r) \/ SelectInProgress(r)
    BY <2>5 DEF Insert, SelectConflict, SelectReplay, SelectInProgress
  <2>6. CASE Start(r) \/ Relock(r) \/ complete_idempotency_key(r) \/ CaptureComplete(r)
    BY <2>6 DEF Start, Relock, complete_idempotency_key, CaptureComplete
  <2>7. CASE FailRead(r) \/ fail_idempotency_key(r) \/ Refuse(r) \/ Raise(r) \/ Crash(r)
    BY <2>7 DEF FailRead, fail_idempotency_key, Refuse, Raise, Crash
  <2>8. QED
    BY <1>3, <2>1, <2>2, <2>3, <2>4, <2>5, <2>6, <2>7, Zenon DEF RequestNext, Proceed, Select
<1>4. QED
  BY <1>1, <1>2, <1>3 DEF Next

\* A step that makes no owner, and leaves what the owners rely on, keeps them apart.
LEMMA OwnersStay ==
  ASSUME TypeOK, OwnerInv, NEW r \in Requests,
         \A s \in Requests : Owns(s)' => Owns(s) /\ now'[s] = now[s],
         UNCHANGED key,
         \/ writer' = None
         \/ UNCHANGED <<writer, draft>> /\ \A s \in Requests : s = writer => now'[s] = now[s]
  PROVE  OwnerInv'
  BY DEF OwnerInv, TypeOK

\* A claim that can be taken over has no owner: its owner's claim would be too recent.
LEMMA AbandonedUnowned ==
  ASSUME TypeOK, TimeInv, OwnerInv, NEW r \in Requests, pc[r] = "reclaiming", StillAbandoned(r),
         NEW s \in Requests, Owns(s)
  PROVE  FALSE
<1>1. key.status = "PENDING" /\ key.locked_at = now[s]
  BY DEF OwnerInv
<1>2. memory[r].status = "PENDING" /\ memory[r].locked_at = now[s]
  BY <1>1 DEF StillAbandoned
<1>3. now[r] - now[s] >= StaleAfter
  BY <1>2 DEF TimeInv
<1>4. clock - now[s] < StaleAfter /\ now[r] <= clock
  BY DEF TimeInv, Active, Owns
<1>5. now[r] \in Nat /\ now[s] \in Nat /\ clock \in Nat
  BY DEF TypeOK
<1> QED BY <1>3, <1>4, <1>5, TimeAssumption

\* No step makes a second owner, unless a request marks the claim of another one.
LEMMA OwnerInvInductive ==
  TypeOK /\ KeyInv /\ TimeInv /\ OwnerInv /\ [Next]_vars => OwnerInv' \/ Mismarked'
<1> SUFFICES ASSUME TypeOK, KeyInv, TimeInv, OwnerInv, [Next]_vars, ~Mismarked'
             PROVE  OwnerInv'
  OBVIOUS
<1>0. /\ key \in Row /\ draft \in Row /\ writer \in Requests \cup {None}
      /\ DOMAIN pc = Requests /\ pc = [s \in Requests |-> pc[s]]
      /\ now = [s \in Requests |-> now[s]]
  BY DEF TypeOK
<1>1. CASE UNCHANGED vars \/ Tick
  BY <1>1 DEF vars, rows, Tick, OwnerInv, Owns
<1>2. ASSUME NEW r \in Requests, RequestNext(r) PROVE OwnerInv'
  <2>0. \A s \in Requests \ {r} : Owns(s)' <=> Owns(s)
    BY <1>2, OneMoves, Zenon DEF Owns
  <2>1. CASE Begin(r)
    <3>1. ~Owns(r)' /\ writer # r
      BY <2>1, <1>0 DEF Begin, Goto, Owns, KeyInv, WriterInv
    <3>2. UNCHANGED <<key, writer, draft>> /\ \A s \in Requests \ {r} : now'[s] = now[s]
      BY <2>1, <1>0 DEF Begin, rows
    <3>3. QED
      BY <2>0, <3>1, <3>2, OwnersStay, ZenonT(30)
  <2>2. CASE Insert(r)
    <3>1. ~Owns(r)' /\ UNCHANGED <<key, now>>
      BY <2>2, <1>0 DEF Insert, Goto, Owns
    <3>2. CASE key = NoRow
      <4>1. \A s \in Requests : ~Owns(s)
        BY <3>2, NoRowFields DEF OwnerInv
      <4>2. draft'.locked_at = now[r] /\ writer' = r
        BY <2>2, <3>2, FirstClaimFields, Zenon DEF Insert
      <4>3. QED
        BY <2>0, <3>1, <4>1, <4>2 DEF OwnerInv
    <3>3. CASE key # NoRow
      <4>1. UNCHANGED <<writer, draft>>
        BY <2>2, <3>3 DEF Insert
      <4>2. QED
        BY <2>0, <3>1, <4>1, OwnersStay, ZenonT(30)
    <3>4. QED
      BY <3>2, <3>3
  <2>3. CASE Select(r)
    <3>1. ~Owns(r)' /\ UNCHANGED <<key, writer, draft, now>>
      BY <2>3, <1>0 DEF Select, SelectConflict, SelectInProgress, SelectReplay, SelectAbandoned,
         Goto, Owns, rows
    <3>2. QED
      BY <2>0, <3>1, OwnersStay, ZenonT(30)
  <2>4. CASE _reclaim(r)
    <3>1. ~Owns(r)' /\ UNCHANGED key /\ pc[r] = "reclaiming" /\ writer = None
      BY <2>4, <1>0 DEF _reclaim, Goto, Owns, RowFree
    <3>2. CASE StillAbandoned(r)
      <4>1. \A s \in Requests : ~Owns(s)
        BY <3>1, <3>2, AbandonedUnowned, Zenon
      <4>2. draft'.locked_at = now[r] /\ writer' = r /\ now' = now
        BY <2>4, <3>2, <1>0, ClaimFields DEF _reclaim
      <4>3. QED
        BY <2>0, <3>1, <4>1, <4>2 DEF OwnerInv
    <3>3. CASE ~StillAbandoned(r)
      <4>1. UNCHANGED <<writer, draft>> /\ \A s \in Requests \ {r} : now'[s] = now[s]
        BY <2>4, <3>3, <1>0 DEF _reclaim
      <4>2. QED
        BY <2>0, <3>1, <4>1, OwnersStay, ZenonT(30)
    <3>4. QED
      BY <3>2, <3>3
  <2>5. CASE Start(r)
    <3>1. /\ key' = draft /\ now' = now /\ writer' = None /\ writer = r /\ writer # None
          /\ draft.status = "PENDING"
      BY <2>5, NoneAssumption DEF Start, Release, KeyInv, WriterInv
    <3>2. draft.locked_at = now[r] /\ \A s \in Requests : ~Owns(s)
      BY <3>1 DEF OwnerInv
    <3>3. QED
      BY <2>0, <3>1, <3>2 DEF OwnerInv
  <2>6. CASE CaptureComplete(r)
    <3>1. /\ ~Owns(r)' /\ writer' = None /\ writer = r /\ writer # None
      BY <2>6, <1>0, NoneAssumption DEF CaptureComplete, Release, Goto, Owns, KeyInv, WriterInv
    <3>2. \A s \in Requests : ~Owns(s)
      BY <3>1 DEF OwnerInv
    <3>3. QED
      BY <2>0, <3>1, <3>2 DEF OwnerInv
  <2>7. CASE complete_idempotency_key(r)
    <3>1. Owns(r) /\ ~Owns(r)' /\ writer' = writer
      BY <2>7, <1>0 DEF complete_idempotency_key, Owns, Goto, Release, RowFree
    <3>2. writer = None /\ \A s \in Requests : ~Owns(s)'
      BY <2>0, <3>1 DEF OwnerInv
    <3>3. QED
      BY <3>1, <3>2 DEF OwnerInv
  <2>8. CASE fail_idempotency_key(r)
    <3>1. r \in executed
      BY <2>8, <1>0 DEF fail_idempotency_key, Goto, Mismarked
    <3>2. Owns(r) /\ ~Owns(r)' /\ writer' = writer
      BY <2>8, <3>1, <1>0 DEF fail_idempotency_key, Owns, Goto
    <3>3. writer = None /\ \A s \in Requests : ~Owns(s)'
      BY <2>0, <3>2 DEF OwnerInv
    <3>4. QED
      BY <3>2, <3>3 DEF OwnerInv
  <2>9. CASE Relock(r) \/ FailRead(r)
    <3>1. (Owns(r)' => Owns(r)) /\ UNCHANGED <<key, writer, draft, now>>
      BY <2>9, <1>0 DEF Relock, FailRead, Goto, Owns, rows
    <3>2. QED
      BY <2>0, <3>1, OwnersStay, ZenonT(30)
  <2>10. CASE Refuse(r) \/ Raise(r) \/ Crash(r) \/ DeadlockAbort(r)
    <3>1. /\ pc' = [pc EXCEPT ![r] = "failing"] \/ pc' = [pc EXCEPT ![r] = "crashed"]
          /\ UNCHANGED <<key, now, executed>>
          /\ writer' = None \/ UNCHANGED <<writer, draft>>
      BY <2>10 DEF Refuse, Raise, Crash, DeadlockAbort, Release, Goto
    <3>2. pc'[r] = "failing" => pc[r] \in {"claimed", "running", "finishing"}
      BY <2>10, <1>0 DEF Refuse, Raise, Crash, DeadlockAbort, Deadlocked, Goto, KeyInv,
         WriterInv, RequestInv
    <3>3. pc[r] = "claimed" => r \notin executed
      BY DEF KeyInv, RequestInv
    <3>4. Owns(r)' => Owns(r)
      BY <3>1, <3>2, <3>3, <1>0 DEF Owns
    <3>5. QED
      BY <2>0, <3>1, <3>4, OwnersStay, ZenonT(30)
  <2>11. QED
    BY <1>2, <2>1, <2>2, <2>3, <2>4, <2>5, <2>6, <2>7, <2>8, <2>9, <2>10, ZenonT(30)
       DEF RequestNext, Proceed
<1>3. QED
  BY <1>1, <1>2 DEF Next

\* Timely requests have at most one owner in every state before a mismark.
LEMMA OwnerInvHolds ==
  ASSUME Timely = TRUE
  PROVE  Spec => [](TypeOK /\ KeyInv /\ TimeInv /\ (OwnerInv \/ Mismarked))
<1>1. Init => TimeInv /\ OwnerInv
  BY TimeAssumption DEF Init, TimeInv, OwnerInv, Owns, Active
<1>2. QED
  BY <1>1, TypeInit, TypeInductive, KeyInvInit, KeyInvInductive, TimeInvInductive,
     OwnerInvInductive, MismarkedStays, PTL DEF Spec

\* Where requests that have not crashed are over within stale_after, at most one of
\* them at a time has claimed the key and not finished, for any operations and any
\* number of retries, crashes and exceptions, as long as _fail_claim_and_raise has not
\* marked the claim of another request.
THEOREM TimelyRequestsAlone ==
  ASSUME Timely = TRUE
  PROVE  Spec => []OneHolderUnlessMismarked
<1>1. OwnerInv \/ Mismarked => OneHolderUnlessMismarked
  BY DEF OwnerInv, Owns, OneHolderUnlessMismarked, OneHolder, Holds
<1>2. QED
  BY <1>1, OwnerInvHolds, PTL

\* Then the key keeps its promise: every step of claim_idempotency_key, the operations
\* and their error handling decides the answer once, replays it, or leaves it alone,
\* up to the step that marks the claim of another request.
THEOREM TimelyRequestsKeepPromise ==
  ASSUME Timely = TRUE
  PROVE  Spec => KeepsPromise
<1> DEFINE decided == IF key.status = "COMPLETED" THEN key.response ELSE None
           Step == Promise!Next \/ UNCHANGED <<decided, result, Mismarked>>
<1>1. Init => Promise!Init
  BY DEF Init, Promise!Init, NoRow, Mismarked
<1>2. TypeOK /\ KeyInv /\ TimeInv /\ (OwnerInv \/ Mismarked) /\ [Next]_vars => Step
  <2> SUFFICES ASSUME TypeOK, KeyInv, TimeInv, OwnerInv \/ Mismarked, [Next]_vars PROVE Step
    OBVIOUS
  <2>1. CASE Mismarked'
    BY <2>1 DEF Promise!Next, Promise!Break
  <2>2. CASE ~Mismarked'
    <3>1. OwnerInv /\ ~Mismarked
      BY <2>2, MismarkedStays
    <3>2. UNCHANGED Mismarked
      BY <2>2, <3>1 DEF Mismarked
    <3>3. CASE UNCHANGED vars \/ Tick
      BY <3>2, <3>3 DEF vars, rows, Tick
    <3>4. ASSUME NEW r \in Requests, RequestNext(r) PROVE Step
      <4>1. CASE SelectReplay(r)
        <5>1. Existing(r) = key
          BY <4>1 DEF SelectReplay, Existing, KeyInv, RequestInv
        <5>2. key.status = "COMPLETED" /\ decided # None
          BY <4>1, <5>1, NoneAssumption DEF SelectReplay, KeyInv, RowInv, TypeOK
        <5>3. Promise!Replay(r)
          BY <3>2, <4>1, <5>1, <5>2 DEF SelectReplay, Promise!Replay, rows
        <5>4. QED
          BY <5>3 DEF Promise!Next
      <4>2. CASE complete_idempotency_key(r)
        <5>1. decided = None
          BY <3>1, <4>2 DEF complete_idempotency_key, OwnerInv, Owns
        <5>2. key'.status = "COMPLETED" /\ key'.response = r
          BY <4>2 DEF complete_idempotency_key, Completed, TypeOK, Row
        <5>3. Promise!Decide(r)
          BY <3>2, <4>2, <5>1, <5>2 DEF complete_idempotency_key, Promise!Decide
        <5>4. QED
          BY <5>3 DEF Promise!Next
      <4>3. CASE CaptureComplete(r)
        <5>1. decided = None
          BY <4>3, NoneAssumption DEF CaptureComplete, KeyInv, WriterInv, NoRow
        <5>2. key'.status = "COMPLETED" /\ key'.response = r
          BY <4>3 DEF CaptureComplete, Completed, TypeOK, Row
        <5>3. Promise!Decide(r)
          BY <3>2, <4>3, <5>1, <5>2 DEF CaptureComplete, Promise!Decide
        <5>4. QED
          BY <5>3 DEF Promise!Next
      <4>4. CASE Start(r)
        <5>1. key.status # "COMPLETED" /\ key'.status = "PENDING"
          BY <4>4, NoneAssumption DEF Start, KeyInv, WriterInv, NoRow
        <5>2. QED
          BY <3>2, <4>4, <5>1 DEF Start
      <4>5. CASE fail_idempotency_key(r)
        <5>1. Owns(r)
          BY <2>2, <4>5 DEF fail_idempotency_key, Goto, Mismarked, Owns, TypeOK
        <5>2. key.status = "PENDING" /\ key'.status = "FAILED"
          BY <3>1, <4>5, <5>1 DEF fail_idempotency_key, OwnerInv, TypeOK, Row
        <5>3. QED
          BY <3>2, <4>5, <5>2 DEF fail_idempotency_key
      <4>6. CASE UNCHANGED <<key, result>>
        BY <3>2, <4>6
      <4>7. QED
        BY <3>4, <4>1, <4>2, <4>3, <4>4, <4>5, <4>6
           DEF RequestNext, Proceed, Select, Begin, Insert, SelectConflict, SelectInProgress,
               SelectAbandoned, _reclaim, Relock, FailRead, Refuse, Raise, DeadlockAbort, Crash,
               rows
    <3>5. QED
      BY <3>3, <3>4 DEF Next
  <2>3. QED
    BY <2>1, <2>2
<1>3. QED
  BY <1>1, <1>2, OwnerInvHolds, PTL DEF Spec, KeepsPromise, Promise!Spec

===============================================================================
