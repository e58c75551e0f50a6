---------------------------- MODULE ScreeningProofs ----------------------------
(***************************************************************************)
(* The risk engine misses no burst and no run of declines, for any number  *)
(* of requests, any window and any thresholds.                             *)
(***************************************************************************)
EXTENDS Screening, FiniteSetTheorems, TLAPS

\* Where a request is tells which of its rows are committed and whether the provider
\* was asked.
StageInv ==
  /\ audit_logs \subseteq rows
  /\ \A p \in Requests :
       /\ stage[p] \in {"idle", "begun"} => p \notin rows
       /\ stage[p] \in {"created", "counted"} => p \in rows \ audit_logs
       /\ stage[p] \in {"assessed", "authorizing", "recording", "done"} => p \in audit_logs
       /\ stage[p] \in {"authorizing", "recording"} => p \in asked
       /\ stage[p] \notin {"done", "failed"} => p \notin Declined
       /\ known[p] \subseteq Declined

\* Requests that have been through the first count, and not given up before their
\* assessment was recorded.
Counted == { p \in Requests : stage[p] = "counted" } \cup audit_logs

InWindow(burst) == \A p, q \in burst : created_at[q] >= asof[p] - VELOCITY_WINDOW

\* BurstNoticed, from the first count on.
BurstInv ==
  \A burst \in SUBSET Counted :
    Cardinality(burst) = VELOCITY_THRESHOLD /\ InWindow(burst)
      => \E p \in burst : "HIGH_VELOCITY" \in signals[p]

\* What FailuresNoticed counts for a request.
Earlier(p) == { q \in known[p] : declined_at[q] >= asof[p] - VELOCITY_WINDOW }

\* The inductive invariant of the screening.
ScreeningInv ==
  /\ TypeOK /\ StageInv /\ BurstInv
  /\ FailuresNoticed /\ ScreenedFirst

\* A set of requests has no more members than a larger one.
LEMMA Fewer ==
  ASSUME NEW S \in SUBSET Requests, NEW T \in SUBSET S
  PROVE  /\ Cardinality(T) \in Nat /\ Cardinality(S) \in Nat
         /\ Cardinality(T) <= Cardinality(S)
<1>1. IsFiniteSet(S) /\ IsFiniteSet(T)
  BY FS_Subset, ScreeningAssumption
<1> QED BY <1>1, FS_Subset, FS_CardinalityType

\* Every signal has a weight.
LEMMA SignalsHaveWeights ==
  /\ \A a \in Asks : OwnSignals(a) \subseteq DOMAIN weight
  /\ {"HIGH_VELOCITY", "REPEATED_FAILURES"} \subseteq DOMAIN weight
BY DEF OwnSignals, _amount_signal, _country_mismatch_signal, _high_risk_ip_signal, weight

\* Init establishes the invariant.
LEMMA ScreeningInit == Init => ScreeningInv
<1> SUFFICES ASSUME Init PROVE ScreeningInv
  OBVIOUS
<1>1. TypeOK /\ StageInv /\ FailuresNoticed /\ ScreenedFirst
  BY DEF Init, TypeOK, StageInv, FailuresNoticed, ScreenedFirst, Declined
<1>2. BurstInv
  <2> SUFFICES ASSUME NEW burst \in SUBSET Counted, Cardinality(burst) = VELOCITY_THRESHOLD
               PROVE  FALSE
    BY DEF BurstInv
  <2>1. burst = {}
    BY DEF Counted, Init
  <2> QED BY <2>1, FS_EmptySet, ScreeningAssumption
<1> QED BY <1>1, <1>2 DEF ScreeningInv

\* A step that counts nobody anew, and leaves the counted as they are except for
\* more signals, preserves BurstInv.
LEMMA BurstStays ==
  ASSUME BurstInv, Counted' \subseteq Counted,
         \A p \in Counted' : /\ created_at'[p] = created_at[p] /\ asof'[p] = asof[p]
                             /\ signals[p] \subseteq signals'[p]
  PROVE  BurstInv'
<1> SUFFICES ASSUME NEW burst \in SUBSET Counted',
                    Cardinality(burst) = VELOCITY_THRESHOLD, InWindow(burst)'
             PROVE  \E p \in burst : "HIGH_VELOCITY" \in signals'[p]
  BY DEF BurstInv
<1>1. burst \in SUBSET Counted
  OBVIOUS
<1>2. InWindow(burst)
  BY DEF InWindow
<1> QED BY <1>1, <1>2 DEF BurstInv

\* A step that adds no decline to those a recorded assessment knows of, and leaves
\* that assessment alone, preserves FailuresNoticed.
LEMMA FailuresStay ==
  ASSUME TypeOK, FailuresNoticed, audit_logs' = audit_logs,
         \A p \in audit_logs : signals'[p] = signals[p] /\ Earlier(p)' \subseteq Earlier(p)
  PROVE  FailuresNoticed'
<1> SUFFICES ASSUME NEW p \in audit_logs, Cardinality(Earlier(p)') >= REPEATED_FAILURE_THRESHOLD
             PROVE  "REPEATED_FAILURES" \in signals[p]
  BY DEF FailuresNoticed, Earlier
<1>1. Earlier(p) \in SUBSET Requests
  BY DEF Earlier, TypeOK
<1>2. Cardinality(Earlier(p)) >= REPEATED_FAILURE_THRESHOLD
  BY <1>1, Fewer, ScreeningAssumption
<1> QED BY <1>2 DEF FailuresNoticed, Earlier

\* Every step preserves TypeOK.
LEMMA TypeStep == TypeOK /\ [Next]_vars => TypeOK'
<1> SUFFICES ASSUME TypeOK, [Next]_vars PROVE TypeOK'
  OBVIOUS
<1> USE DEF TypeOK, Goto, attempts
<1>1. ASSUME NEW p \in Requests, Begin(p) PROVE TypeOK'
  BY <1>1 DEF Begin
<1>2. ASSUME NEW p \in Requests, CreateIntent(p) PROVE TypeOK'
  BY <1>2 DEF CreateIntent
<1>3. ASSUME NEW p \in Requests, _velocity_signal(p) PROVE TypeOK'
  <2>1. PICK a \in Asks, speed \in SUBSET {"HIGH_VELOCITY"} :
          signals' = [signals EXCEPT ![p] = OwnSignals(a) \cup speed]
    BY <1>3, Zenon DEF _velocity_signal
  <2>2. OwnSignals(a) \cup speed \in SUBSET DOMAIN weight
    BY SignalsHaveWeights, Zenon
  <2>3. signals' \in [Requests -> SUBSET DOMAIN weight]
    BY <2>1, <2>2
  <2>4. known' = [known EXCEPT ![p] = Declined] /\ Declined \in SUBSET Requests
    BY <1>3 DEF _velocity_signal, Declined
  <2>5. known' \in [Requests -> SUBSET Requests]
    BY <2>4
  <2> QED BY <1>3, <2>3, <2>5, Zenon DEF _velocity_signal
<1>4. ASSUME NEW p \in Requests, _repeated_failures_signal(p) PROVE TypeOK'
  <2>1. signals' \in [Requests -> SUBSET DOMAIN weight]
    BY <1>4, SignalsHaveWeights DEF _repeated_failures_signal
  <2> QED BY <1>4, <2>1 DEF _repeated_failures_signal
<1>5. ASSUME NEW p \in Requests, Block(p) \/ ProviderAuthorize(p) \/ BeginAttempt(p) \/ Abandon(p)
      PROVE  TypeOK'
  BY <1>5 DEF Block, ProviderAuthorize, BeginAttempt, Abandon, attempts
<1>8. ASSUME NEW p \in Requests, RecordAttempt(p) PROVE TypeOK'
  BY <1>8 DEF RecordAttempt
<1>6. CASE Tick /\ UNCHANGED <<stage, rows, created_at, asof, signals, audit_logs, asked, attempts, known>>
  BY <1>6 DEF Tick
<1>7. CASE UNCHANGED vars
  BY <1>7 DEF vars
<1> QED BY <1>1, <1>2, <1>3, <1>4, <1>5, <1>6, <1>7, <1>8 DEF Next

\* The first count sees every request of a burst that this request completes.
LEMMA VelocityStep ==
  ASSUME ScreeningInv, TypeOK', NEW p \in Requests, _velocity_signal(p)
  PROVE  ScreeningInv'
<1> USE DEF ScreeningInv, Goto
<1> DEFINE window == { q \in rows : created_at[q] >= clock - VELOCITY_WINDOW }
<1>1. /\ stage[p] = "created" /\ stage' = [stage EXCEPT ![p] = "counted"]
      /\ asof' = [asof EXCEPT ![p] = clock]
      /\ known' = [known EXCEPT ![p] = Declined]
      /\ UNCHANGED <<clock, rows, created_at, audit_logs, asked, declined_at>>
  BY DEF _velocity_signal, attempts
<1>2. PICK fired : /\ signals' = [signals EXCEPT ![p] = fired]
                   /\ Cardinality(window) >= VELOCITY_THRESHOLD => "HIGH_VELOCITY" \in fired
  BY Zenon DEF _velocity_signal
<1>3. p \in rows /\ p \notin audit_logs /\ rows \subseteq Requests
  BY <1>1 DEF StageInv, TypeOK
<1>4. \A q \in audit_logs : signals'[q] = signals[q] /\ asof'[q] = asof[q] /\ known'[q] = known[q]
  BY <1>1, <1>2, <1>3 DEF TypeOK
<1>5. StageInv'
  BY <1>1, <1>3 DEF StageInv, Declined, TypeOK
<1>6. FailuresNoticed'
  <2>1. \A q \in audit_logs : Earlier(q)' \subseteq Earlier(q)
    BY <1>1, <1>4 DEF Earlier
  <2> QED BY <1>1, <1>4, <2>1, FailuresStay DEF TypeOK
<1>7. ScreenedFirst'
  BY <1>1, <1>4, Zenon DEF ScreenedFirst, Level, Declined
<1>8. BurstInv'
  <2> SUFFICES ASSUME NEW burst \in SUBSET Counted',
                      Cardinality(burst) = VELOCITY_THRESHOLD, InWindow(burst)'
               PROVE  \E q \in burst : "HIGH_VELOCITY" \in signals'[q]
    BY DEF BurstInv
  <2>1. Counted' = Counted \cup {p} /\ Counted \subseteq rows /\ p \notin Counted
    BY <1>1, <1>3 DEF Counted, StageInv, TypeOK
  <2>2. CASE p \in burst
    <3>1. \A q \in burst : created_at[q] >= clock - VELOCITY_WINDOW
      BY <1>1, <2>2 DEF InWindow, TypeOK
    <3>2. burst \subseteq window /\ window \subseteq Requests
      BY <1>3, <2>1, <3>1
    <3>3. Cardinality(window) >= VELOCITY_THRESHOLD
      <4> HIDE DEF window
      <4> QED BY <3>2, Fewer
    <3>4. "HIGH_VELOCITY" \in signals'[p]
      BY <1>2, <3>3 DEF TypeOK
    <3> QED BY <2>2, <3>4
  <2>3. CASE p \notin burst
    <3>1. burst \in SUBSET Counted
      BY <2>1, <2>3
    <3>2. \A q \in burst : asof'[q] = asof[q] /\ signals'[q] = signals[q]
      BY <1>1, <1>2, <1>3, <2>1, <2>3, <3>1 DEF TypeOK
    <3>3. InWindow(burst)
      BY <1>1, <3>2 DEF InWindow
    <3> QED BY <3>1, <3>2, <3>3 DEF BurstInv
  <2> QED BY <2>2, <2>3
<1> QED BY <1>5, <1>6, <1>7, <1>8

\* The second count sees every decline that was on record at the first.
LEMMA FailuresStep ==
  ASSUME ScreeningInv, TypeOK', NEW p \in Requests, _repeated_failures_signal(p)
  PROVE  ScreeningInv'
<1> USE DEF ScreeningInv, Goto
<1> DEFINE since == asof[p] - VELOCITY_WINDOW
<1>1. /\ stage[p] = "counted" /\ stage' = [stage EXCEPT ![p] = "assessed"]
      /\ audit_logs' = audit_logs \cup {p}
      /\ UNCHANGED <<clock, rows, created_at, asof, asked, declined_at, known>>
  BY DEF _repeated_failures_signal, attempts
<1>2. PICK more : /\ signals' = [signals EXCEPT ![p] = @ \cup more]
                  /\ Cardinality(DeclinedSince(since)) >= REPEATED_FAILURE_THRESHOLD
                       => "REPEATED_FAILURES" \in more
  BY Zenon DEF _repeated_failures_signal
<1>3. p \in rows /\ p \notin audit_logs
  BY <1>1 DEF StageInv
<1>4. \A q \in audit_logs : signals'[q] = signals[q]
  BY <1>2, <1>3 DEF TypeOK
<1>5. StageInv'
  BY <1>1, <1>3 DEF StageInv, Declined, TypeOK
<1>6. FailuresNoticed'
  <2> SUFFICES ASSUME NEW q \in audit_logs',
                      Cardinality(Earlier(q)') >= REPEATED_FAILURE_THRESHOLD
               PROVE  "REPEATED_FAILURES" \in signals'[q]
    BY DEF FailuresNoticed, Earlier
  <2>1. Earlier(q)' = Earlier(q)
    BY <1>1 DEF Earlier
  <2>2. CASE q \in audit_logs
    BY <1>4, <2>1, <2>2 DEF FailuresNoticed, Earlier
  <2>3. CASE q = p
    <3>1. Earlier(p) \subseteq DeclinedSince(since) /\ DeclinedSince(since) \subseteq Requests
      BY DEF Earlier, DeclinedSince, Declined, StageInv
    <3>2. Cardinality(DeclinedSince(since)) >= REPEATED_FAILURE_THRESHOLD
      BY <2>1, <2>3, <3>1, Fewer, ScreeningAssumption
    <3> QED BY <1>2, <2>3, <3>2 DEF TypeOK
  <2> QED BY <1>1, <2>2, <2>3
<1>7. ScreenedFirst'
  BY <1>1, <1>3, <1>4 DEF ScreenedFirst, Level, Declined
<1>8. BurstInv'
  <2>1. Counted' \subseteq Counted
    BY <1>1 DEF Counted, TypeOK
  <2>2. \A q \in Counted' : signals[q] \subseteq signals'[q]
    BY <1>2, <2>1 DEF Counted, TypeOK
  <2> QED BY <1>1, <2>1, <2>2, BurstStays
<1> QED BY <1>5, <1>6, <1>7, <1>8

\* A decline that is committed now is none that an assessment knows of.
LEMMA RecordStep ==
  ASSUME ScreeningInv, TypeOK', NEW p \in Requests, RecordAttempt(p)
  PROVE  ScreeningInv'
<1> USE DEF ScreeningInv, Goto
<1>1. /\ stage[p] = "recording" /\ stage' = [stage EXCEPT ![p] = "done"]
      /\ declined_at' \in {declined_at, [declined_at EXCEPT ![p] = attempt_at[p]]}
      /\ UNCHANGED <<clock, rows, created_at, asof, signals, audit_logs, asked, known>>
  BY DEF RecordAttempt
<1>6. /\ p \notin Declined /\ Declined \subseteq Declined' /\ Declined' \subseteq Declined \cup {p}
      /\ \A q \in Declined : declined_at'[q] = declined_at[q]
  BY <1>1 DEF StageInv, Declined, TypeOK
<1>2. StageInv'
  BY <1>1, <1>6 DEF StageInv, TypeOK
<1>3. FailuresNoticed'
  <2>1. \A q \in audit_logs : Earlier(q)' \subseteq Earlier(q)
    BY <1>1, <1>6 DEF Earlier, StageInv, TypeOK
  <2> QED BY <1>1, <2>1, FailuresStay DEF TypeOK
<1>4. ScreenedFirst'
  <2>1. p \in asked
    BY <1>1 DEF StageInv
  <2> QED BY <1>1, <1>6, <2>1 DEF ScreenedFirst, Level, TypeOK
<1>5. BurstInv'
  <2>1. Counted' \subseteq Counted
    BY <1>1 DEF Counted, TypeOK
  <2> QED BY <1>1, <2>1, BurstStays
<1> QED BY <1>2, <1>3, <1>4, <1>5

\* The other steps of a request change neither count nor what was counted.
LEMMA OtherStep ==
  ASSUME ScreeningInv, TypeOK', NEW p \in Requests,
         \/ Begin(p) \/ CreateIntent(p) \/ Block(p) \/ ProviderAuthorize(p) \/ BeginAttempt(p)
         \/ Abandon(p)
  PROVE  ScreeningInv'
<1> USE DEF ScreeningInv, Goto
<1>1. UNCHANGED <<clock, asof, signals, audit_logs, declined_at, known>>
  BY DEF Begin, CreateIntent, Block, ProviderAuthorize, BeginAttempt, Abandon, attempts
<1>2. StageInv'
  <2>1. CASE Begin(p)
    BY <2>1 DEF Begin, attempts, StageInv, Declined, TypeOK
  <2>2. CASE CreateIntent(p)
    BY <2>2 DEF CreateIntent, attempts, StageInv, Declined, TypeOK
  <2>3. CASE Block(p) \/ ProviderAuthorize(p) \/ BeginAttempt(p) \/ Abandon(p)
    BY <2>3 DEF Block, ProviderAuthorize, BeginAttempt, attempts, Abandon, StageInv, Declined, TypeOK
  <2> QED BY <2>1, <2>2, <2>3
<1>3. \A q \in Requests : q \in rows => created_at'[q] = created_at[q]
  BY DEF Begin, CreateIntent, Block, ProviderAuthorize, BeginAttempt, Abandon, StageInv, TypeOK
<1>4. FailuresNoticed'
  <2>1. \A q \in audit_logs : Earlier(q)' = Earlier(q)
    BY <1>1 DEF Earlier
  <2> QED BY <1>1, <2>1, FailuresStay DEF TypeOK
<1>5. ScreenedFirst'
  <2>1. \A q \in Requests : Level(q)' = Level(q)
    BY <1>1 DEF Level
  <2>2. CASE ProviderAuthorize(p)
    <3>1. p \in audit_logs /\ Level(p) # "BLOCK" /\ asked' = asked \cup {p} /\ rows' = rows
      BY <2>2 DEF ProviderAuthorize, StageInv
    <3> QED BY <1>1, <2>1, <3>1 DEF ScreenedFirst, Declined, TypeOK
  <2>3. CASE asked' = asked /\ rows \subseteq rows'
    BY <1>1, <2>1, <2>3 DEF ScreenedFirst, Declined, TypeOK
  <2> QED BY <2>2, <2>3 DEF Begin, CreateIntent, Block, BeginAttempt, Abandon
<1>6. BurstInv'
  <2>1. Counted' \subseteq Counted
    BY <1>1 DEF Counted, Begin, CreateIntent, Block, ProviderAuthorize, BeginAttempt, Abandon, TypeOK
  <2>2. \A q \in Counted' : created_at'[q] = created_at[q]
    BY <1>3, <2>1 DEF Counted, StageInv, TypeOK
  <2> QED BY <1>1, <2>1, <2>2, BurstStays
<1> QED BY <1>2, <1>4, <1>5, <1>6

\* Every step preserves the invariant.
LEMMA ScreeningStep == ScreeningInv /\ [Next]_vars => ScreeningInv'
<1> SUFFICES ASSUME ScreeningInv, [Next]_vars PROVE ScreeningInv'
  OBVIOUS
<1>0. TypeOK'
  BY TypeStep DEF ScreeningInv
<1>1. CASE clock' \in Nat /\ clock <= clock' /\ UNCHANGED <<stage, rows, created_at, asof, signals,
             audit_logs, asked, attempts, known>>
  <2> USE <1>1 DEF ScreeningInv, attempts, Declined
  <2>1. StageInv'
    BY DEF StageInv
  <2>2. FailuresNoticed' /\ ScreenedFirst'
    BY DEF FailuresNoticed, ScreenedFirst, Level
  <2>3. BurstInv'
    BY BurstStays DEF Counted
  <2> QED BY <1>0, <2>1, <2>2, <2>3
<1>2. ASSUME Tick \/ UNCHANGED clock PROVE clock' \in Nat /\ clock <= clock'
  BY <1>2 DEF Tick, ScreeningInv, TypeOK
<1> QED BY <1>0, <1>1, <1>2, VelocityStep, FailuresStep, RecordStep, OtherStep
       DEF Next, vars, attempts

\* The invariant holds in every state.
LEMMA ScreeningInvHolds == Spec => []ScreeningInv
BY ScreeningInit, ScreeningStep, PTL DEF Spec

\* TypeOK: no signal fires that has no weight, whatever is asked.
THEOREM ScreeningTypeCorrect == Spec => []TypeOK
<1>1. ScreeningInv => TypeOK
  BY DEF ScreeningInv
<1> QED BY <1>1, ScreeningInvHolds, PTL

\* However many requests arrive at once, and whatever the threshold and the window,
\* a burst leaves a trace in at least one of its assessments.
THEOREM EveryBurstNoticed == Spec => []BurstNoticed
<1>1. ScreeningInv => BurstNoticed
  BY DEF ScreeningInv, BurstInv, BurstNoticed, InWindow, Counted, kSubset
<1> QED BY <1>1, ScreeningInvHolds, PTL

\* No run of declines that is on record when an assessment begins is missed, for any
\* threshold and any window.
THEOREM EveryFailureRunNoticed == Spec => []FailuresNoticed
<1>1. ScreeningInv => FailuresNoticed
  BY DEF ScreeningInv
<1> QED BY <1>1, ScreeningInvHolds, PTL

\* The provider is asked only after an assessment that is on record and allows it.
THEOREM AskedOnlyAfterScreening == Spec => []ScreenedFirst
<1>1. ScreeningInv => ScreenedFirst
  BY DEF ScreeningInv
<1> QED BY <1>1, ScreeningInvHolds, PTL

===============================================================================
