------------------------------ MODULE Screening -------------------------------
(***************************************************************************)
(* Payment creations of one merchant as the risk engine sees them.  Each   *)
(* creation commits its own row, asks the engine, which counts in two      *)
(* statements of its own what the merchant's other creations have          *)
(* committed, records the assessment, and only then asks the provider.     *)
(*                                                                         *)
(* created_at is the start of the transaction that inserts the row.  The   *)
(* session's transaction begins with the lookup of the merchant, so that   *)
(* is when the request was authenticated.  An attempt likewise carries the *)
(* start of its transaction, and others see it when that commits.          *)
(***************************************************************************)
EXTENDS Clock, FiniteSets, FiniteSetsExt

CONSTANTS
  Requests,                    \* requests of the merchant
  Asks,                        \* what they ask: amount, countries, high_risk_ip
  NoCountry,                   \* billing_country or shipping_country is not given
  VELOCITY_WINDOW,
  VELOCITY_THRESHOLD,
  REPEATED_FAILURE_THRESHOLD

ASSUME ScreeningAssumption ==
  /\ IsFiniteSet(Requests)
  /\ VELOCITY_WINDOW \in Nat
  /\ VELOCITY_THRESHOLD \in Nat \ {0} /\ REPEATED_FAILURE_THRESHOLD \in Nat \ {0}

VARIABLES
  stage,       \* per request: its control point
  rows,        \* requests whose payment_intents row is committed
  created_at,  \* payment_intents.created_at of a request's payment
  asof,        \* the now of its assessment
  signals,     \* its assessment, as far as it has been made
  audit_logs,  \* requests whose assessment is recorded
  asked,       \* requests for which the provider was asked
  attempt_at,  \* when the transaction of its attempt began
  declined_at, \* payment_attempts.created_at of a committed DECLINED attempt, or -1
  known        \* history: the declines that were committed when its assessment began

vars == <<clock, stage, rows, created_at, asof, signals, audit_logs, asked, attempt_at,
          declined_at, known>>

attempts == <<attempt_at, declined_at>>

LARGE_AMOUNT_THRESHOLD_MINOR == 500000
VERY_LARGE_AMOUNT_THRESHOLD_MINOR == 2000000
BLOCK_THRESHOLD == 100
HIGH_THRESHOLD == 60
MEDIUM_THRESHOLD == 30

weight ==
  [ VERY_LARGE_AMOUNT |-> 50, LARGE_AMOUNT |-> 20, HIGH_RISK_IP |-> 35,
    BILLING_SHIPPING_COUNTRY_MISMATCH |-> 25, HIGH_VELOCITY |-> 30,
    REPEATED_FAILURES |-> 40 ]

\* Only the higher of the two amount tiers counts.
_amount_signal(a) ==
  IF a.amount_minor >= VERY_LARGE_AMOUNT_THRESHOLD_MINOR THEN {"VERY_LARGE_AMOUNT"}
  ELSE IF a.amount_minor >= LARGE_AMOUNT_THRESHOLD_MINOR THEN {"LARGE_AMOUNT"}
  ELSE {}

_country_mismatch_signal(a) ==
  IF a.billing # a.shipping /\ NoCountry \notin {a.billing, a.shipping}
  THEN {"BILLING_SHIPPING_COUNTRY_MISMATCH"} ELSE {}

_high_risk_ip_signal(a) == IF a.high_risk_ip THEN {"HIGH_RISK_IP"} ELSE {}

OwnSignals(a) ==
  _amount_signal(a) \cup _country_mismatch_signal(a) \cup _high_risk_ip_signal(a)

Score(fired) == MapThenSumSet(LAMBDA s : weight[s], fired)

_level_for_score(score) ==
  CASE score >= BLOCK_THRESHOLD -> "BLOCK"
    [] score >= HIGH_THRESHOLD /\ score < BLOCK_THRESHOLD -> "HIGH"
    [] score >= MEDIUM_THRESHOLD /\ score < HIGH_THRESHOLD -> "MEDIUM"
    [] score < MEDIUM_THRESHOLD -> "LOW"

-------------------------------------------------------------------------------

Init ==
  /\ clock = 0
  /\ stage = [p \in Requests |-> "idle"]
  /\ rows = {}
  /\ created_at = [p \in Requests |-> 0]
  /\ asof = [p \in Requests |-> 0]
  /\ signals = [p \in Requests |-> {}]
  /\ audit_logs = {}
  /\ asked = {}
  /\ attempt_at = [p \in Requests |-> 0]
  /\ declined_at = [p \in Requests |-> -1]
  /\ known = [p \in Requests |-> {}]

Goto(p, from, to) == stage[p] = from /\ stage' = [stage EXCEPT ![p] = to]

\* The session's first statement begins the transaction.
Begin(p) ==
  /\ Goto(p, "idle", "begun")
  /\ created_at' = [created_at EXCEPT ![p] = clock]
  /\ UNCHANGED <<clock, rows, asof, signals, audit_logs, asked, attempts, known>>

\* The commit of the intent in CREATED: from here on other sessions count it.
CreateIntent(p) ==
  /\ Goto(p, "begun", "created")
  /\ rows' = rows \cup {p}
  /\ UNCHANGED <<clock, created_at, asof, signals, audit_logs, asked, attempts, known>>

\* The requests whose attempt is on record as DECLINED.
Declined == { q \in Requests : declined_at[q] # -1 }

\* Mutant: the engine is asked before the intent is committed.
_velocity_signal_Early(p) ==
  LET count == Cardinality({ q \in rows : created_at[q] >= clock - VELOCITY_WINDOW })
  IN /\ Goto(p, "begun", "counted")
     /\ rows' = rows \cup {p}
     /\ asof' = [asof EXCEPT ![p] = clock]
     /\ \E a \in Asks :
          signals' = [signals EXCEPT ![p] =
            OwnSignals(a) \cup (IF count >= VELOCITY_THRESHOLD THEN {"HIGH_VELOCITY"} ELSE {})]
     /\ known' = [known EXCEPT ![p] = Declined]
     /\ UNCHANGED <<clock, created_at, audit_logs, asked, attempts>>

\* assess_payment_risk, after the commit to PROCESSING: now, the signals of the
\* request itself, and the first count.
_velocity_signal(p) ==
  LET count == Cardinality({ q \in rows : created_at[q] >= clock - VELOCITY_WINDOW })
  IN /\ Goto(p, "created", "counted")
     /\ asof' = [asof EXCEPT ![p] = clock]
     /\ \E a \in Asks :
          signals' = [signals EXCEPT ![p] =
            OwnSignals(a) \cup (IF count >= VELOCITY_THRESHOLD THEN {"HIGH_VELOCITY"} ELSE {})]
     /\ known' = [known EXCEPT ![p] = Declined]
     /\ UNCHANGED <<clock, rows, created_at, audit_logs, asked, attempts>>

\* Mutant: the two conditions on created_at are mixed up.
DeclinedSince_ByPayment(since) ==
  { q \in Declined : created_at[q] >= since }

DeclinedSince(since) == { q \in Declined : declined_at[q] >= since }

\* The second count, and the commit of the audit row with the whole assessment.
_repeated_failures_signal(p) ==
  LET count == Cardinality(DeclinedSince(asof[p] - VELOCITY_WINDOW))
  IN /\ Goto(p, "counted", "assessed")
     /\ signals' = [signals EXCEPT ![p] = @ \cup
          (IF count >= REPEATED_FAILURE_THRESHOLD THEN {"REPEATED_FAILURES"} ELSE {})]
     /\ audit_logs' = audit_logs \cup {p}
     /\ UNCHANGED <<clock, rows, created_at, asof, asked, attempts, known>>

Level(p) == _level_for_score(Score(signals[p]))

\* BLOCK: the payment becomes FAILED.
Block(p) ==
  /\ Level(p) = "BLOCK"
  /\ Goto(p, "assessed", "blocked")
  /\ UNCHANGED <<clock, rows, created_at, asof, signals, audit_logs, asked, attempts, known>>

\* Mutant: the assessment is recorded and not acted on.
ProviderAuthorize_Unchecked(p) ==
  /\ Goto(p, "assessed", "authorizing")
  /\ asked' = asked \cup {p}
  /\ UNCHANGED <<clock, rows, created_at, asof, signals, audit_logs, attempts, known>>

ProviderAuthorize(p) ==
  /\ Level(p) # "BLOCK"
  /\ Goto(p, "assessed", "authorizing")
  /\ asked' = asked \cup {p}
  /\ UNCHANGED <<clock, rows, created_at, asof, signals, audit_logs, attempts, known>>

\* lock_payment, after the provider's answer: the transaction of the attempt begins.
BeginAttempt(p) ==
  /\ Goto(p, "authorizing", "recording")
  /\ attempt_at' = [attempt_at EXCEPT ![p] = clock]
  /\ UNCHANGED <<clock, rows, created_at, asof, signals, audit_logs, asked, declined_at, known>>

\* The commit of the attempt, DECLINED or not: from here on other sessions count it.
RecordAttempt(p) ==
  /\ Goto(p, "recording", "done")
  /\ declined_at' \in {declined_at, [declined_at EXCEPT ![p] = attempt_at[p]]}
  /\ UNCHANGED <<clock, rows, created_at, asof, signals, audit_logs, asked, attempt_at, known>>

\* An exception or a crash: what was committed stays.
Abandon(p) ==
  /\ stage[p] \notin {"idle", "done", "blocked", "failed"}
  /\ stage' = [stage EXCEPT ![p] = "failed"]
  /\ UNCHANGED <<clock, rows, created_at, asof, signals, audit_logs, asked, attempts, known>>

Next ==
  \/ \E p \in Requests :
       \/ Begin(p) \/ CreateIntent(p)
       \/ _velocity_signal(p) \/ _repeated_failures_signal(p)
       \/ Block(p) \/ ProviderAuthorize(p) \/ BeginAttempt(p) \/ RecordAttempt(p)
       \/ Abandon(p)
  \/ Tick /\ UNCHANGED <<stage, rows, created_at, asof, signals, audit_logs, asked,
                         attempts, known>>

Spec == Init /\ [][Next]_vars

-------------------------------------------------------------------------------

\* Type invariant.
TypeOK ==
  /\ clock \in Nat
  /\ stage \in [Requests -> {"idle", "begun", "created", "counted", "assessed", "blocked",
                             "authorizing", "recording", "done", "failed"}]
  /\ rows \in SUBSET Requests
  /\ created_at \in [Requests -> Nat]
  /\ asof \in [Requests -> Nat]
  /\ signals \in [Requests -> SUBSET DOMAIN weight]
  /\ audit_logs \in SUBSET Requests
  /\ asked \in SUBSET Requests
  /\ attempt_at \in [Requests -> Nat]
  /\ declined_at \in [Requests -> Nat \cup {-1}]
  /\ known \in [Requests -> SUBSET Requests]

\* A burst is noticed: of VELOCITY_THRESHOLD payments that were assessed while all of
\* them were in the window, at least one carries HIGH_VELOCITY, however their
\* transactions interleave (each is committed before it is assessed, and counted
\* with the others).
BurstNoticed ==
  \A burst \in kSubset(VELOCITY_THRESHOLD, audit_logs) :
    (\A p, q \in burst : created_at[q] >= asof[p] - VELOCITY_WINDOW)
      => \E p \in burst : "HIGH_VELOCITY" \in signals[p]

\* Declined attempts that are committed when a request's assessment begins, and whose
\* transaction began in the window, count against it, whatever is recorded between
\* the two counts.
FailuresNoticed ==
  \A p \in audit_logs :
    Cardinality({ q \in known[p] : declined_at[q] >= asof[p] - VELOCITY_WINDOW })
        >= REPEATED_FAILURE_THRESHOLD
      => "REPEATED_FAILURES" \in signals[p]

\* The provider is never asked for a payment whose assessment is not on record, or is
\* BLOCK, and an attempt exists only where it was asked.
ScreenedFirst ==
  /\ \A p \in asked : p \in audit_logs /\ Level(p) # "BLOCK"
  /\ Declined \subseteq asked
  /\ audit_logs \subseteq rows

===============================================================================
