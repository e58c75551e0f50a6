----------------------------- MODULE StateMachine -----------------------------
(***************************************************************************)
(* The payment and refund state machines of packages/domain: statuses,     *)
(* actors, the allow-list of transitions and its pure validator.           *)
(***************************************************************************)

PaymentStatus ==
  { "CREATED", "PROCESSING", "REQUIRES_ACTION", "UNKNOWN", "SUCCEEDED",
    "FAILED", "REFUND_PENDING", "REFUNDED", "REFUND_FAILED" }

RefundStatus == { "PENDING", "SUCCEEDED", "FAILED" }

Actor == { "API", "WORKER", "WEBHOOK", "RECONCILIATION" }

(***************************************************************************)
(* The allow-list as a relation.  Only the transitions out of UNKNOWN name *)
(* the actors that may take them.                                          *)
(***************************************************************************)
PAYMENT_TRANSITIONS ==
  { <<"CREATED", "PROCESSING">>,
    <<"PROCESSING", "SUCCEEDED">>,
    <<"PROCESSING", "FAILED">>,
    <<"PROCESSING", "REQUIRES_ACTION">>,
    <<"PROCESSING", "UNKNOWN">>,
    <<"REQUIRES_ACTION", "PROCESSING">>,
    <<"REQUIRES_ACTION", "FAILED">>,
    <<"UNKNOWN", "SUCCEEDED">>,
    <<"UNKNOWN", "FAILED">>,
    <<"UNKNOWN", "UNKNOWN">>,
    <<"SUCCEEDED", "REFUND_PENDING">>,
    <<"REFUND_PENDING", "REFUNDED">>,
    <<"REFUND_PENDING", "REFUND_FAILED">>,
    <<"REFUND_PENDING", "SUCCEEDED">>,
    <<"REFUND_FAILED", "REFUND_PENDING">> }

allowed_actors(from) == IF from = "UNKNOWN" THEN { "RECONCILIATION" } ELSE Actor

is_valid_payment_transition(from, to, actor) ==
  /\ <<from, to>> \in PAYMENT_TRANSITIONS
  /\ actor \in allowed_actors(from)

===============================================================================
