-------------------------- MODULE MCPaymentLifecycle --------------------------
(***************************************************************************)
(* PaymentLifecycle for TLC.                                               *)
(***************************************************************************)
EXTENDS PaymentLifecycle, TLC

\* Captures, webhooks, passes and refunds are each interchangeable.
Symmetry == UNION { Permutations(S) : S \in {Captures, Webhooks, Passes, Refunds} }

===============================================================================
