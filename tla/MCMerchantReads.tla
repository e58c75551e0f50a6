--------------------------- MODULE MCMerchantReads ---------------------------
(***************************************************************************)
(* Two payments of two minor units and pages of one row.                   *)
(***************************************************************************)
EXTENDS MerchantReads, TLC

PaymentSymmetry == Permutations(Payments)

===============================================================================
