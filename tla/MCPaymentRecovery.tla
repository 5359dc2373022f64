------------------------- MODULE MCPaymentRecovery -------------------------
(***************************************************************************)
(* A small journal: four sequence numbers, any of them recorded, read in   *)
(* pages of two.  Row 3 never has a transaction.                           *)
(***************************************************************************)
EXTENDS PaymentRecovery

Transactions == {1, 2, 4}
=============================================================================
