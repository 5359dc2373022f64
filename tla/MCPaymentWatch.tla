--------------------------- MODULE MCPaymentWatch ---------------------------
(* A payment in the second block of one chain, the third of another, or none. *)
EXTENDS PaymentWatch

TheChains == {<<1>>, <<1, 9, 1>>, <<1, 2, 9>>}
=============================================================================
