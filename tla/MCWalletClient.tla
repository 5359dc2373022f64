--------------------------- MODULE MCWalletClient ---------------------------
(* Two methods of any kind beside each other, and close(). *)
EXTENDS WalletClient
=============================================================================
