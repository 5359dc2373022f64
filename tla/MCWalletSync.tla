---------------------------- MODULE MCWalletSync ----------------------------
(* Two watchers beside one caller and one submission. *)
EXTENDS WalletSync
=============================================================================
