---------------------------- MODULE MCOwnerPool -----------------------------
(* Two wallets and a signer that share owners. *)
EXTENDS OwnerPool
=============================================================================
