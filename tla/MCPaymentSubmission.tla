------------------------ MODULE MCPaymentSubmission ------------------------
(***************************************************************************)
(* Two callers and an operation of two steps, the second of which depends  *)
(* on the first.                                                           *)
(***************************************************************************)
EXTENDS PaymentSubmission, TLC

ParentsOf == [s \in Step |-> {s - 1} \cap Step]
Retried == <<2, 1>>           \* the parent may be attempted again
Once == <<1, 1>>
Symmetry == Permutations(Caller)
=============================================================================
