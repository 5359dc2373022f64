------------------------------ MODULE Endpoint ------------------------------
(***************************************************************************)
(* What the transports and the clients of a server share: the caller and   *)
(* the signal it may abort, the retry policy, and the server's answer to a *)
(* transaction.  One behaviour is about one exchange.                      *)
(***************************************************************************)
EXTENDS Naturals

CONSTANT Attempts      \* readRetry.attempts: how often a read may be tried

ASSUME AttemptsAssumption == Attempts \in Nat \ {0}

VARIABLES
    exchange,   \* the exchange the caller makes
    cut,        \* its signal has aborted
    served      \* what the server made of the transaction: "none", "accepted", "refused"

caller == <<exchange, cut, served>>

\* The errors a transport marks retryable: its own timeout, a server that says it is
\* busy, and a connection that failed.
Retryable == {"TIMEOUT", "UNAVAILABLE"}

\* A transaction is submitted once; a read is tried again while its error allows it.
MayRetry(e, tries) == e \in Retryable /\ tries + 1 < Attempts

CallerInit == cut = FALSE /\ served = "none"

\* The server gets the bytes, perhaps long after the caller has given up.
Serve(sent) ==
    /\ sent > 0
    /\ served = "none"
    /\ served' \in {"accepted", "refused"}
    /\ UNCHANGED <<exchange, cut>>
=============================================================================
