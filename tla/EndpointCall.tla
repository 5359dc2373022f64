---------------------------- MODULE EndpointCall ----------------------------
(***************************************************************************)
(* What one exchange with a server promises its caller, whichever of the   *)
(* transports and clients makes it.                                        *)
(*                                                                         *)
(* A transaction is sent at most once, and nothing is sent for a caller    *)
(* that has given up.  A write that is reported as an error has not left;  *)
(* once it has, what is reported is what the server did, or "unknown".     *)
(* When the exchange is over it holds nothing, and acquires nothing more.  *)
(***************************************************************************)
EXTENDS Naturals

VARIABLES
    write,     \* the exchange submits a transaction
    limit,     \* how many requests a read may make
    stage,     \* "idle", "open" or "over"
    sent,      \* how often its request has been given to the network
    served,    \* what the server made of the transaction
    cut,       \* the caller has aborted
    held,      \* timers, listeners, streams and channels it keeps
    outcome    \* what the caller was told

call == <<write, limit, stage, sent, served, cut, held, outcome>>

Outcome == {"none", "value", "acknowledged", "rejected", "unknown", "error"}

Init ==
    /\ write \in BOOLEAN
    /\ limit \in Nat
    /\ stage = "idle"
    /\ sent = 0
    /\ served = "none"
    /\ cut = FALSE
    /\ held = {}
    /\ outcome = "none"

\* What may be told: a write fails only unsent, and is never said to have been
\* accepted or refused by a server that did not do so.
Honest(o) ==
    IF write
    THEN \/ o = "error" /\ sent = 0
         \/ o = "unknown"
         \/ o = "acknowledged" /\ served = "accepted"
         \/ o = "rejected" /\ served = "refused"
    ELSE o = "error" \/ (o = "value" /\ sent > 0)

Send ==
    /\ stage # "over" /\ stage' # "idle"
    /\ ~cut
    /\ sent < IF write THEN 1 ELSE limit
    /\ sent' = sent + 1

\* Whatever else happens in a step, it happens to one exchange.
Next ==
    /\ UNCHANGED <<write, limit>>
    /\ cut => cut'
    /\ sent' = sent \/ Send
    /\ \/ served' = served
       \/ served = "none" /\ sent > 0 /\ served' \in {"accepted", "refused"}
    /\ \/ stage' = stage /\ outcome' = outcome /\ (stage = "open" \/ held' = held)
       \/ stage = "idle" /\ stage' = "open" /\ outcome' = outcome
       \/ stage # "over" /\ stage' = "over" /\ held' = {} /\ Honest(outcome')

Spec == Init /\ [][Next]_call
=============================================================================
