---------------------------- MODULE CallReceipts ----------------------------
(***************************************************************************)
(* What a wallet command promises its caller, whatever queue, port, worker *)
(* or crash lies in between.  A command is issued at most once and settles *)
(* at most once.  Its settlement is one of                                 *)
(*                                                                         *)
(*   "ok"         the command ran and its result was returned,             *)
(*   "none"       rejected; the command changed nothing, and never will,   *)
(*   "committed"  rejected; the change was made nevertheless,              *)
(*   "unknown"    rejected; the caller must reconcile to find out.         *)
(*                                                                         *)
(* The last three are the `completion` of the receipt that host.ts keeps   *)
(* beside every rejection.  Callers decide from it whether a retry is safe *)
(* (payments.ts, execute.ts, mnemonic.ts), so it may never be wrong.       *)
(***************************************************************************)
CONSTANT Call        \* the commands that callers may issue

VARIABLES
    phase,           \* phase[c]: "idle", "pending" or the settlement of c
    writes,          \* the commands that change durable state when they run
    effect           \* the commands whose durable change has been made

vars == <<phase, writes, effect>>

Settlement == {"ok", "none", "committed", "unknown"}

Init ==
    /\ phase = [c \in Call |-> "idle"]
    /\ writes \in SUBSET Call
    /\ effect = {}

Issue(c) ==
    /\ phase[c] = "idle"
    /\ phase' = [phase EXCEPT ![c] = "pending"]
    /\ UNCHANGED <<writes, effect>>

\* A command refused at admission never reaches the wallet.
Refuse(c) ==
    /\ phase[c] = "idle"
    /\ phase' = [phase EXCEPT ![c] = "none"]
    /\ UNCHANGED <<writes, effect>>

\* The durable change: at most once, and only while the caller has not been
\* told that it did not and will not happen.
Effect(c) ==
    /\ phase[c] \in {"pending", "unknown"}
    /\ c \in writes
    /\ c \notin effect
    /\ effect' = effect \cup {c}
    /\ UNCHANGED <<phase, writes>>

\* One step may settle several commands: a crash settles all of a wallet's.
Settle ==
    /\ phase' \in [Call -> {"idle", "pending"} \cup Settlement]
    /\ \A c \in Call : phase'[c] # phase[c] =>
          /\ phase[c] = "pending"
          /\ phase'[c] \in Settlement
          /\ phase'[c] = "ok" => (c \in writes => c \in effect)
          /\ phase'[c] = "none" => c \notin effect
          /\ phase'[c] = "committed" => c \in effect
    /\ UNCHANGED <<writes, effect>>

Next ==
    \/ \E c \in Call : Issue(c) \/ Refuse(c) \/ Effect(c)
    \/ Settle

Spec == Init /\ [][Next]_vars
=============================================================================
