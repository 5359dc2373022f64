-------------------------- MODULE PaymentRecovery --------------------------
(***************************************************************************)
(* What opening a wallet does about the payments an earlier session left.  *)
(*                                                                         *)
(* WalletPayments.recover() (wallet/payments.ts) first reconciles every    *)
(* recorded operation locally, page by page, and then, when the policy is  *)
(* online, observes and perhaps rebroadcasts them within a deadline.  The  *)
(* network pass begins behind the durable observation position, wraps      *)
(* around, stores the position after every row it finished with, and stops *)
(* at the first failure.  Only then is the wallet ready.                   *)
(*                                                                         *)
(* A wallet may be opened any number of times over the same journal.  The  *)
(* journal is native and external; its rows are sequence numbers.          *)
(***************************************************************************)
EXTENDS Integers, FiniteSets, Sequences

CONSTANTS
    MaxRow,        \* bound: sequence numbers are 1..MaxRow
    Candidate,     \* rows with a finalized transaction (some step has a txid)
    PageLimit,     \* rows of one inventory page
    Online,        \* the policy's mode is "online"
    MaxAttempts,   \* the policy's limit on automatic attempts, 0 for no rebroadcast
    MaxTrouble     \* bound: crashes, failed calls and caller aborts

ASSUME RowAssumption == MaxRow \in Nat /\ Candidate \subseteq 1..MaxRow
ASSUME PageAssumption == PageLimit \in Nat \ {0}
ASSUME PolicyAssumption ==
    Online \in BOOLEAN /\ MaxAttempts \in Nat /\ MaxTrouble \in Nat

VARIABLES
    \* the journal, which survives the session
    rows,          \* the recorded operations
    position,      \* the observation position
    budget,        \* automatic attempts left
    \* the session
    phase,         \* "closed", "local", "online", "ready" or "failed"
    scan,          \* the captured high-water mark, the page and the ranges left,
                   \* and the last row taken
    stage,         \* what the network pass does with that row
    report,        \* operations, candidates, observed; failed: lastError is set
    expired,       \* the network deadline has passed
    aborted,       \* the caller aborted, or the wallet is closing
    trouble,
    \* what really happened in this session, for the properties
    reconciled, seen

journal == <<rows, position, budget>>
signals == <<expired, aborted>>
history == <<reconciled, seen>>
vars == <<journal, phase, scan, stage, report, signals, trouble, history>>

\* page(): the first rows of a range, at most PageLimit of them.
Page(from, to) ==
    {r \in rows : /\ from < r /\ r <= to
                  /\ Cardinality({s \in rows : from < s /\ s < r}) < PageLimit}

Captured == {r \in rows : r <= scan.high}
IsFirst(r, S) == r \in S /\ \A s \in S : r <= s

NoScan == [high |-> 0, page |-> {}, ranges |-> <<>>, row |-> 0]
NoReport == [operations |-> 0, candidates |-> 0, observed |-> 0, failed |-> FALSE]

\* Any journal: rows may be missing, and the position may lie beyond them.
Init ==
    /\ rows \in SUBSET (1..MaxRow)
    /\ position \in 0..MaxRow
    /\ budget = [r \in Candidate |-> MaxAttempts]
    /\ phase = "closed" /\ scan = NoScan /\ stage = "rows" /\ report = NoReport
    /\ expired = FALSE /\ aborted = FALSE /\ trouble = 0
    /\ reconciled = {} /\ seen = {}

-----------------------------------------------------------------------------
(* The local pass *)

\* recover(): capture the high-water mark and the first page.
Open ==
    /\ phase = "closed"
    /\ phase' = "local"
    /\ \E high \in rows \cup {0} :
         /\ \A r \in rows : r <= high
         /\ scan' = [scan EXCEPT !.high = high, !.page = Page(0, high)]
    /\ UNCHANGED <<journal, stage, report, signals, trouble, history>>

\* The rest of the page, or the page behind it.
NextPage(r) == IF scan.page = {r} THEN Page(r, scan.high) ELSE scan.page \ {r}

\* recoverLocal(): reconcile one operation.
Reconcile ==
    /\ phase = "local"
    /\ \E r \in scan.page :
         /\ IsFirst(r, scan.page)
         /\ scan' = [scan EXCEPT !.page = NextPage(r)]
         /\ report' = [report EXCEPT !.operations = @ + 1,
                                     !.candidates = IF r \in Candidate THEN @ + 1 ELSE @]
         /\ reconciled' = reconciled \cup {r}
    /\ UNCHANGED <<journal, phase, stage, signals, trouble, seen>>

\* A range is read while its end is not reached.
Around(after, high, until) ==
    (IF after < high THEN <<[after |-> after, high |-> high]>> ELSE <<>>)
    \o (IF 0 < until THEN <<[after |-> 0, high |-> until]>> ELSE <<>>)
RangesOverlap ==                 \* plausible bug: the wrapped range is not cut off
    LET pivot == IF position > scan.high THEN 0 ELSE position
    IN  Around(pivot, scan.high, scan.high)
RangesUnclamped ==               \* plausible bug: the position of a longer journal is kept
    Around(position, scan.high, position)
\* recoveryRows(): behind the position first, then around to it.
Ranges ==
    LET pivot == IF position > scan.high THEN 0 ELSE position
    IN  Around(pivot, scan.high, pivot)

\* The end of the local pass: without candidates or offline, nothing else is done.
LocalDone ==
    /\ phase = "local"
    /\ scan.page = {}
    /\ IF Online /\ report.candidates > 0
         THEN phase' = "online" /\ scan' = [scan EXCEPT !.ranges = Ranges]
         ELSE phase' = "ready" /\ UNCHANGED scan
    /\ UNCHANGED <<journal, stage, report, signals, trouble, history>>

-----------------------------------------------------------------------------
(* The network pass *)

At(s) == phase = "online" /\ stage = s
Cut == expired \/ aborted          \* networkSignal.aborted

\* The next page of the range, or the next range.
Fetch ==
    /\ At("rows") /\ ~Cut /\ ~report.failed
    /\ scan.page = {} /\ scan.ranges # <<>>
    /\ LET range == Head(scan.ranges)
           next == Page(range.after, range.high)
       IN  scan' = IF next = {} THEN [scan EXCEPT !.ranges = Tail(@)]
                                ELSE [scan EXCEPT !.page = next]
    /\ UNCHANGED <<journal, phase, stage, report, signals, trouble, history>>

\* A row without a transaction is passed over.
Take ==
    /\ At("rows") /\ ~Cut /\ ~report.failed
    /\ \E r \in scan.page :
         /\ IsFirst(r, scan.page)
         /\ scan' = [scan EXCEPT !.page = @ \ {r}, !.row = r, !.ranges[1].after = r]
         /\ stage' = IF r \in Candidate THEN "observe" ELSE "position"
    /\ UNCHANGED <<journal, phase, report, signals, trouble, history>>

\* The row is finished with; lastError says how.
Finished(error) ==
    /\ stage' = "position"
    /\ report' = [report EXCEPT !.failed = error]
    /\ UNCHANGED <<journal, phase, scan, signals, trouble, history>>

\* recoverPayment(): the source answered and its evidence is stored, perhaps
\* past the deadline.
Observed ==
    /\ At("observe")
    /\ report' = [report EXCEPT !.observed = @ + 1]
    /\ seen' = seen \cup {scan.row}
    /\ stage' = IF MaxAttempts > 0 /\ ~Cut THEN "rebroadcast" ELSE "position"
    /\ UNCHANGED <<journal, phase, scan, signals, trouble, reconciled>>

\* The source or the route failed: before an attempt is admitted this is only
\* reported.
Failed == (At("observe") \/ At("rebroadcast")) /\ Finished(TRUE)

\* They do not answer before the signal of the pass aborts.
GiveUp == Cut /\ Failed

\* The native journal admits no (further) automatic attempt: no consent, no
\* budget, too early, or every step is mined.
Declined == At("rebroadcast") /\ \E error \in {FALSE, Cut} : Finished(error)

BeginFree ==                     \* plausible bug: an attempt is not charged before dispatch
    /\ At("rebroadcast") /\ ~Cut
    /\ budget[scan.row] > 0
    /\ stage' = "dispatch"
    /\ UNCHANGED <<journal, phase, scan, report, signals, trouble, history>>
\* submitStep(): the attempt is durable before a byte leaves.
Begin ==
    /\ At("rebroadcast") /\ ~Cut
    /\ budget[scan.row] > 0
    /\ budget' = [budget EXCEPT ![scan.row] = @ - 1]
    /\ stage' = "dispatch"
    /\ UNCHANGED <<rows, position, phase, scan, report, signals, trouble, history>>

\* The signal aborts the call that would admit an attempt.  The abort of a native
\* call has the stage "runtime", and recoverPayment() rethrows that too.
BeginCut ==
    /\ At("rebroadcast") /\ Cut
    /\ phase' = "failed"
    /\ UNCHANGED <<journal, scan, stage, report, signals, trouble, history>>

\* The dispatch has an outcome, also "unknown", and it is stored.  The next step of
\* the operation follows.
Dispatched ==
    /\ At("dispatch") /\ ~Cut
    /\ stage' = "rebroadcast"
    /\ UNCHANGED <<journal, phase, scan, report, signals, trouble, history>>

\* The signal aborts a dispatch.  The unknown outcome is stored, and the error
\* that says so carries its committed receipt; recoverPayment() rethrows every
\* error whose receipt is not "none", so the whole opening fails.
DispatchCut ==
    /\ At("dispatch") /\ Cut
    /\ phase' = "failed"
    /\ UNCHANGED <<journal, scan, stage, report, signals, trouble, history>>

PositionOfObserved ==            \* plausible bug: a failed row is tried again first
    /\ At("position")
    /\ position' = IF report.failed THEN position ELSE scan.row
    /\ stage' = "rows"
    /\ UNCHANGED <<rows, budget, phase, scan, report, signals, trouble, history>>
\* The durable position advances past the row, whatever became of it.
Position ==
    /\ At("position")
    /\ position' = scan.row
    /\ stage' = "rows"
    /\ UNCHANGED <<rows, budget, phase, scan, report, signals, trouble, history>>

\* The pass ends with its rows, its deadline, its first error or the caller.
Done ==
    /\ At("rows")
    /\ Cut \/ report.failed \/ (scan.page = {} /\ scan.ranges = <<>>)
    /\ phase' = IF aborted THEN "failed" ELSE "ready"
    /\ report' = [report EXCEPT !.failed = @ \/ expired]
    /\ UNCHANGED <<journal, scan, stage, signals, trouble, history>>

Deadline ==
    /\ phase = "online" /\ ~expired
    /\ expired' = TRUE
    /\ UNCHANGED <<journal, phase, scan, stage, report, aborted, trouble, history>>

-----------------------------------------------------------------------------
(* Trouble, and the next session *)

Trouble == trouble < MaxTrouble /\ trouble' = trouble + 1

Abort ==
    /\ Trouble
    /\ phase \in {"local", "online"} /\ ~aborted
    /\ aborted' = TRUE
    /\ UNCHANGED <<journal, phase, scan, stage, report, expired, history>>

\* A journal call rejects: a storage failure, a lost worker, or the abort (which
\* the writes of an outcome and of the position do not take).  The run is
\* remembered, so this session never becomes ready.
Fail ==
    /\ phase \in {"local", "online"}
    /\ phase' = "failed"
    /\ \/ Trouble
       \/ aborted /\ stage \in {"rows", "observe"} /\ UNCHANGED trouble
    /\ UNCHANGED <<journal, scan, stage, report, signals, history>>

Forget ==
    /\ phase' = "closed" /\ scan' = NoScan /\ stage' = "rows" /\ report' = NoReport
    /\ expired' = FALSE /\ aborted' = FALSE
    /\ reconciled' = {} /\ seen' = {}
    /\ UNCHANGED journal

Crash == Trouble /\ phase # "closed" /\ Forget
Reopen == phase \in {"ready", "failed"} /\ Forget /\ UNCHANGED trouble

\* A ready wallet records a new operation.
Create ==
    /\ phase = "ready"
    /\ \E r \in 1..MaxRow : (\A s \in rows : s < r) /\ rows' = rows \cup {r}
    /\ UNCHANGED <<position, budget, phase, scan, stage, report, signals, trouble,
                   history>>

\* What the SDK does by itself, and opening the wallet again and again.
Step ==
    \/ Open \/ Reconcile \/ LocalDone \/ Fetch \/ GiveUp \/ DispatchCut
    \/ Position \/ Done \/ Reopen

Next ==
    \/ Step \/ Take \/ Deadline
    \/ Observed \/ Failed \/ Declined \/ Begin \/ BeginCut \/ Dispatched
    \/ Abort \/ Fail \/ Crash \/ Create

Spec == Init /\ [][Next]_vars

\* Journal calls return and timers fire; a source need not answer.  The deadline
\* is not in every session shorter than the reads before the first row, and does
\* not in every session pass just while an attempt is being admitted.
Fairness ==
    /\ WF_vars(Step) /\ WF_vars(Deadline)
    /\ SF_vars(Fetch) /\ SF_vars(Take) /\ SF_vars(Begin \/ Declined)
FairSpec == Spec /\ Fairness

-----------------------------------------------------------------------------
(* Properties *)

\* The journal and the session keep their types; the ranges stay within the
\* captured inventory.
TypeOK ==
    /\ rows \subseteq 1..MaxRow /\ position \in 0..MaxRow
    /\ budget \in [Candidate -> 0..MaxAttempts]
    /\ phase \in {"closed", "local", "online", "ready", "failed"}
    /\ stage \in {"rows", "observe", "rebroadcast", "dispatch", "position"}
    /\ scan.high \in 0..MaxRow /\ scan.page \subseteq Captured
    /\ scan.row \in Captured \cup {0}
    /\ \A i \in DOMAIN scan.ranges :
         scan.ranges[i].after <= scan.high /\ scan.ranges[i].high <= scan.high
    /\ report \in [operations : 0..MaxRow, candidates : 0..MaxRow,
                   observed : 0..MaxRow, failed : BOOLEAN]
    /\ expired \in BOOLEAN /\ aborted \in BOOLEAN /\ trouble \in 0..MaxTrouble
    /\ reconciled \subseteq rows /\ seen \subseteq rows

\* A ready wallet has reconciled every operation that was recorded when it was
\* opened, however many pages there were, whatever the network did.  The report
\* counts what happened: an operation is deferred exactly when this session has not
\* observed it, an incomplete observation has a reason, and no row is observed twice
\* by a pass that wraps around.
ReportExact ==
    phase = "ready" =>
        /\ reconciled = Captured
        /\ report.operations = Cardinality(reconciled)
        /\ report.candidates - report.observed
             = Cardinality((reconciled \cap Candidate) \ seen)
        /\ (Online /\ report.observed < report.candidates) => report.failed

\* Opening returns: a source that never answers cannot hold the wallet.  And nobody
\* starves: over repeated sessions every payment is attempted again and again,
\* although one that always fails ends each pass, and although an opening that fails
\* during a dispatch does not store its position.
EveryPaymentAttempted ==
    /\ phase = "local" ~> phase \in {"ready", "failed", "closed"}
    /\ \A r \in Candidate : []<>(scan.row = r \/ r \notin rows)

\* What the documentation says of a network pass (docs/api/operations.md:55): only
\* a local failure rejects opening.  The code does not keep it, see BeginCut and
\* DispatchCut.
OnlyLocalFailureRejects == phase = "failed" => trouble > 0
=============================================================================
