------------------------- MODULE PaymentSubmission -------------------------
(***************************************************************************)
(* Explicit submission of one recorded operation.                          *)
(*                                                                         *)
(* submit() of wallet/payments.ts takes the operation's lock, reconciles   *)
(* the journal, observes every step and then works through the steps in    *)
(* order: the wallet's scan is brought to the tip of the evidence, a       *)
(* durable attempt is admitted, the bytes leave, the outcome is stored,    *)
(* and a step that others depend on is observed once more.                 *)
(*                                                                         *)
(* The native journal, the source, and the chain are external.  The states *)
(* of the source's chain are numbered: a tip of the evidence and a tip of  *)
(* the wallet's scan are equal when height and hash are.                   *)
(***************************************************************************)
EXTENDS Integers, Sequences

CONSTANTS
    Caller,        \* those who submit the operation, again and again
    LastStep,      \* the steps are 1..LastStep
    Parents,       \* Parents[s]: the steps that s depends on
    MaxRefreshes,  \* 3 in prepareSubmission()
    MaxAttempts,   \* bound: MaxAttempts[s] attempts of step s
    MaxTip,        \* bound: states of the source's chain
    MaxTrouble     \* bound: crashes, failed writes, evictions and reorganizations

Step == 1..LastStep

ASSUME StepAssumption == LastStep \in Nat \ {0}
ASSUME ParentsAssumption ==
    /\ Parents \in [Step -> SUBSET Step]
    /\ \A s \in Step : \A p \in Parents[s] : p < s
ASSUME BoundAssumption ==
    /\ {MaxRefreshes, MaxTip, MaxTrouble} \subseteq Nat
    /\ MaxAttempts \in [Step -> Nat]

VARIABLES
    \* the journal, which survives the session
    attempts,      \* attempts[s]: the outcomes of the attempts of step s
    evidence,      \* evidence[s]: the last stored observation of step s
    \* the session
    locked,        \* the operation is in `submissions`
    job,           \* job[c]: how far the submission of caller c is
    aborted,       \* the submissions whose signal has been aborted
    scan,          \* the chain that the wallet has scanned
    \* the world
    flights,       \* flights[s]: what became of every transmission of step s
    ledger,        \* ledger[s]: what the source knows of step s
    tip,           \* the source's chain
    trouble,
    lost           \* steps with an attempt whose session could not settle it

journal == <<attempts, evidence>>
session == <<locked, job, aborted, scan>>
world == <<flights, ledger, tip>>
vars == <<journal, session, world, trouble, lost>>

NoJob == [pc |-> "idle", step |-> 0, attempt |-> 0, refreshes |-> 0,
          outcome |-> "unknown"]
Busy(c) == job[c].pc # "idle"

Init ==
    /\ attempts = [s \in Step |-> <<>>]
    /\ evidence = [s \in Step |-> [state |-> "none", tip |-> 0, of |-> 0]]
    /\ locked = FALSE
    /\ job = [c \in Caller |-> NoJob]
    /\ aborted = {}
    /\ scan = 0 /\ tip = 0
    /\ flights = [s \in Step |-> <<>>]
    /\ ledger = [s \in Step |-> "notSeen"]
    /\ trouble = 0
    /\ lost = {}

-----------------------------------------------------------------------------
(* The submission of caller c *)

At(c, pc) == job[c].pc = pc

GoTo(c, j) == job' = [job EXCEPT ![c] = j] /\ UNCHANGED <<locked, aborted, scan>>

\* The submission returns or throws: submit() releases the lock.
End(c) ==
    /\ job' = [job EXCEPT ![c] = NoJob]
    /\ aborted' = aborted \ {c}
    /\ locked' = FALSE
    /\ UNCHANGED scan

StartUnlocked(c) ==              \* plausible bug: nothing serializes submissions
    /\ ~Busy(c)
    /\ GoTo(c, [NoJob EXCEPT !.pc = "reconcile"])
    /\ UNCHANGED <<journal, world, trouble, lost>>
\* payments.start(): a second submission is refused (STORAGE_BUSY) and changes
\* nothing.
Start(c) ==
    /\ ~Busy(c) /\ ~locked
    /\ locked' = TRUE
    /\ job' = [job EXCEPT ![c].pc = "reconcile"]
    /\ UNCHANGED <<journal, aborted, scan, world, trouble, lost>>

\* The journal closes what an earlier session left open.
Reconcile(c) ==
    /\ At(c, "reconcile") /\ c \notin aborted
    /\ attempts' = [s \in Step |-> [i \in DOMAIN attempts[s] |->
                      IF attempts[s][i] = "started" THEN "unknown" ELSE attempts[s][i]]]
    /\ lost' = {}
    /\ GoTo(c, [job[c] EXCEPT !.pc = "observe", !.step = 1])
    /\ UNCHANGED <<evidence, world, trouble>>

\* observeStep(): one coherent answer of the source, stored.
Observe(s) ==
    evidence' = [evidence EXCEPT
        ![s] = [state |-> ledger[s], tip |-> tip, of |-> Len(attempts[s])]]

\* The step with which the loop goes on behind step s: a mined one is passed
\* over.  e is the evidence.
GoOn(c, s, e) ==
    LET open == {t \in Step : t > s /\ e[t].state # "mined"}
    IN  IF open = {} THEN End(c)
        ELSE \E t \in open :
               /\ \A u \in open : t <= u
               /\ GoTo(c, [NoJob EXCEPT !.pc = "prepare", !.step = t])

\* observe(): every step in turn, then the loop.
ObserveAll(c) ==
    /\ At(c, "observe") /\ c \notin aborted
    /\ Observe(job[c].step)
    /\ IF job[c].step < LastStep THEN GoTo(c, [job[c] EXCEPT !.step = @ + 1])
                                 ELSE GoOn(c, 0, evidence')
    /\ UNCHANGED <<attempts, world, trouble, lost>>

HasChild(s) == \E t \in Step : s \in Parents[t]

NotObserved(c) ==                \* plausible bug: the evidence from before is good enough
    GoOn(c, job[c].step, evidence)
\* submitStep() has returned: a parent is observed before its children.
StepDone(c) ==
    IF HasChild(job[c].step) THEN GoTo(c, [job[c] EXCEPT !.pc = "parent"])
                             ELSE GoOn(c, job[c].step, evidence)

ObserveParent(c) ==
    /\ At(c, "parent") /\ c \notin aborted
    /\ Observe(job[c].step)
    /\ GoOn(c, job[c].step, evidence')
    /\ UNCHANGED <<attempts, world, trouble, lost>>

CheckOnceMore(c) ==              \* plausible bug: one refresh too many
    LET s == job[c].step
    IN  /\ At(c, "prepare") /\ c \notin aborted
        /\ IF scan = evidence[s].tip
             THEN IF evidence[s].state = "mined" THEN StepDone(c)
                  ELSE GoTo(c, [job[c] EXCEPT !.pc = "begin"])
             ELSE IF job[c].refreshes > MaxRefreshes THEN End(c)
                  ELSE GoTo(c, [job[c] EXCEPT !.pc = "refresh"])
        /\ UNCHANGED <<journal, world, trouble, lost>>
\* prepareSubmission(): the scan stands where the evidence was taken, or is
\* brought there, at most MaxRefreshes times.
Check(c) ==
    LET s == job[c].step
    IN  /\ At(c, "prepare") /\ c \notin aborted
        /\ IF scan = evidence[s].tip
             THEN IF evidence[s].state = "mined" THEN StepDone(c)
                  ELSE GoTo(c, [job[c] EXCEPT !.pc = "begin"])
             ELSE IF job[c].refreshes = MaxRefreshes THEN End(c)
                  ELSE GoTo(c, [job[c] EXCEPT !.pc = "refresh"])
        /\ UNCHANGED <<journal, world, trouble, lost>>

\* refreshForSubmission(): a scan that reaches the source's tip.
Refresh(c) ==
    /\ At(c, "refresh") /\ c \notin aborted
    /\ scan' = tip
    /\ job' = [job EXCEPT ![c].pc = "reobserve", ![c].refreshes = @ + 1]
    /\ UNCHANGED <<journal, locked, aborted, world, trouble, lost>>

Reobserve(c) ==
    /\ At(c, "reobserve") /\ c \notin aborted
    /\ Observe(job[c].step)
    /\ GoTo(c, [job[c] EXCEPT !.pc = "prepare"])
    /\ UNCHANGED <<attempts, world, trouble, lost>>

\* What the native journal asks of an attempt: none is open, and every parent is
\* in the evidence.  It may also ask for more.
Admitted(s) ==
    /\ Len(attempts[s]) < MaxAttempts[s]
    /\ \A p \in Parents[s] : evidence[p].state \in {"mempool", "mined"}

\* begin: the attempt is durable.  A begin that was already running when the
\* signal aborted rejects with a committed receipt, and its attempt is adopted.
Begin(c) ==
    LET s == job[c].step
    IN  /\ At(c, "begin") /\ Admitted(s)
        /\ attempts' = [attempts EXCEPT ![s] = Append(@, "started")]
        /\ GoTo(c, [job[c] EXCEPT !.pc = "dispatch", !.attempt = Len(attempts'[s])])
        /\ UNCHANGED <<evidence, world, trouble, lost>>

\* begin admits nothing without a word (null), which passes over to the next step.
NoAttempt(c) ==
    /\ At(c, "begin") /\ c \notin aborted
    /\ StepDone(c)
    /\ UNCHANGED <<journal, world, trouble, lost>>

\* broadcast(): the bytes leave, unless the signal has aborted.
Dispatch(c) ==
    LET j == job[c]
    IN  /\ At(c, "dispatch")
        /\ IF c \in aborted
             THEN GoTo(c, [j EXCEPT !.pc = "finish"]) /\ UNCHANGED flights
             ELSE /\ GoTo(c, [j EXCEPT !.pc = "await"])
                  /\ flights' = [flights EXCEPT ![j.step] =
                                   Append(@, [attempt |-> j.attempt, fate |-> "sent"])]
        /\ UNCHANGED <<journal, ledger, tip, trouble, lost>>

Fate(s, n) ==
    {flights[s][i].fate : i \in {k \in DOMAIN flights[s] : flights[s][k].attempt = n}}

\* The source's word for this attempt is the outcome.
Reply(c) ==
    LET j == job[c]
    IN  /\ At(c, "await")
        /\ \E outcome \in Fate(j.step, j.attempt) \ {"sent"} :
             GoTo(c, [j EXCEPT !.pc = "finish", !.outcome = outcome])
        /\ UNCHANGED <<journal, world, trouble, lost>>

NoReplyRejects(c) ==             \* plausible bug: a failed call reads as a rejection
    /\ At(c, "await")
    /\ GoTo(c, [job[c] EXCEPT !.pc = "finish", !.outcome = "rejected"])
    /\ UNCHANGED <<journal, world, trouble, lost>>
NoReplyResends(c) ==             \* plausible bug: a failed call is made again
    /\ At(c, "await")
    /\ GoTo(c, [job[c] EXCEPT !.pc = IF c \in aborted THEN "finish" ELSE "dispatch"])
    /\ UNCHANGED <<journal, world, trouble, lost>>
NoReplyUnlessFails(c) ==         \* plausible bug: the signal does not reach the wait
    /\ At(c, "await") /\ c \notin aborted
    /\ GoTo(c, [job[c] EXCEPT !.pc = "finish"])
    /\ UNCHANGED <<journal, world, trouble, lost>>
\* The call fails, its reply is not valid or says "unknown", or the signal aborts:
\* the outcome stays unknown, although the bytes may have arrived or may still
\* arrive.
NoReply(c) ==
    /\ At(c, "await")
    /\ GoTo(c, [job[c] EXCEPT !.pc = "finish"])
    /\ UNCHANGED <<journal, world, trouble, lost>>

\* finish: the outcome is durable.  An aborted submission throws only now.
Finish(c) ==
    LET j == job[c]
    IN  /\ At(c, "finish")
        /\ attempts' = [attempts EXCEPT ![j.step][j.attempt] = j.outcome]
        /\ IF c \in aborted THEN End(c) ELSE StepDone(c)
        /\ UNCHANGED <<evidence, world, trouble, lost>>

\* A call before the attempt rejects: the journal or the source fails, the scan does
\* not reach its target, the attempt is blocked, or the signal aborts.
Reject(c) ==
    /\ job[c].pc \in {"reconcile", "observe", "parent", "prepare", "refresh",
                      "reobserve", "begin"}
    /\ End(c)
    /\ UNCHANGED <<journal, world, trouble, lost>>

-----------------------------------------------------------------------------
(* The world *)

Abort(c) ==
    /\ Busy(c) /\ c \notin aborted
    /\ aborted' = aborted \cup {c}
    /\ UNCHANGED <<journal, locked, job, scan, world, trouble, lost>>

\* Another caller's sync().
Sync ==
    /\ scan # tip /\ scan' = tip
    /\ UNCHANGED <<journal, locked, job, aborted, world, trouble, lost>>

\* Bytes arrive, however late.  Nothing is accepted before its parents, and what is
\* known already may be acknowledged or rejected.
Arrive(s) ==
    /\ \E i \in DOMAIN flights[s] :
         /\ flights[s][i].fate = "sent"
         /\ \E word \in {"acknowledged", "rejected"} :
              /\ flights' = [flights EXCEPT ![s][i].fate = word]
              /\ ledger' = [ledger EXCEPT ![s] =
                              IF word = "acknowledged" /\ @ = "notSeen" THEN "mempool" ELSE @]
              /\ word = "acknowledged" =>
                   \A p \in Parents[s] : ledger[p] # "notSeen"
    /\ UNCHANGED <<journal, session, tip, trouble, lost>>

\* The chain grows, with or without one of the transactions.
Block ==
    /\ tip < MaxTip /\ tip' = tip + 1
    /\ \/ UNCHANGED ledger
       \/ \E s \in Step :
            /\ ledger[s] = "mempool"
            /\ \A p \in Parents[s] : ledger[p] = "mined"
            /\ ledger' = [ledger EXCEPT ![s] = "mined"]
    /\ UNCHANGED <<journal, session, flights, trouble, lost>>

Trouble == trouble < MaxTrouble /\ trouble' = trouble + 1

\* A transaction leaves the pool, or a reorganization takes it from the chain; what
\* depends on it goes with it.
Forget(s) ==
    /\ Trouble
    /\ ledger[s] # "notSeen"
    /\ \A t \in Step : s \in Parents[t] => ledger[t] = "notSeen"
    /\ ledger[s] = "mined" => tip < MaxTip
    /\ tip' = IF ledger[s] = "mined" THEN tip + 1 ELSE tip
    /\ ledger' = [ledger EXCEPT ![s] = "notSeen"]
    /\ UNCHANGED <<journal, session, flights, lost>>

\* A write of the journal rejects and may have committed all the same: nobody
\* settles the attempt.
WriteFails(c) ==
    LET s == job[c].step
    IN  /\ Trouble
        /\ \/ /\ At(c, "begin") /\ Admitted(s)
              /\ attempts' = [attempts EXCEPT ![s] = Append(@, "started")]
           \/ At(c, "finish") /\ UNCHANGED attempts
        /\ lost' = lost \cup {s}
        /\ End(c)
        /\ UNCHANGED <<evidence, world>>

IsOpen(s) == \E i \in DOMAIN attempts[s] : attempts[s][i] = "started"

\* The session ends without a word.  The scan is in the same database.
Crash ==
    /\ Trouble
    /\ locked' = FALSE /\ aborted' = {}
    /\ job' = [c \in Caller |-> NoJob]
    /\ lost' = lost \cup {s \in Step : IsOpen(s)}
    /\ UNCHANGED <<journal, scan, world>>

Progress(c) ==
    \/ Reconcile(c) \/ ObserveAll(c) \/ ObserveParent(c) \/ Check(c) \/ Refresh(c)
    \/ Reobserve(c) \/ Begin(c) \/ NoAttempt(c) \/ Dispatch(c) \/ Finish(c)

Next ==
    \/ \E c \in Caller : \/ Start(c) \/ Progress(c) \/ Reply(c) \/ NoReply(c)
                         \/ Reject(c) \/ Abort(c) \/ WriteFails(c)
    \/ \E s \in Step : Arrive(s) \/ Forget(s)
    \/ Sync \/ Block \/ Crash

Spec == Init /\ [][Next]_vars

\* Journal calls return, and what waits for a source listens to its signal.  The
\* source itself need not answer.
Listens(c) == c \in aborted /\ (Dispatch(c) \/ NoReply(c) \/ Finish(c) \/ Reject(c))
FairSpec == Spec /\ \A c \in Caller : WF_vars(Listens(c))

-----------------------------------------------------------------------------
(* Properties *)

Outcome == {"started", "unknown", "acknowledged", "rejected"}

\* The journal, the session and the world keep their types.
TypeOK ==
    /\ \A s \in Step :
         /\ attempts[s] \in Seq(Outcome) /\ Len(attempts[s]) <= MaxAttempts[s]
         /\ flights[s] \in Seq([attempt : 1..MaxAttempts[s],
                                fate : {"sent", "acknowledged", "rejected"}])
    /\ evidence \in [Step -> [state : {"none", "notSeen", "mempool", "mined"},
                              tip : 0..MaxTip, of : Nat]]
    /\ locked \in BOOLEAN /\ aborted \subseteq {c \in Caller : Busy(c)}
    /\ job \in [Caller -> [pc : {"idle", "reconcile", "observe", "parent", "prepare",
                                 "refresh", "reobserve", "begin", "dispatch", "await",
                                 "finish"},
                           step : 0..LastStep, attempt : Nat,
                           refreshes : 0..MaxRefreshes, outcome : Outcome]]
    /\ scan \in 0..MaxTip /\ tip \in 0..MaxTip
    /\ ledger \in [Step -> {"notSeen", "mempool", "mined"}]
    /\ trouble \in 0..MaxTrouble /\ lost \subseteq Step

\* A transmission belongs to a durable attempt, and an attempt transmits once:
\* what the journal does not know of has not been sent.
OneTransmission ==
    \A s \in Step : \A i \in DOMAIN flights[s] :
        /\ flights[s][i].attempt \in DOMAIN attempts[s]
        /\ \A k \in DOMAIN flights[s] : k # i => flights[s][k].attempt # flights[s][i].attempt

\* The journal is sure only of what the source said of this very attempt: what was
\* accepted is never recorded as rejected, however late it arrived, whoever aborted.
\* And it is unsure only for a reason: an attempt is left open by a failed write or
\* a crash, never by an abort.
OutcomeHonest ==
    \A s \in Step :
        /\ \A n \in DOMAIN attempts[s] :
              attempts[s][n] \in {"acknowledged", "rejected"} => attempts[s][n] \in Fate(s, n)
        /\ IsOpen(s) =>
              \/ s \in lost
              \/ \E c \in Caller : job[c].step = s /\ job[c].pc \in {"dispatch", "await", "finish"}

\* A settled attempt keeps its outcome, and while an attempt is open no other one of
\* the operation begins: submissions do not overlap.
Serialized ==
    [][\A s \in Step : \A n \in DOMAIN attempts[s] :
         /\ attempts[s][n] # "started" => attempts'[s][n] = attempts[s][n]
         /\ attempts[s][n] = "started" =>
              \A t \in Step : DOMAIN attempts'[t] = DOMAIN attempts[t]]_vars

Begun(s) == Len(attempts'[s]) > Len(attempts[s])

\* An attempt is admitted on evidence of a chain that the wallet has scanned, and a
\* child on evidence that is newer than its parent's last attempt.
EvidenceFirst ==
    [][\A s \in Step : Begun(s) =>
         /\ evidence[s].tip <= scan
         /\ \A p \in Parents[s] : evidence[p].of = Len(attempts[p])]_vars

\* An abort, or close(), ends a submission although the source never answers.
AbortEnds == \A c \in Caller : c \in aborted ~> ~Busy(c)
=============================================================================
