---------------------- MODULE PaymentSubmissionProofs ----------------------
(***************************************************************************)
(* Proofs about PaymentSubmission: for any number of callers, steps and    *)
(* attempts, and whatever is aborted, lost, late or crashes, a             *)
(* transmission belongs to one durable attempt, outcomes are honest and    *)
(* final, and an attempt begins on evidence that is new enough.            *)
(*                                                                         *)
(* The argument is about who may write.  The lock has one holder, and past *)
(* its reconciliation nothing in the journal is open but what that holder  *)
(* itself has begun (Lock, Owned); so the attempt it dispatches is new,    *)
(* has not been sent, and is the one it settles (Pending).  For the same   *)
(* reason what the holder has observed stays true of the journal until it  *)
(* begins (Informed).                                                      *)
(***************************************************************************)
EXTENDS PaymentSubmission, TLAPS

Settling == {"dispatch", "await", "finish"}
Pc == {"idle", "reconcile", "observe", "parent", "prepare", "refresh", "reobserve", "begin"}
      \cup Settling
JobSet == [pc : Pc, step : 0..LastStep, attempt : Nat, refreshes : Nat,
           outcome : {"unknown", "acknowledged", "rejected"}]
FlightSet == [attempt : Nat, fate : {"sent", "acknowledged", "rejected"}]

Types ==
    /\ attempts \in [Step -> Seq(Outcome)]
    /\ flights \in [Step -> Seq(FlightSet)]
    /\ job \in [Caller -> JobSet]
    /\ lost \subseteq Step

\* The lock has one holder, and past its reconciliation no write was lost.
Lock ==
    \A c \in Caller : Busy(c) =>
        /\ locked
        /\ \A d \in Caller : Busy(d) => d = c
        /\ ~At(c, "reconcile") => lost = {}

\* A submission works on a step, and only when it has settled an attempt does it know more
\* than nothing of it.
Unsettled ==
    \A c \in Caller :
        /\ job[c].pc \notin {"finish", "parent"} => job[c].outcome = "unknown"
        /\ job[c].pc \notin {"idle", "reconcile"} => job[c].step \in Step

\* What a submission settles is open and its own: it is sent at most once, and its outcome
\* is what the source said of it.
Unsent(s, n) == \A i \in DOMAIN flights[s] : flights[s][i].attempt # n
Pending ==
    \A c \in Caller : job[c].pc \in Settling =>
        LET s == job[c].step
            n == job[c].attempt
        IN  /\ s \in Step /\ n \in DOMAIN attempts[s] /\ attempts[s][n] = "started"
            /\ At(c, "dispatch") => Unsent(s, n)
            /\ job[c].outcome # "unknown" => job[c].outcome \in Fate(s, n)

Settles(c, s, n) == job[c].pc \in Settling /\ job[c].step = s /\ job[c].attempt = n

\* An attempt is open for a reason.
Owned ==
    \A s \in Step : \A n \in DOMAIN attempts[s] :
        attempts[s][n] = "started" => s \in lost \/ \E c \in Caller : Settles(c, s, n)

Honest ==
    \A s \in Step : \A n \in DOMAIN attempts[s] :
        attempts[s][n] \in {"acknowledged", "rejected"} => attempts[s][n] \in Fate(s, n)

IInv == Types /\ Lock /\ Unsettled /\ Pending /\ Owned /\ Honest /\ OneTransmission

-----------------------------------------------------------------------------
(* Moves of one submission that leave the journal's attempts alone *)

\* The submission of c goes on with job j, which has nothing to settle.
Goes(c, j) ==
    /\ j \in JobSet
    /\ j.pc \notin Settling \cup {"reconcile"}
    /\ j.pc # "parent" => j.outcome = "unknown"
    /\ j.pc # "idle" => j.step \in Step
    /\ job' = [job EXCEPT ![c] = j]
    /\ j.pc # "idle" => locked' = locked

LEMMA StepType == Step \subseteq 0..LastStep /\ LastStep \in Nat
BY StepAssumption DEF Step

LEMMA NoJobType == NoJob \in JobSet /\ NoJob.pc = "idle" /\ NoJob.outcome = "unknown"
BY StepAssumption DEF NoJob, JobSet, Pc, Settling

\* End() and GoOn(), which end the way of a step, and StepDone() before them.
LEMMA EndGoes ==
    ASSUME NEW c \in Caller, End(c)
    PROVE  \E j \in JobSet : Goes(c, j)
<1>1. Goes(c, NoJob)
  BY NoJobType DEF End, Goes, NoJob, Settling
<1> QED
  BY <1>1, NoJobType

LEMMA GoOnGoes ==
    ASSUME NEW c \in Caller, NEW s, NEW e, GoOn(c, s, e)
    PROVE  \E j \in JobSet : Goes(c, j)
<1> DEFINE open == {t \in Step : t > s /\ e[t].state # "mined"}
<1>1. CASE open = {}
  BY <1>1, EndGoes DEF GoOn
<1>2. CASE open # {}
  <2>1. PICK t \in open : GoTo(c, [NoJob EXCEPT !.pc = "prepare", !.step = t])
    BY <1>2 DEF GoOn
  <2> DEFINE j == [NoJob EXCEPT !.pc = "prepare", !.step = t]
  <2>2. j \in JobSet
    BY StepType DEF NoJob, JobSet, Pc
  <2>3. Goes(c, j)
    BY <2>1, <2>2 DEF Goes, GoTo, NoJob, Settling
  <2> QED
    BY <2>2, <2>3
<1> QED
  BY <1>1, <1>2

LEMMA StepDoneGoes ==
    ASSUME Types, NEW c \in Caller, StepDone(c)
    PROVE  \E j \in JobSet : Goes(c, j)
<1>1. CASE HasChild(job[c].step)
  <2> DEFINE j == [job[c] EXCEPT !.pc = "parent"]
  <2>1. j \in JobSet
    BY DEF Types, JobSet, Pc
  <2>2. Goes(c, j)
    BY <1>1, <2>1, ParentsAssumption DEF StepDone, HasChild, Goes, GoTo, Settling, JobSet, Types
  <2> QED
    BY <2>1, <2>2
<1>2. CASE ~HasChild(job[c].step)
  BY <1>2, GoOnGoes DEF StepDone
<1> QED
  BY <1>1, <1>2

\* What such a move does to the parts of the invariant that are about jobs, when c was not
\* settling an attempt.
LEMMA Quiet ==
    ASSUME IInv, NEW c \in Caller, NEW j \in JobSet, Goes(c, j),
           Busy(c), job[c].pc \notin Settling, At(c, "reconcile") => j.pc = "idle",
           attempts' = attempts, flights' = flights, lost' = lost
    PROVE  IInv'
<1>1. /\ job'[c] = j
      /\ \A d \in Caller : d # c => job'[d] = job[d] /\ job[d].pc = "idle"
      /\ job' \in [Caller -> JobSet]
  BY DEF IInv, Types, Goes, Lock, Busy
<1>2. Types'
  BY <1>1 DEF IInv, Types
<1>3. Lock'
  BY <1>1 DEF IInv, Lock, Goes, Busy, At
<1>4. Unsettled'
  BY <1>1 DEF IInv, Unsettled, Goes
<1>5. \A d \in Caller : job'[d].pc \notin Settling
  BY <1>1 DEF Goes, Settling
<1>6. Pending'
  BY <1>5 DEF Pending
<1>7. \A d \in Caller : job[d].pc \notin Settling
  BY <1>1 DEF Settling
<1>8. Owned'
  BY <1>7 DEF IInv, Owned, Settles
<1>9. Honest' /\ OneTransmission'
  BY DEF IInv, Honest, OneTransmission, Fate
<1> QED
  BY <1>2, <1>3, <1>4, <1>6, <1>8, <1>9 DEF IInv

-----------------------------------------------------------------------------
(* The actions, one lemma for each or for those that are alike *)

LEMMA Initially == Init => IInv
<1> SUFFICES ASSUME Init PROVE IInv
  OBVIOUS
<1>1. Types
  BY NoJobType DEF Init, Types
<1>2. \A c \in Caller : job[c].pc = "idle" /\ job[c].outcome = "unknown"
  BY NoJobType DEF Init
<1>3. Lock /\ Unsettled /\ Pending
  BY <1>2 DEF Lock, Unsettled, Pending, Busy, Settling
<1>4. Owned /\ Honest /\ OneTransmission
  BY DEF Init, Owned, Honest, OneTransmission
<1> QED
  BY <1>1, <1>3, <1>4 DEF IInv

\* What does not touch the journal's attempts, the jobs or what was sent.
LEMMA Elsewhere ==
    ASSUME IInv, UNCHANGED <<attempts, flights, job, locked, lost>>
    PROVE  IInv'
<1>1. Types' /\ Unsettled'
  BY DEF IInv, Types, Unsettled
<1>2. Lock'
  BY DEF IInv, Lock, Busy, At
<1>3. Pending'
  BY DEF IInv, Pending, Unsent, Fate, At
<1>4. Owned'
  BY DEF IInv, Owned, Settles
<1>5. Honest' /\ OneTransmission'
  BY DEF IInv, Honest, OneTransmission, Fate
<1> QED
  BY <1>1, <1>2, <1>3, <1>4, <1>5 DEF IInv

LEMMA WorldStep ==
    ASSUME IInv, Sync \/ Block \/ (\E s \in Step : Forget(s)) \/ \E c \in Caller : Abort(c)
    PROVE  IInv'
BY Elsewhere DEF Sync, Block, Forget, Abort, journal, session, world

LEMMA StartStep ==
    ASSUME IInv, NEW c \in Caller, Start(c)
    PROVE  IInv'
<1>1. \A d \in Caller : job[d].pc = "idle"
  BY DEF Start, IInv, Lock, Busy
<1>2. /\ attempts' = attempts /\ flights' = flights /\ lost' = lost /\ locked'
      /\ job' = [job EXCEPT ![c].pc = "reconcile"]
  BY DEF Start, journal, world
<1>3. /\ job' \in [Caller -> JobSet]
      /\ job'[c].pc = "reconcile" /\ job'[c].outcome = job[c].outcome
      /\ \A d \in Caller : d # c => job'[d] = job[d]
  BY <1>2 DEF IInv, Types, JobSet, Pc
<1>4. Types'
  BY <1>2, <1>3 DEF IInv, Types
<1>5. Lock'
  BY <1>1, <1>2, <1>3 DEF Lock, Busy, At
<1>6. Unsettled'
  BY <1>1, <1>3 DEF IInv, Unsettled
<1>7. Pending'
  BY <1>1, <1>3 DEF Pending, Settling
<1>8. Owned'
  BY <1>1, <1>2 DEF IInv, Owned, Settles, Settling
<1>9. Honest' /\ OneTransmission'
  BY <1>2 DEF IInv, Honest, OneTransmission, Fate
<1> QED
  BY <1>4, <1>5, <1>6, <1>7, <1>8, <1>9 DEF IInv

\* Nothing is open after the reconciliation, and no attempt is forgotten.
Closed(o) == IF o = "started" THEN "unknown" ELSE o

LEMMA Reconciled ==
    ASSUME IInv, NEW c \in Caller, Reconcile(c), NEW s \in Step
    PROVE  /\ attempts'[s] \in Seq(Outcome)
           /\ DOMAIN attempts'[s] = DOMAIN attempts[s]
           /\ \A n \in DOMAIN attempts[s] : attempts'[s][n] = Closed(attempts[s][n])
<1>1. attempts[s] \in Seq(Outcome)
  BY DEF IInv, Types
<1>2. attempts' = [t \in Step |-> [n \in DOMAIN attempts[t] |-> Closed(attempts[t][n])]]
  BY DEF Reconcile, Closed
<1>3. attempts'[s] = [n \in 1..Len(attempts[s]) |-> Closed(attempts[s][n])]
  BY <1>1, <1>2
<1>4. \A n \in 1..Len(attempts[s]) : Closed(attempts[s][n]) \in Outcome
  BY <1>1 DEF Outcome, Closed
<1> QED
  BY <1>1, <1>3, <1>4

LEMMA ReconcileStep ==
    ASSUME IInv, NEW c \in Caller, Reconcile(c)
    PROVE  IInv'
<1>1. /\ \A d \in Caller : d # c => job[d].pc = "idle"
      /\ Busy(c) /\ locked /\ job[c].outcome = "unknown"
  BY DEF Reconcile, At, IInv, Lock, Busy, Unsettled
<1>2. /\ attempts' = [s \in Step |-> attempts'[s]]
      /\ flights' = flights /\ lost' = {} /\ locked' = locked
      /\ job' = [job EXCEPT ![c] = [job[c] EXCEPT !.pc = "observe", !.step = 1]]
  BY DEF Reconcile, GoTo, world
<1>3. \A s \in Step : /\ attempts'[s] \in Seq(Outcome)
                       /\ DOMAIN attempts'[s] = DOMAIN attempts[s]
                       /\ \A n \in DOMAIN attempts[s] : attempts'[s][n] = Closed(attempts[s][n])
  BY Reconciled
<1>4. /\ job' \in [Caller -> JobSet]
      /\ job'[c].pc = "observe" /\ job'[c].outcome = "unknown" /\ job'[c].step \in Step
      /\ \A d \in Caller : d # c => job'[d] = job[d]
  <2> DEFINE j == [job[c] EXCEPT !.pc = "observe", !.step = 1]
  <2>1. job[c] \in JobSet /\ 1 \in 0..LastStep /\ 1 \in Step
    BY StepAssumption DEF IInv, Types, Step
  <2>2. j \in JobSet /\ j.pc = "observe" /\ j.outcome = "unknown" /\ j.step \in Step
    BY <1>1, <2>1 DEF JobSet, Pc
  <2> QED
    BY <1>2, <2>2 DEF IInv, Types
<1>5. Types'
  BY <1>2, <1>3, <1>4 DEF IInv, Types
<1>6. Lock'
  BY <1>1, <1>2, <1>4 DEF Lock, Busy, At
<1>7. Unsettled'
  BY <1>1, <1>4 DEF IInv, Unsettled
<1>8. Pending'
  BY <1>1, <1>4 DEF Pending, Settling
<1>9. Owned'
  BY <1>3 DEF Owned, Closed
<1>10. Honest'
  BY <1>2, <1>3 DEF IInv, Honest, Fate, Closed
<1>11. OneTransmission'
  BY <1>2, <1>3 DEF IInv, OneTransmission
<1> QED
  BY <1>5, <1>6, <1>7, <1>8, <1>9, <1>10, <1>11 DEF IInv

LEMMA ObserveStep ==
    ASSUME IInv, NEW c \in Caller, ObserveAll(c) \/ ObserveParent(c) \/ Reobserve(c)
    PROVE  IInv'
<1>1. /\ attempts' = attempts /\ flights' = flights /\ lost' = lost
      /\ Busy(c) /\ job[c].pc \notin Settling /\ ~At(c, "reconcile")
  BY DEF ObserveAll, ObserveParent, Reobserve, At, world, Busy, Settling
<1>2. \E j \in JobSet : Goes(c, j)
  <2>1. CASE ObserveAll(c) /\ job[c].step < LastStep
    <3> DEFINE j == [job[c] EXCEPT !.step = job[c].step + 1]
    <3>1. GoTo(c, j)
      BY <2>1 DEF ObserveAll
    <3>2. /\ job[c] \in JobSet /\ job[c].pc = "observe" /\ job[c].outcome = "unknown"
          /\ job[c].step \in 0..LastStep /\ LastStep \in Nat
      BY <2>1, StepType DEF ObserveAll, At, IInv, Types, JobSet, Unsettled
    <3>3. job[c].step + 1 \in 0..LastStep /\ job[c].step + 1 \in Step
      BY <2>1, <3>2 DEF Step
    <3>4. j \in JobSet /\ j.pc = "observe" /\ j.outcome = "unknown" /\ j.step \in Step
      BY <3>2, <3>3 DEF JobSet
    <3> QED
      BY <3>1, <3>4 DEF Goes, GoTo, Settling
  <2>2. CASE ObserveAll(c) /\ ~(job[c].step < LastStep)
    BY <2>2, GoOnGoes DEF ObserveAll
  <2>3. CASE ObserveParent(c)
    BY <2>3, GoOnGoes DEF ObserveParent
  <2>4. CASE Reobserve(c)
    <3> DEFINE j == [job[c] EXCEPT !.pc = "prepare"]
    <3>1. GoTo(c, j)
      BY <2>4 DEF Reobserve
    <3>2. j \in JobSet /\ j.pc = "prepare" /\ j.outcome = "unknown" /\ j.step \in Step
      BY <2>4 DEF Reobserve, At, IInv, Types, JobSet, Pc, Unsettled
    <3> QED
      BY <3>1, <3>2 DEF Goes, GoTo, Settling
  <2> QED
    BY <2>1, <2>2, <2>3, <2>4
<1> QED
  BY <1>1, <1>2, Quiet

LEMMA PrepareStep ==
    ASSUME IInv, NEW c \in Caller, Check(c) \/ Refresh(c) \/ NoAttempt(c)
    PROVE  IInv'
<1>1. /\ attempts' = attempts /\ flights' = flights /\ lost' = lost
      /\ Busy(c) /\ job[c].pc \notin Settling /\ ~At(c, "reconcile")
      /\ job[c].outcome = "unknown" /\ job[c].step \in Step
  BY DEF Check, Refresh, NoAttempt, At, journal, world, Busy, Settling, IInv, Unsettled
<1>2. \E j \in JobSet : Goes(c, j)
  <2>1. CASE StepDone(c)
    BY <2>1, StepDoneGoes DEF IInv
  <2>2. CASE End(c)
    BY <2>2, EndGoes
  <2>3. ASSUME NEW pc \in {"begin", "refresh"}, GoTo(c, [job[c] EXCEPT !.pc = pc])
        PROVE  \E j \in JobSet : Goes(c, j)
    <3> DEFINE j == [job[c] EXCEPT !.pc = pc]
    <3>1. j \in JobSet /\ j.pc = pc /\ j.outcome = "unknown" /\ j.step \in Step
      BY <1>1 DEF IInv, Types, JobSet, Pc
    <3> QED
      BY <2>3, <3>1 DEF Goes, GoTo, Settling
  <2>4. CASE Refresh(c)
    <3> DEFINE j == [job[c] EXCEPT !.pc = "reobserve", !.refreshes = job[c].refreshes + 1]
    <3>1. job' = [job EXCEPT ![c] = j] /\ locked' = locked
      BY <2>4 DEF Refresh, IInv, Types, JobSet
    <3>2. job[c] \in JobSet /\ job[c].refreshes + 1 \in Nat
      BY DEF IInv, Types, JobSet
    <3>3. j \in JobSet /\ j.pc = "reobserve" /\ j.outcome = "unknown" /\ j.step \in Step
      BY <1>1, <3>2 DEF JobSet, Pc
    <3> QED
      BY <3>1, <3>3 DEF Goes, Settling
  <2> QED
    BY <2>1, <2>2, <2>3, <2>4 DEF Check, NoAttempt
<1> QED
  BY <1>1, <1>2, Quiet

LEMMA RejectStep ==
    ASSUME IInv, NEW c \in Caller, Reject(c)
    PROVE  IInv'
<1>1. Goes(c, NoJob)
  BY NoJobType DEF Reject, End, Goes, NoJob, Settling
<1>2. /\ attempts' = attempts /\ flights' = flights /\ lost' = lost
      /\ Busy(c) /\ job[c].pc \notin Settling
  BY DEF Reject, journal, world, Busy, Settling
<1> QED
  BY <1>1, <1>2, NoJobType, Quiet

-----------------------------------------------------------------------------
(* What was sent *)

\* The attempt of c settles as j says: finish, or the loss of the session's memory of it.
LEMMA Alone ==
    ASSUME IInv, NEW c \in Caller, Busy(c)
    PROVE  /\ \A d \in Caller : d # c => job[d].pc = "idle"
           /\ ~At(c, "reconcile") => lost = {}
           /\ locked
           /\ job[c] \in JobSet
BY DEF IInv, Lock, Busy, Types

\* Bytes that arrive change no attempt's number, and only what was open.
LEMMA ArriveStep ==
    ASSUME IInv, NEW s \in Step, Arrive(s)
    PROVE  IInv'
<1>1. PICK i \in DOMAIN flights[s], word \in {"acknowledged", "rejected"} :
         /\ flights[s][i].fate = "sent"
         /\ flights' = [flights EXCEPT ![s][i].fate = word]
  BY DEF Arrive
<1>2. attempts' = attempts /\ job' = job /\ locked' = locked /\ lost' = lost
  BY DEF Arrive, journal, session
<1>3. flights \in [Step -> Seq(FlightSet)]
  BY DEF IInv, Types
<1> DEFINE sent == [flights[s][i] EXCEPT !.fate = word]
<1>4. sent \in FlightSet /\ sent.attempt = flights[s][i].attempt /\ sent.fate = word
  <2>1. flights[s][i] \in FlightSet
    BY <1>3
  <2> QED
    BY <2>1 DEF FlightSet
<1>5. flights' = [flights EXCEPT ![s] = [flights[s] EXCEPT ![i] = sent]]
  BY <1>1, <1>3
<1>6. /\ flights' \in [Step -> Seq(FlightSet)]
      /\ flights'[s] = [flights[s] EXCEPT ![i] = sent]
      /\ \A t \in Step : t # s => flights'[t] = flights[t]
  <2>1. flights[s] \in Seq(FlightSet) /\ i \in 1..Len(flights[s])
    BY <1>3
  <2>2. [flights[s] EXCEPT ![i] = sent] \in Seq(FlightSet)
    BY <1>4, <2>1
  <2> QED
    BY <1>3, <1>5, <2>2
<1>7. \A t \in Step :
         /\ DOMAIN flights'[t] = DOMAIN flights[t]
         /\ \A k \in DOMAIN flights[t] :
              /\ flights'[t][k].attempt = flights[t][k].attempt
              /\ flights[t][k].fate # "sent" => flights'[t][k].fate = flights[t][k].fate
  BY <1>1, <1>3, <1>4, <1>6
<1>8. \A t \in Step, n \in Nat : \A o \in Fate(t, n) : o # "sent" => o \in Fate(t, n)'
  BY <1>7 DEF Fate
<1>9. Types'
  BY <1>2, <1>6 DEF IInv, Types
<1>10. Lock' /\ Unsettled'
  BY <1>2 DEF IInv, Lock, Unsettled, Busy, At
<1>11. Pending'
  <2>1. SUFFICES ASSUME NEW c \in Caller, job[c].pc \in Settling,
                        NEW t \in Step, NEW n \in Nat, job[c].step = t, job[c].attempt = n,
                        n \in DOMAIN attempts[t], attempts[t][n] = "started",
                        At(c, "dispatch") => Unsent(t, n),
                        job[c].outcome # "unknown" => job[c].outcome \in Fate(t, n)
                 PROVE  /\ At(c, "dispatch") => Unsent(t, n)'
                        /\ job[c].outcome # "unknown" => job[c].outcome \in Fate(t, n)'
    BY <1>2 DEF IInv, Pending, Types, JobSet, At
  <2>2. At(c, "dispatch") => Unsent(t, n)'
    BY <1>7, <2>1 DEF Unsent
  <2>3. job[c].outcome # "sent"
    BY DEF IInv, Types, JobSet
  <2> QED
    BY <1>8, <2>1, <2>2, <2>3
<1>12. Owned'
  BY <1>2 DEF IInv, Owned, Settles
<1>13. Honest'
  <2>1. \A t \in Step : \A n \in DOMAIN attempts[t] : n \in Nat
    BY DEF IInv, Types
  <2> QED
    BY <1>2, <1>8, <2>1 DEF IInv, Honest
<1>14. OneTransmission'
  BY <1>2, <1>7 DEF IInv, OneTransmission
<1> QED
  BY <1>9, <1>10, <1>11, <1>12, <1>13, <1>14 DEF IInv

\* The attempt of c leaves, or is settled unsent: it was not sent before.
LEMMA DispatchStep ==
    ASSUME IInv, NEW c \in Caller, Dispatch(c)
    PROVE  IInv'
<1> DEFINE s == job[c].step
           n == job[c].attempt
<1>1. /\ job[c].pc = "dispatch" /\ Busy(c) /\ job[c].outcome = "unknown"
      /\ \A d \in Caller : d # c => job[d].pc = "idle"
      /\ job[c] \in JobSet /\ locked /\ lost = {}
  BY Alone DEF Dispatch, At, Busy, IInv, Unsettled
<1>2. s \in Step /\ n \in DOMAIN attempts[s] /\ attempts[s][n] = "started" /\ Unsent(s, n)
  BY <1>1 DEF IInv, Pending, At, Settling
<1>3. attempts' = attempts /\ lost' = lost /\ locked' = locked
  BY DEF Dispatch, journal, GoTo
<1>4. PICK pc \in {"finish", "await"} : job' = [job EXCEPT ![c] = [job[c] EXCEPT !.pc = pc]]
  BY DEF Dispatch, GoTo
<1>5. /\ job'[c].pc = pc /\ job'[c].step = s /\ job'[c].attempt = n
      /\ job'[c].outcome = "unknown" /\ job' \in [Caller -> JobSet]
      /\ \A d \in Caller : d # c => job'[d] = job[d]
  BY <1>1, <1>4 DEF IInv, Types, JobSet, Pc, Settling
<1>6. /\ flights' \in [Step -> Seq(FlightSet)]
      /\ \A t \in Step :
           /\ DOMAIN flights[t] \subseteq DOMAIN flights'[t]
           /\ \A k \in DOMAIN flights[t] : flights'[t][k] = flights[t][k]
           /\ \A k \in DOMAIN flights'[t] \ DOMAIN flights[t] :
                /\ t = s /\ k = Len(flights[s]) + 1
                /\ flights'[t][k].attempt = n
  <2>1. flights \in [Step -> Seq(FlightSet)]
    BY DEF IInv, Types
  <2>2. CASE flights' = flights
    BY <2>1, <2>2
  <2>3. CASE flights' = [flights EXCEPT ![s] = Append(@, [attempt |-> n, fate |-> "sent"])]
    <3> DEFINE f == [attempt |-> n, fate |-> "sent"]
    <3>1. f \in FlightSet /\ f.attempt = n
      BY <1>1 DEF FlightSet, JobSet
    <3>2. /\ flights' \in [Step -> Seq(FlightSet)]
          /\ flights'[s] = Append(flights[s], f)
          /\ \A t \in Step : t # s => flights'[t] = flights[t]
      BY <1>2, <2>1, <2>3, <3>1
    <3>3. /\ DOMAIN flights'[s] = DOMAIN flights[s] \cup {Len(flights[s]) + 1}
          /\ \A k \in DOMAIN flights[s] : flights'[s][k] = flights[s][k]
          /\ flights'[s][Len(flights[s]) + 1] = f
      BY <1>2, <2>1, <3>1, <3>2
    <3> QED
      BY <3>1, <3>2, <3>3
  <2> QED
    BY <2>2, <2>3 DEF Dispatch
<1>7. \A t \in Step, m \in Nat : Fate(t, m) \subseteq Fate(t, m)'
  BY <1>6 DEF Fate
<1>8. Types'
  BY <1>3, <1>5, <1>6 DEF IInv, Types
<1>9. Lock'
  BY <1>1, <1>3, <1>5 DEF Lock, Busy, At
<1>10. Unsettled'
  BY <1>1, <1>5 DEF IInv, Unsettled
<1>11. Pending'
  BY <1>1, <1>2, <1>3, <1>4, <1>5 DEF Pending, At, Settling
<1>12. Owned'
  <2>1. \A t \in Step, m \in Nat : Settles(c, t, m) => Settles(c, t, m)'
    BY <1>1, <1>5 DEF Settles, Settling
  <2>2. \A t \in Step : \A m \in DOMAIN attempts[t] : m \in Nat
    BY DEF IInv, Types
  <2>3. \A d \in Caller, t \in Step, m \in Nat : Settles(d, t, m) => d = c
    BY <1>1 DEF Settles, Settling
  <2> QED
    BY <1>3, <2>1, <2>2, <2>3 DEF IInv, Owned
<1>13. Honest'
  <2>1. \A t \in Step : \A m \in DOMAIN attempts[t] : m \in Nat
    BY DEF IInv, Types
  <2> QED
    BY <1>3, <1>7, <2>1 DEF IInv, Honest
<1>14. OneTransmission'
  BY <1>2, <1>3, <1>6 DEF IInv, OneTransmission, Unsent
<1> QED
  BY <1>8, <1>9, <1>10, <1>11, <1>12, <1>13, <1>14 DEF IInv

\* The submission of c learns the outcome of its attempt, or that it will not.
LEMMA OutcomeStep ==
    ASSUME IInv, NEW c \in Caller, At(c, "await"),
           NEW o \in {"unknown", "acknowledged", "rejected"},
           o # "unknown" => o \in Fate(job[c].step, job[c].attempt),
           job' = [job EXCEPT ![c] = [job[c] EXCEPT !.pc = "finish", !.outcome = o]],
           UNCHANGED <<attempts, flights, lost, locked>>
    PROVE  IInv'
<1> DEFINE s == job[c].step
           n == job[c].attempt
<1>1. /\ Busy(c) /\ locked /\ lost = {} /\ job[c] \in JobSet
      /\ \A d \in Caller : d # c => job[d].pc = "idle"
  BY Alone DEF At, Busy
<1>2. s \in Step /\ n \in DOMAIN attempts[s] /\ attempts[s][n] = "started"
  BY <1>1 DEF IInv, Pending, At, Settling
<1>3. /\ job'[c].pc = "finish" /\ job'[c].step = s /\ job'[c].attempt = n
      /\ job'[c].outcome = o /\ job' \in [Caller -> JobSet]
      /\ \A d \in Caller : d # c => job'[d] = job[d]
  BY <1>1 DEF IInv, Types, JobSet, Pc, Settling
<1>4. Types'
  BY <1>3 DEF IInv, Types
<1>5. Lock'
  BY <1>1, <1>3 DEF Lock, Busy, At
<1>6. Unsettled'
  BY <1>1, <1>2, <1>3 DEF IInv, Unsettled
<1>7. Pending'
  BY <1>1, <1>2, <1>3 DEF Pending, At, Settling, Fate
<1>8. Owned'
  <2>1. \A t \in Step, m \in Nat : Settles(c, t, m) => Settles(c, t, m)'
    BY <1>1, <1>3 DEF Settles, Settling
  <2>2. \A t \in Step : \A m \in DOMAIN attempts[t] : m \in Nat
    BY DEF IInv, Types
  <2>3. \A d \in Caller, t \in Step, m \in Nat : Settles(d, t, m) => d = c
    BY <1>1 DEF Settles, Settling
  <2> QED
    BY <2>1, <2>2, <2>3 DEF IInv, Owned
<1>9. Honest' /\ OneTransmission'
  BY DEF IInv, Honest, OneTransmission, Fate
<1> QED
  BY <1>4, <1>5, <1>6, <1>7, <1>8, <1>9 DEF IInv

LEMMA ReplyStep ==
    ASSUME IInv, NEW c \in Caller, Reply(c) \/ NoReply(c)
    PROVE  IInv'
<1>1. UNCHANGED <<attempts, flights, lost, locked>> /\ At(c, "await")
  BY DEF Reply, NoReply, GoTo, journal, world
<1>2. CASE Reply(c)
  <2>1. PICK o \in Fate(job[c].step, job[c].attempt) \ {"sent"} :
           GoTo(c, [job[c] EXCEPT !.pc = "finish", !.outcome = o])
    BY <1>2 DEF Reply
  <2>2. job[c].step \in Step
    BY <1>1 DEF IInv, Unsettled, At
  <2>3. PICK i \in DOMAIN flights[job[c].step] : o = flights[job[c].step][i].fate
    BY <2>1 DEF Fate
  <2>4. flights[job[c].step] \in Seq(FlightSet)
    BY <2>2 DEF IInv, Types
  <2>5. flights[job[c].step][i] \in FlightSet
    BY <2>3, <2>4
  <2>6. o \in {"acknowledged", "rejected"} /\ o \in Fate(job[c].step, job[c].attempt)
    BY <2>1, <2>3, <2>5 DEF FlightSet
  <2> QED
    BY <1>1, <2>1, <2>6, OutcomeStep DEF GoTo
<1>3. CASE NoReply(c)
  <2>1. job[c].outcome = "unknown" /\ job[c] \in JobSet
    BY <1>1 DEF IInv, Unsettled, At, Types
  <2>2. [job[c] EXCEPT !.pc = "finish", !.outcome = "unknown"] = [job[c] EXCEPT !.pc = "finish"]
    BY <2>1 DEF JobSet
  <2> QED
    BY <1>1, <1>3, <2>2, OutcomeStep DEF NoReply, GoTo
<1> QED
  BY <1>2, <1>3

-----------------------------------------------------------------------------
(* The journal's attempts *)

\* What the append of an open attempt to step s leaves.
LEMMA Appended ==
    ASSUME IInv, NEW s \in Step, attempts' = [attempts EXCEPT ![s] = Append(@, "started")]
    PROVE  /\ attempts' \in [Step -> Seq(Outcome)]
           /\ Len(attempts'[s]) = Len(attempts[s]) + 1
           /\ Len(attempts'[s]) \in DOMAIN attempts'[s] \ DOMAIN attempts[s]
           /\ attempts'[s][Len(attempts'[s])] = "started"
           /\ \A t \in Step :
                /\ DOMAIN attempts[t] \subseteq DOMAIN attempts'[t]
                /\ \A m \in DOMAIN attempts[t] : attempts'[t][m] = attempts[t][m]
                /\ \A m \in DOMAIN attempts'[t] \ DOMAIN attempts[t] :
                     t = s /\ m = Len(attempts'[s])
<1>1. attempts \in [Step -> Seq(Outcome)] /\ "started" \in Outcome
  BY DEF IInv, Types, Outcome
<1>2. /\ attempts' \in [Step -> Seq(Outcome)]
      /\ attempts'[s] = Append(attempts[s], "started")
      /\ \A t \in Step : t # s => attempts'[t] = attempts[t]
  BY <1>1
<1>3. /\ DOMAIN attempts[s] = 1..Len(attempts[s]) /\ Len(attempts[s]) \in Nat
      /\ DOMAIN attempts'[s] = 1..(Len(attempts[s]) + 1)
      /\ Len(attempts'[s]) = Len(attempts[s]) + 1
      /\ attempts'[s][Len(attempts[s]) + 1] = "started"
      /\ \A m \in 1..Len(attempts[s]) : attempts'[s][m] = attempts[s][m]
  BY <1>1, <1>2
<1> QED
  BY <1>2, <1>3

\* Where an attempt may begin, none is open.
LEMMA NoneOpen ==
    ASSUME IInv, NEW c \in Caller, At(c, "begin"),
           NEW s \in Step, NEW n \in DOMAIN attempts[s]
    PROVE  attempts[s][n] # "started"
<1>1. lost = {} /\ \A d \in Caller : d # c => job[d].pc = "idle"
  BY Alone DEF At, Busy
<1>2. \A d \in Caller : ~Settles(d, s, n)
  BY <1>1 DEF Settles, Settling, At
<1> QED
  BY <1>1, <1>2 DEF IInv, Owned

LEMMA BeginStep ==
    ASSUME IInv, NEW c \in Caller, Begin(c)
    PROVE  IInv'
<1> DEFINE s == job[c].step
<1>1. /\ job[c].pc = "begin" /\ Busy(c) /\ locked /\ lost = {}
      /\ job[c] \in JobSet /\ job[c].outcome = "unknown" /\ s \in Step
      /\ \A d \in Caller : d # c => job[d].pc = "idle"
  BY Alone DEF Begin, At, Busy, IInv, Unsettled
<1>2. attempts' = [attempts EXCEPT ![s] = Append(@, "started")]
  BY DEF Begin
<1>s. PICK t0 \in Step : t0 = s
  BY <1>1
<1>3. PICK n : t0 = s /\ n = Len(attempts'[s])
  BY <1>s
<1>4. /\ attempts' \in [Step -> Seq(Outcome)]
      /\ n \in Nat /\ n \in DOMAIN attempts'[s] \ DOMAIN attempts[s] /\ attempts'[s][n] = "started"
      /\ \A t \in Step :
           /\ DOMAIN attempts[t] \subseteq DOMAIN attempts'[t]
           /\ \A m \in DOMAIN attempts[t] : attempts'[t][m] = attempts[t][m]
           /\ \A m \in DOMAIN attempts'[t] \ DOMAIN attempts[t] : t = s /\ m = n
  <2>1. attempts' = [attempts EXCEPT ![t0] = Append(@, "started")]
    BY <1>2, <1>3
  <2>2. n = Len(attempts'[t0])
    BY <1>3
  <2>3. attempts[t0] \in Seq(Outcome) /\ Len(attempts[t0]) + 1 \in Nat
    BY DEF IInv, Types
  <2>4. /\ attempts' \in [Step -> Seq(Outcome)]
        /\ n = Len(attempts[t0]) + 1
        /\ n \in DOMAIN attempts'[t0] \ DOMAIN attempts[t0] /\ attempts'[t0][n] = "started"
        /\ \A t \in Step :
             /\ DOMAIN attempts[t] \subseteq DOMAIN attempts'[t]
             /\ \A m \in DOMAIN attempts[t] : attempts'[t][m] = attempts[t][m]
             /\ \A m \in DOMAIN attempts'[t] \ DOMAIN attempts[t] : t = t0 /\ m = n
    BY <2>1, <2>2, Appended, Zenon
  <2> QED
    BY <2>3, <2>4, <1>3, Zenon
<1>5. /\ job' = [job EXCEPT ![c] = [job[c] EXCEPT !.pc = "dispatch", !.attempt = n]]
      /\ locked' = locked /\ flights' = flights /\ lost' = lost
  BY <1>3 DEF Begin, GoTo, world
<1>6. /\ job'[c].pc = "dispatch" /\ job'[c].step = s /\ job'[c].attempt = n
      /\ job'[c].outcome = "unknown" /\ job' \in [Caller -> JobSet]
      /\ \A d \in Caller : d # c => job'[d] = job[d]
  BY <1>1, <1>4, <1>5 DEF IInv, Types, JobSet, Pc, Settling
<1>7. Types'
  BY <1>4, <1>5, <1>6 DEF IInv, Types
<1>8. Lock'
  BY <1>1, <1>5, <1>6 DEF Lock, Busy, At
<1>9. Unsettled'
  BY <1>1, <1>6 DEF IInv, Unsettled
<1>10. Unsent(s, n)'
  BY <1>1, <1>4, <1>5 DEF IInv, OneTransmission, Unsent
<1>11. Pending'
  BY <1>1, <1>4, <1>6, <1>10 DEF Pending, At, Settling
<1>12. Owned'
  <2>1. Settles(c, s, n)'
    BY <1>6 DEF Settles, Settling
  <2>2. \A d \in Caller : \A t, m : ~Settles(d, t, m)
    BY <1>1 DEF Settles, Settling
  <2> QED
    BY <1>4, <1>5, <2>1, <2>2 DEF IInv, Owned
<1>13. Honest'
  <2>1. \A t, m : Fate(t, m)' = Fate(t, m)
    BY <1>5 DEF Fate
  <2>2. \A t \in Step : \A m \in DOMAIN attempts'[t] :
           attempts'[t][m] \in {"acknowledged", "rejected"} =>
              m \in DOMAIN attempts[t] /\ attempts'[t][m] = attempts[t][m]
    BY <1>4
  <2> QED
    BY <2>1, <2>2 DEF IInv, Honest
<1>14. OneTransmission'
  <2>1. SUFFICES ASSUME NEW t \in Step, NEW i \in DOMAIN flights[t]
                 PROVE  /\ flights[t][i].attempt \in DOMAIN attempts'[t]
                        /\ \A k \in DOMAIN flights[t] :
                             k # i => flights[t][k].attempt # flights[t][i].attempt
    BY <1>5 DEF OneTransmission
  <2>2. /\ flights[t][i].attempt \in DOMAIN attempts[t]
        /\ \A k \in DOMAIN flights[t] : k # i => flights[t][k].attempt # flights[t][i].attempt
    BY DEF IInv, OneTransmission
  <2>3. DOMAIN attempts[t] \subseteq DOMAIN attempts'[t]
    BY <1>4
  <2> QED
    BY <2>2, <2>3
<1> QED
  BY <1>7, <1>8, <1>9, <1>11, <1>12, <1>13, <1>14 DEF IInv

\* A submission settles the open attempt that it works on, and no other.
LEMMA Finished ==
    ASSUME IInv, NEW c \in Caller, Finish(c)
    PROVE  LET s == job[c].step
               n == job[c].attempt
           IN  /\ n \in DOMAIN attempts[s] /\ attempts[s][n] = "started"
               /\ attempts' \in [Step -> Seq(Outcome)]
               /\ attempts'[s][n] = job[c].outcome
               /\ \A t \in Step :
                    /\ DOMAIN attempts'[t] = DOMAIN attempts[t]
                    /\ \A m \in DOMAIN attempts[t] :
                         t # s \/ m # n => attempts'[t][m] = attempts[t][m]
<1> DEFINE s == job[c].step
           n == job[c].attempt
           o == job[c].outcome
<1>1. /\ s \in Step /\ n \in DOMAIN attempts[s] /\ attempts[s][n] = "started"
  BY DEF Finish, At, IInv, Pending, Settling
<1>2. attempts \in [Step -> Seq(Outcome)] /\ o \in Outcome
  BY DEF IInv, Types, JobSet, Outcome
<1>3. attempts' = [attempts EXCEPT ![s] = [attempts[s] EXCEPT ![n] = o]]
  BY <1>1, <1>2 DEF Finish
<1>4. attempts[s] \in Seq(Outcome) /\ n \in 1..Len(attempts[s])
  BY <1>1, <1>2
<1>5. [attempts[s] EXCEPT ![n] = o] \in Seq(Outcome)
  BY <1>2, <1>4
<1> QED
  BY <1>1, <1>2, <1>3, <1>4, <1>5

LEMMA FinishStep ==
    ASSUME IInv, NEW c \in Caller, Finish(c)
    PROVE  IInv'
<1> DEFINE s == job[c].step
           n == job[c].attempt
           o == job[c].outcome
<1>1. /\ job[c].pc = "finish" /\ Busy(c) /\ locked /\ lost = {}
      /\ job[c] \in JobSet /\ s \in Step /\ o \in {"unknown", "acknowledged", "rejected"}
      /\ \A d \in Caller : d # c => job[d].pc = "idle"
  BY Alone DEF Finish, At, Busy, IInv, Unsettled, JobSet
<1>2. /\ n \in DOMAIN attempts[s] /\ attempts[s][n] = "started"
      /\ o # "unknown" => o \in Fate(s, n)
  BY <1>1 DEF IInv, Pending, Settling
<1>3. /\ attempts' \in [Step -> Seq(Outcome)]
      /\ attempts'[s][n] = o
      /\ \A t \in Step :
           /\ DOMAIN attempts'[t] = DOMAIN attempts[t]
           /\ \A m \in DOMAIN attempts[t] : t # s \/ m # n => attempts'[t][m] = attempts[t][m]
  BY Finished
<1>4. PICK j \in JobSet : Goes(c, j)
  BY EndGoes, StepDoneGoes DEF Finish, IInv
<1>5. flights' = flights /\ lost' = lost
  BY DEF Finish, world
<1>6. /\ job'[c] = j /\ job' \in [Caller -> JobSet]
      /\ \A d \in Caller : d # c => job'[d] = job[d]
      /\ \A d \in Caller : job'[d].pc \notin Settling
  BY <1>1, <1>4 DEF IInv, Types, Goes, Settling
<1>7. Types'
  BY <1>3, <1>5, <1>6 DEF IInv, Types
<1>8. Lock'
  BY <1>1, <1>4, <1>5, <1>6 DEF Lock, Goes, Busy, At
<1>9. Unsettled'
  BY <1>1, <1>4, <1>6 DEF IInv, Unsettled, Goes
<1>10. Pending'
  BY <1>6 DEF Pending
<1>11. Owned'
  <2>1. \A d \in Caller : \A t, m : Settles(d, t, m) => t = s /\ m = n
    BY <1>1 DEF Settles, Settling
  <2> QED
    BY <1>1, <1>3, <1>5, <2>1 DEF IInv, Owned
<1>12. Honest'
  <2>1. \A t, m : Fate(t, m)' = Fate(t, m)
    BY <1>5 DEF Fate
  <2>2. SUFFICES ASSUME NEW t \in Step, NEW m \in DOMAIN attempts'[t],
                        attempts'[t][m] \in {"acknowledged", "rejected"}
                 PROVE  attempts'[t][m] \in Fate(t, m)
    BY <2>1 DEF Honest
  <2>3. CASE t = s /\ m = n
    BY <1>2, <1>3, <2>2, <2>3
  <2>4. CASE t # s \/ m # n
    BY <1>3, <2>2, <2>4 DEF IInv, Honest
  <2> QED
    BY <2>3, <2>4
<1>13. OneTransmission'
  BY <1>3, <1>5 DEF IInv, OneTransmission
<1> QED
  BY <1>7, <1>8, <1>9, <1>10, <1>11, <1>12, <1>13 DEF IInv

\* A write that nobody settles leaves its step among the lost ones.
LEMMA WriteFailsStep ==
    ASSUME IInv, NEW c \in Caller, WriteFails(c)
    PROVE  IInv'
<1> DEFINE s == job[c].step
<1>1. /\ Busy(c) /\ s \in Step /\ lost = {}
      /\ \A d \in Caller : d # c => job[d].pc = "idle"
  BY Alone DEF WriteFails, At, Busy, IInv, Unsettled
<1>2. flights' = flights /\ lost' = lost \cup {s} /\ Goes(c, NoJob)
  BY NoJobType DEF WriteFails, world, End, Goes, NoJob, Settling
<1>3. /\ job' \in [Caller -> JobSet]
      /\ \A d \in Caller : job'[d].pc = "idle" /\ job'[d].outcome = "unknown"
  BY <1>1, <1>2, NoJobType DEF Goes, IInv, Types, Unsettled
<1>4. /\ attempts' \in [Step -> Seq(Outcome)]
      /\ \A t \in Step :
           /\ DOMAIN attempts[t] \subseteq DOMAIN attempts'[t]
           /\ \A m \in DOMAIN attempts[t] : attempts'[t][m] = attempts[t][m]
           /\ \A m \in DOMAIN attempts'[t] \ DOMAIN attempts[t] :
                t = s /\ attempts'[t][m] = "started"
  <2>1. CASE attempts' = [attempts EXCEPT ![s] = Append(@, "started")]
    <3>1. PICK t0 \in Step : t0 = s
      BY <1>1
    <3>2. attempts' = [attempts EXCEPT ![t0] = Append(@, "started")]
      BY <2>1, <3>1
    <3> QED
      BY <3>1, <3>2, Appended
  <2>2. CASE attempts' = attempts
    BY <2>2 DEF IInv, Types
  <2> QED
    BY <2>1, <2>2 DEF WriteFails
<1>5. Types'
  BY <1>1, <1>2, <1>3, <1>4 DEF IInv, Types
<1>6. Lock' /\ Unsettled' /\ Pending'
  BY <1>3 DEF Lock, Unsettled, Pending, Busy, Settling
<1>7. Owned'
  <2>1. \A d \in Caller : \A t, m : Settles(d, t, m) => t = s
    BY <1>1 DEF Settles, Settling
  <2> QED
    BY <1>1, <1>2, <1>4, <2>1 DEF IInv, Owned
<1>8. Honest'
  BY <1>2, <1>4 DEF IInv, Honest, Fate
<1>9. OneTransmission'
  BY <1>2, <1>4 DEF IInv, OneTransmission
<1> QED
  BY <1>5, <1>6, <1>7, <1>8, <1>9 DEF IInv

LEMMA CrashStep ==
    ASSUME IInv, Crash
    PROVE  IInv'
<1>1. /\ attempts' = attempts /\ flights' = flights
      /\ job' = [c \in Caller |-> NoJob]
      /\ lost' = lost \cup {s \in Step : IsOpen(s)}
  BY DEF Crash, journal, world
<1>2. Types'
  BY <1>1, NoJobType DEF IInv, Types
<1>3. Lock' /\ Unsettled' /\ Pending'
  BY <1>1, NoJobType DEF Lock, Unsettled, Pending, Busy, Settling
<1>4. Owned'
  BY <1>1 DEF Owned, IsOpen
<1>5. Honest' /\ OneTransmission'
  BY <1>1 DEF IInv, Honest, OneTransmission, Fate
<1> QED
  BY <1>2, <1>3, <1>4, <1>5 DEF IInv

-----------------------------------------------------------------------------
(* The theorems *)

LEMMA NextStep ==
    ASSUME IInv, [Next]_vars
    PROVE  IInv'
<1>1. CASE UNCHANGED vars
  BY <1>1, Elsewhere DEF vars, journal, session, world
<1>2. ASSUME NEW c \in Caller, Start(c) \/ Progress(c) \/ Reply(c) \/ NoReply(c)
                               \/ Reject(c) \/ Abort(c) \/ WriteFails(c)
      PROVE  IInv'
  BY <1>2, StartStep, ReconcileStep, ObserveStep, PrepareStep, BeginStep, DispatchStep,
     FinishStep, ReplyStep, RejectStep, WorldStep, WriteFailsStep DEF Progress
<1>3. ASSUME NEW s \in Step, Arrive(s) \/ Forget(s)
      PROVE  IInv'
  BY <1>3, ArriveStep, WorldStep
<1>4. CASE Sync \/ Block \/ Crash
  BY <1>4, WorldStep, CrashStep
<1> QED
  BY <1>1, <1>2, <1>3, <1>4 DEF Next

\* What the journal keeps in a step, as Serialized states it.
Keeps ==
    \A s \in Step : \A n \in DOMAIN attempts[s] :
        /\ attempts[s][n] # "started" => attempts'[s][n] = attempts[s][n]
        /\ attempts[s][n] = "started" =>
             \A t \in Step : DOMAIN attempts'[t] = DOMAIN attempts[t]

LEMMA AppendKeeps ==
    ASSUME IInv, NEW c \in Caller, At(c, "begin"),
           attempts' = [attempts EXCEPT ![job[c].step] = Append(@, "started")]
    PROVE  Keeps
<1>1. PICK s \in Step : s = job[c].step
  BY DEF IInv, Unsettled, At
<1>2. attempts' = [attempts EXCEPT ![s] = Append(@, "started")]
  BY <1>1
<1>3. \A t \in Step : \A m \in DOMAIN attempts[t] : attempts'[t][m] = attempts[t][m]
  BY <1>2, Appended
<1> QED
  BY <1>3, NoneOpen DEF Keeps

LEMMA StepKeeps ==
    ASSUME IInv, [Next]_vars
    PROVE  Keeps
<1>1. CASE attempts' = attempts
  BY <1>1 DEF Keeps
<1>2. ASSUME NEW c \in Caller, Reconcile(c)
      PROVE  Keeps
  BY <1>2, Reconciled DEF Keeps, Closed
<1>3. ASSUME NEW c \in Caller, Begin(c) \/ WriteFails(c)
      PROVE  attempts' = attempts \/ Keeps
  BY <1>3, AppendKeeps DEF Begin, WriteFails
<1>4. ASSUME NEW c \in Caller, Finish(c)
      PROVE  Keeps
  BY <1>4, Finished DEF Keeps
<1>5. ASSUME NEW c \in Caller,
             \/ Start(c) \/ ObserveAll(c) \/ ObserveParent(c) \/ Check(c) \/ Refresh(c)
             \/ Reobserve(c) \/ NoAttempt(c) \/ Dispatch(c) \/ Reply(c) \/ NoReply(c)
             \/ Reject(c) \/ Abort(c)
      PROVE  attempts' = attempts
  BY <1>5 DEF Start, ObserveAll, ObserveParent, Check, Refresh, Reobserve, NoAttempt, Dispatch,
              Reply, NoReply, Reject, Abort, journal
<1>6. ASSUME NEW s \in Step, Arrive(s) \/ Forget(s)
      PROVE  attempts' = attempts
  BY <1>6 DEF Arrive, Forget, journal
<1>7. ASSUME Sync \/ Block \/ Crash \/ UNCHANGED vars
      PROVE  attempts' = attempts
  BY <1>7 DEF Sync, Block, Crash, vars, journal
<1> QED
  BY <1>1, <1>2, <1>3, <1>4, <1>5, <1>6, <1>7 DEF Next, Progress

\* Who holds the lock is the only one with an open attempt, in every behaviour of the
\* submissions, the source and the session.
THEOREM Invariance == Spec => []IInv
<1> QED
  BY Initially, NextStep, PTL DEF Spec

\* A transmission belongs to a durable attempt, and an attempt transmits once
\* (submitStep, broadcast): for any number of callers, steps and attempts.
THEOREM Transmission == Spec => []OneTransmission
<1>1. IInv => OneTransmission
  BY DEF IInv
<1> QED
  BY <1>1, Invariance, PTL

\* The journal is sure only of what the source said of the attempt, and an attempt is left
\* open only by a failed write or a crash (submitStep).
THEOREM OutcomesHonest == Spec => []OutcomeHonest
<1>1. IInv => OutcomeHonest
  BY DEF IInv, Honest, Owned, Settles, Settling, OutcomeHonest, IsOpen
<1> QED
  BY <1>1, Invariance, PTL

\* A settled attempt keeps its outcome, and none begins while another is open: submissions
\* of one operation do not overlap, and a crash is settled before the next attempt (start,
\* submitUnlocked).
THEOREM Serialization == Spec => Serialized
<1>1. IInv /\ [Next]_vars => [Keeps]_vars
  BY StepKeeps
<1>2. [][Keeps]_vars <=> Serialized
  BY PTL DEF Serialized, Keeps
<1> QED
  BY <1>1, <1>2, Invariance, PTL DEF Spec

-----------------------------------------------------------------------------
(* Evidence: what a submission knows of the other steps when it begins an attempt *)

EvidenceSet == [state : {"none", "notSeen", "mempool", "mined"}, tip : 0..MaxTip, of : Nat]
Ledger == {"notSeen", "mempool", "mined"}

\* The data keep within their bounds, and the scan does not overtake the source.
Data ==
    /\ \A s \in Step : Len(attempts[s]) <= MaxAttempts[s]
    /\ evidence \in [Step -> EvidenceSet]
    /\ scan \in 0..MaxTip /\ tip \in 0..MaxTip /\ scan <= tip
    /\ ledger \in [Step -> Ledger]
    /\ trouble \in 0..MaxTrouble

Flags == locked \in BOOLEAN /\ aborted \subseteq {c \in Caller : Busy(c)}

\* A job that is at a step has evidence as new as the attempts of every later step and of
\* every parent: of its own step too, until it begins an attempt.
Working == {"prepare", "refresh", "reobserve", "begin"}
Informed(j, e, a, sc) ==
    /\ j.refreshes \in 0..MaxRefreshes
    /\ j.pc = "refresh" => j.refreshes < MaxRefreshes
    /\ j.pc = "observe" => \A t \in Step : t < j.step => e[t].of = Len(a[t])
    /\ j.pc \in Working =>
         \A t \in Step : t >= j.step \/ HasChild(t) => e[t].of = Len(a[t])
    /\ j.pc \in Settling \cup {"parent"} =>
         \A t \in Step : t # j.step /\ (t > j.step \/ HasChild(t)) => e[t].of = Len(a[t])
    /\ j.pc = "begin" => e[j.step].tip <= sc

EInv == Data /\ Flags /\ \A c \in Caller : Informed(job[c], evidence, attempts, scan)

\* The submission of c goes on with job j, or ends.
Moves(c, j) ==
    /\ job' = [job EXCEPT ![c] = j]
    /\ locked' \in {locked, FALSE}
    /\ aborted' = IF j.pc = "idle" THEN aborted \ {c} ELSE aborted

LEMMA Informs ==
    ASSUME IInv, EInv, NEW c \in Caller, NEW j \in JobSet, Moves(c, j), Data', Busy(c),
           Informed(j, evidence', attempts', scan')
    PROVE  EInv'
<1>1. /\ job'[c] = j
      /\ \A d \in Caller : d # c => job'[d] = job[d] /\ job[d].pc = "idle"
  BY Alone DEF Moves, IInv, Types
<1>2. Flags'
  BY <1>1 DEF EInv, Flags, Moves, Busy
<1>3. ASSUME NEW d \in Caller, d # c
      PROVE  Informed(job'[d], evidence', attempts', scan')
  <2>1. job'[d].pc = "idle" /\ job'[d].refreshes \in 0..MaxRefreshes
    BY <1>1, <1>3 DEF EInv, Informed
  <2> QED
    BY <2>1 DEF Informed, Working, Settling
<1> QED
  BY <1>1, <1>2, <1>3 DEF EInv

LEMMA NoJobInformed ==
    ASSUME NEW e, NEW a, NEW sc
    PROVE  Informed(NoJob, e, a, sc)
BY BoundAssumption DEF NoJob, Informed, Working, Settling

LEMMA EndMoves == ASSUME NEW c \in Caller, End(c) PROVE Moves(c, NoJob) /\ scan' = scan
BY DEF End, Moves, NoJob

LEMMA GoToMoves ==
    ASSUME NEW c \in Caller, NEW j, GoTo(c, j), j.pc # "idle"
    PROVE  Moves(c, j) /\ scan' = scan
BY DEF GoTo, Moves

\* Behind step s, all of what may be worked on next, and all parents, are known.
Ahead(s, e, a) == \A t \in Step : t > s \/ HasChild(t) => e[t].of = Len(a[t])
Onward(c, e, a, sc) ==
    scan' = scan /\ \E j \in JobSet : Moves(c, j) /\ Informed(j, e, a, sc)

\* Behind step s the way leads to a step all of whose successors and parents are known.
LEMMA GoOnInformed ==
    ASSUME NEW c \in Caller, NEW s \in 0..LastStep, NEW e, NEW a, NEW sc, GoOn(c, s, e),
           Ahead(s, e, a)
    PROVE  Onward(c, e, a, sc)
<1> DEFINE open == {t \in Step : t > s /\ e[t].state # "mined"}
<1>1. CASE open = {}
  BY <1>1, EndMoves, NoJobInformed, NoJobType DEF GoOn, Onward
<1>2. CASE open # {}
  <2>1. PICK t \in open : GoTo(c, [NoJob EXCEPT !.pc = "prepare", !.step = t])
    BY <1>2 DEF GoOn
  <2> DEFINE j == [NoJob EXCEPT !.pc = "prepare", !.step = t]
  <2>2. j \in JobSet /\ j.pc = "prepare" /\ j.step = t /\ j.refreshes = 0
    BY StepType DEF NoJob, JobSet, Pc
  <2>3. Moves(c, j) /\ scan' = scan
    BY <2>1, <2>2, GoToMoves
  <2>4. \A u \in Step : u >= t => u > s
    BY StepAssumption DEF Step
  <2>5. Informed(j, e, a, sc)
    BY <2>2, <2>4, BoundAssumption DEF Informed, Settling, Ahead
  <2> QED
    BY <2>2, <2>3, <2>5 DEF Onward
<1> QED
  BY <1>1, <1>2

\* What a step without children leaves is nobody's evidence; a parent is observed next.
LEMMA StepDoneInformed ==
    ASSUME Types, NEW c \in Caller, StepDone(c), NEW e, NEW a, NEW sc,
           job[c].step \in Step, job[c].refreshes \in 0..MaxRefreshes, e = evidence,
           \A t \in Step : t # job[c].step /\ (t > job[c].step \/ HasChild(t)) =>
                              e[t].of = Len(a[t])
    PROVE  Onward(c, e, a, sc)
<1>1. CASE HasChild(job[c].step)
  <2> DEFINE j == [job[c] EXCEPT !.pc = "parent"]
  <2>1. /\ j \in JobSet /\ j.pc = "parent" /\ j.step = job[c].step
        /\ j.refreshes = job[c].refreshes
    BY DEF Types, JobSet, Pc
  <2>2. Moves(c, j) /\ scan' = scan
    BY <1>1, <2>1, GoToMoves DEF StepDone
  <2>3. Informed(j, e, a, sc)
    BY <2>1 DEF Informed, Working
  <2> QED
    BY <2>1, <2>2, <2>3 DEF Onward
<1>2. CASE ~HasChild(job[c].step)
  <2>1. PICK s \in 0..LastStep : s = job[c].step
    BY StepType
  <2>2. GoOn(c, s, e)
    BY <1>2, <2>1 DEF StepDone
  <2>3. Ahead(s, e, a)
    BY <1>2, <2>1, StepAssumption DEF Step, Ahead
  <2> QED
    BY <2>2, <2>3, GoOnInformed
<1> QED
  BY <1>1, <1>2

\* An observation is as new as the attempts, and its tip is the source's.
LEMMA Observed ==
    ASSUME IInv, EInv, NEW s \in Step, Observe(s), attempts' = attempts, scan' = scan,
           UNCHANGED <<ledger, tip, trouble>>
    PROVE  /\ Data'
           /\ evidence'[s].of = Len(attempts[s])
           /\ \A t \in Step : t # s => evidence'[t] = evidence[t]
<1> DEFINE o == [state |-> ledger[s], tip |-> tip, of |-> Len(attempts[s])]
<1>1. attempts[s] \in Seq(Outcome)
  BY DEF IInv, Types
<1>2. Len(attempts[s]) \in Nat
  BY <1>1
<1>3. o \in EvidenceSet
  BY <1>2 DEF EInv, Data, EvidenceSet, Ledger
<1>4. evidence' = [evidence EXCEPT ![s] = o] /\ evidence \in [Step -> EvidenceSet]
  BY DEF Observe, EInv, Data
<1>5. /\ evidence' \in [Step -> EvidenceSet] /\ evidence'[s] = o
      /\ \A t \in Step : t # s => evidence'[t] = evidence[t]
  BY <1>3, <1>4
<1>6. Data'
  BY <1>5 DEF EInv, Data
<1> QED
  BY <1>5, <1>6

LEMMA OnwardInforms ==
    ASSUME IInv, EInv, NEW c \in Caller, Onward(c, evidence', attempts', scan'),
           Data', Busy(c)
    PROVE  EInv'
BY Informs DEF Onward

LEMMA EndInforms ==
    ASSUME IInv, EInv, NEW c \in Caller, End(c), Data', Busy(c)
    PROVE  EInv'
BY Informs, EndMoves, NoJobInformed, NoJobType

LEMMA GoToInforms ==
    ASSUME IInv, EInv, NEW c \in Caller, NEW j \in JobSet, GoTo(c, j), j.pc # "idle",
           Data', Busy(c), Informed(j, evidence', attempts', scan')
    PROVE  EInv'
BY Informs, GoToMoves

\* Attempts that keep their number keep the data.
LEMMA DataKept ==
    ASSUME EInv, \A s \in Step : Len(attempts'[s]) = Len(attempts[s]),
           UNCHANGED <<evidence, scan, tip, ledger, trouble>>
    PROVE  Data'
BY DEF EInv, Data

LEMMA EInitially == Init => EInv
<1> SUFFICES ASSUME Init PROVE EInv
  OBVIOUS
<1>1. Data
  BY BoundAssumption DEF Init, Data, EvidenceSet, Ledger
<1>2. \A c \in Caller : job[c] = NoJob
  BY DEF Init
<1> QED
  BY <1>1, <1>2, NoJobInformed DEF Init, EInv, Flags

LEMMA EStart ==
    ASSUME IInv, EInv, NEW c \in Caller, Start(c)
    PROVE  EInv'
<1>1. \A d \in Caller : job[d].pc = "idle"
  BY DEF Start, IInv, Lock, Busy
<1>2. /\ locked' = TRUE /\ aborted' = aborted
      /\ job' = [job EXCEPT ![c].pc = "reconcile"]
      /\ attempts' = attempts
      /\ UNCHANGED <<evidence, scan, tip, ledger, trouble>>
  BY DEF Start, journal, world
<1>3. \A d \in Caller : /\ job'[d].pc \in {"idle", "reconcile"}
                        /\ job'[d].refreshes = job[d].refreshes
  BY <1>1, <1>2 DEF IInv, Types, JobSet
<1>4. \A d \in Caller : Informed(job'[d], evidence', attempts', scan')
  BY <1>3 DEF EInv, Informed, Working, Settling
<1>5. Data'
  BY <1>2, DataKept
<1>6. Flags'
  BY <1>1, <1>2 DEF EInv, Flags, Busy
<1> QED
  BY <1>4, <1>5, <1>6 DEF EInv

LEMMA EReconcile ==
    ASSUME IInv, EInv, NEW c \in Caller, Reconcile(c)
    PROVE  EInv'
<1>1. \A s \in Step : Len(attempts'[s]) = Len(attempts[s])
  <2> SUFFICES ASSUME NEW s \in Step PROVE Len(attempts'[s]) = Len(attempts[s])
    OBVIOUS
  <2>1. /\ attempts[s] \in Seq(Outcome) /\ attempts'[s] \in Seq(Outcome)
        /\ DOMAIN attempts'[s] = DOMAIN attempts[s]
    BY Reconciled DEF IInv, Types
  <2> QED
    BY <2>1
<1>2. Data' /\ Busy(c)
  BY <1>1, DataKept DEF Reconcile, GoTo, world, At, Busy
<1> DEFINE j == [job[c] EXCEPT !.pc = "observe", !.step = 1]
<1>3. /\ j \in JobSet /\ j.pc = "observe" /\ j.step = 1
      /\ j.refreshes = job[c].refreshes
  <2>1. job[c] \in JobSet /\ 1 \in 0..LastStep
    BY StepAssumption DEF IInv, Types
  <2> QED
    BY <2>1 DEF JobSet, Pc
<1>4. Informed(j, evidence', attempts', scan')
  BY <1>3, StepAssumption DEF EInv, Informed, Working, Settling, Step
<1>5. GoTo(c, j)
  BY DEF Reconcile
<1> QED
  BY <1>2, <1>3, <1>4, <1>5, GoToInforms

LEMMA EObserve ==
    ASSUME IInv, EInv, NEW c \in Caller, ObserveAll(c) \/ ObserveParent(c) \/ Reobserve(c)
    PROVE  EInv'
<1>1. /\ Observe(job[c].step) /\ attempts' = attempts
      /\ UNCHANGED <<ledger, tip, trouble>>
      /\ Busy(c) /\ job[c].pc \in {"observe", "parent", "reobserve"}
  BY DEF ObserveAll, ObserveParent, Reobserve, At, Busy, world
<1>2. /\ job[c].step \in Step /\ job[c] \in JobSet
      /\ Informed(job[c], evidence, attempts, scan)
      /\ job[c].refreshes \in 0..MaxRefreshes
  BY <1>1 DEF IInv, Types, Unsettled, EInv, Informed
<1>s. PICK s \in Step : s = job[c].step
  BY <1>2
<1>3. scan' = scan
  BY <1>1, GoOnGoes DEF ObserveAll, ObserveParent, Reobserve, GoTo, GoOn, End
<1>4. /\ Data'
      /\ evidence'[s].of = Len(attempts[s])
      /\ \A t \in Step : t # s => evidence'[t] = evidence[t]
  BY <1>1, <1>3, <1>s, Observed
<1>5. ASSUME ObserveAll(c) PROVE EInv'
  <2>1. \A t \in Step : t <= s => evidence'[t].of = Len(attempts'[t])
    BY <1>1, <1>2, <1>4, <1>5, <1>s, StepAssumption DEF ObserveAll, At, Informed, Step
  <2>2. CASE s < LastStep
    <3> DEFINE j == [job[c] EXCEPT !.step = job[c].step + 1]
    <3>1. GoTo(c, j)
      BY <1>5, <1>s, <2>2 DEF ObserveAll
    <3>2. job[c].pc = "observe" /\ s + 1 \in 0..LastStep
      BY <1>5, <2>2, StepAssumption DEF ObserveAll, At, Step
    <3>3. /\ j \in JobSet /\ j.pc = "observe" /\ j.step = s + 1
          /\ j.refreshes = job[c].refreshes
      BY <1>2, <1>s, <3>2 DEF JobSet
    <3>4. \A t \in Step : t < s + 1 => t <= s
      BY StepAssumption DEF Step
    <3>5. Informed(j, evidence', attempts', scan')
      BY <1>2, <2>1, <3>3, <3>4 DEF Informed, Working, Settling
    <3> QED
      BY <1>1, <1>4, <3>1, <3>3, <3>5, GoToInforms
  <2>3. CASE ~(s < LastStep)
    <3>1. GoOn(c, 0, evidence')
      BY <1>5, <1>s, <2>3 DEF ObserveAll
    <3>2. \A t \in Step : t <= s
      BY <2>3, StepAssumption DEF Step
    <3>3. Ahead(0, evidence', attempts') /\ 0 \in 0..LastStep
      BY <2>1, <3>2, StepAssumption DEF Ahead
    <3>4. Onward(c, evidence', attempts', scan')
      BY <3>1, <3>3, GoOnInformed
    <3> QED
      BY <1>1, <1>4, <3>4, OnwardInforms
  <2> QED
    BY <2>2, <2>3
<1>6. ASSUME ObserveParent(c) PROVE EInv'
  <2>1. GoOn(c, s, evidence') /\ s \in 0..LastStep
    BY <1>6, <1>s, StepType DEF ObserveParent
  <2>2. Ahead(s, evidence', attempts')
    BY <1>1, <1>2, <1>4, <1>6, <1>s DEF ObserveParent, At, Informed, Ahead
  <2>3. Onward(c, evidence', attempts', scan')
    BY <2>1, <2>2, GoOnInformed
  <2> QED
    BY <1>1, <1>4, <2>3, OnwardInforms
<1>7. ASSUME Reobserve(c) PROVE EInv'
  <2> DEFINE j == [job[c] EXCEPT !.pc = "prepare"]
  <2>1. GoTo(c, j) /\ job[c].pc = "reobserve"
    BY <1>7 DEF Reobserve, At
  <2>2. j \in JobSet /\ j.pc = "prepare" /\ j.step = s /\ j.refreshes = job[c].refreshes
    BY <1>2, <1>s DEF JobSet, Pc
  <2>3. \A t \in Step : t >= s \/ HasChild(t) => evidence'[t].of = Len(attempts'[t])
    BY <1>1, <1>2, <1>4, <1>s, <2>1 DEF Informed, Working
  <2>4. Informed(j, evidence', attempts', scan')
    BY <1>2, <2>2, <2>3 DEF Informed, Settling
  <2> QED
    BY <1>1, <1>4, <2>1, <2>2, <2>4, GoToInforms
<1> QED
  BY <1>5, <1>6, <1>7

LEMMA EPrepare ==
    ASSUME IInv, EInv, NEW c \in Caller, Check(c) \/ Refresh(c) \/ NoAttempt(c)
    PROVE  EInv'
<1>1. /\ UNCHANGED <<attempts, evidence, ledger, tip, trouble>>
      /\ Busy(c) /\ job[c].pc \in Working
  BY DEF Check, Refresh, NoAttempt, At, journal, world, Busy, Working
<1>2. /\ job[c].step \in Step /\ job[c] \in JobSet
      /\ Informed(job[c], evidence, attempts, scan)
      /\ job[c].refreshes \in 0..MaxRefreshes
      /\ \A t \in Step : t >= job[c].step \/ HasChild(t) => evidence[t].of = Len(attempts[t])
  BY <1>1 DEF IInv, Types, Unsettled, EInv, Informed, Working
<1>3. scan' = scan => Data'
  BY <1>1, DataKept
<1>4. ASSUME StepDone(c) PROVE EInv'
  <2>1. \A t \in Step : t # job[c].step /\ (t > job[c].step \/ HasChild(t)) =>
            evidence[t].of = Len(attempts[t])
    BY <1>2, StepAssumption DEF Step
  <2>2. Onward(c, evidence, attempts, scan)
    BY <1>2, <1>4, <2>1, StepDoneInformed DEF IInv
  <2>3. scan' = scan
    BY <2>2 DEF Onward
  <2>4. Onward(c, evidence', attempts', scan')
    BY <1>1, <2>2, <2>3
  <2> QED
    BY <1>1, <1>3, <2>3, <2>4, OnwardInforms
<1>5. ASSUME End(c) PROVE EInv'
  BY <1>1, <1>3, <1>5, EndMoves, EndInforms
<1>6. ASSUME NEW pc \in {"begin", "refresh"}, GoTo(c, [job[c] EXCEPT !.pc = pc]),
             pc = "begin" => evidence[job[c].step].tip <= scan,
             pc = "refresh" => job[c].refreshes # MaxRefreshes
      PROVE  EInv'
  <2> DEFINE j == [job[c] EXCEPT !.pc = pc]
  <2>1. j \in JobSet /\ j.pc = pc /\ j.step = job[c].step /\ j.refreshes = job[c].refreshes
    BY <1>2 DEF JobSet, Pc
  <2>2. scan' = scan
    BY <1>6 DEF GoTo
  <2>3. j.pc = "refresh" => j.refreshes < MaxRefreshes
    BY <1>2, <1>6, <2>1, BoundAssumption
  <2>4. Informed(j, evidence, attempts, scan)
    BY <1>2, <1>6, <2>1, <2>3 DEF Informed, Settling
  <2> QED
    BY <1>1, <1>3, <1>6, <2>1, <2>2, <2>4, GoToInforms
<1>7. ASSUME Check(c) PROVE EInv'
  <2>1. CASE scan = evidence[job[c].step].tip /\ evidence[job[c].step].state = "mined"
    BY <1>4, <1>7, <2>1 DEF Check
  <2>2. CASE scan = evidence[job[c].step].tip /\ evidence[job[c].step].state # "mined"
    <3>1. evidence[job[c].step].tip <= scan
      BY <2>2 DEF EInv, Data
    <3> QED
      BY <1>6, <1>7, <2>2, <3>1 DEF Check
  <2>3. CASE scan # evidence[job[c].step].tip /\ job[c].refreshes = MaxRefreshes
    BY <1>5, <1>7, <2>3 DEF Check
  <2>4. CASE scan # evidence[job[c].step].tip /\ job[c].refreshes # MaxRefreshes
    BY <1>6, <1>7, <2>4 DEF Check
  <2> QED
    BY <2>1, <2>2, <2>3, <2>4
<1>8. ASSUME Refresh(c) PROVE EInv'
  <2> DEFINE j == [job[c] EXCEPT !.pc = "reobserve", !.refreshes = job[c].refreshes + 1]
  <2>1. /\ job' = [job EXCEPT ![c] = j] /\ scan' = tip
        /\ locked' = locked /\ aborted' = aborted
    BY <1>8 DEF Refresh, IInv, Types, JobSet
  <2>2. job[c].refreshes + 1 \in 0..MaxRefreshes
    BY <1>2, <1>8, BoundAssumption DEF Refresh, At, Informed
  <2>3. /\ j \in JobSet /\ j.pc = "reobserve" /\ j.step = job[c].step
        /\ j.refreshes \in 0..MaxRefreshes
    <3>1. PICK n \in 0..MaxRefreshes : n = job[c].refreshes + 1
      BY <2>2
    <3>2. n \in Nat
      BY BoundAssumption
    <3> QED
      BY <1>2, <3>1, <3>2 DEF JobSet, Pc
  <2>4. Informed(j, evidence', attempts', scan')
    BY <1>1, <1>2, <2>3 DEF Informed, Settling
  <2>5. Moves(c, j)
    BY <2>1, <2>3 DEF Moves
  <2>6. Data'
    BY <1>1, <2>1 DEF EInv, Data
  <2> QED
    BY <1>1, <2>3, <2>4, <2>5, <2>6, Informs
<1> QED
  BY <1>4, <1>7, <1>8 DEF NoAttempt

\* An attempt of c's step leaves the other steps as they were known.
LEMMA Another ==
    ASSUME IInv, EInv, NEW s \in Step, Len(attempts[s]) < MaxAttempts[s],
           attempts' = [attempts EXCEPT ![s] = Append(@, "started")]
    PROVE  /\ \A t \in Step : Len(attempts'[t]) <= MaxAttempts[t]
           /\ \A t \in Step : t # s => attempts'[t] = attempts[t]
<1>1. attempts[s] \in Seq(Outcome) /\ attempts \in [Step -> Seq(Outcome)]
  BY DEF IInv, Types
<1>2. /\ Len(attempts'[s]) = Len(attempts[s]) + 1
      /\ \A t \in Step : t # s => attempts'[t] = attempts[t]
  BY <1>1
<1>3. Len(attempts[s]) \in Nat /\ MaxAttempts[s] \in Nat
  BY <1>1, BoundAssumption
<1> QED
  BY <1>2, <1>3 DEF EInv, Data

LEMMA EBegin ==
    ASSUME IInv, EInv, NEW c \in Caller, Begin(c)
    PROVE  EInv'
<1>1. /\ UNCHANGED <<evidence, ledger, tip, trouble, scan>>
      /\ Busy(c) /\ job[c].pc = "begin"
  BY DEF Begin, GoTo, At, world, Busy
<1>2. /\ job[c].step \in Step /\ job[c] \in JobSet
      /\ Informed(job[c], evidence, attempts, scan)
  BY <1>1 DEF IInv, Types, Unsettled, EInv
<1>s. PICK s \in Step : s = job[c].step
  BY <1>2
<1>3. /\ Len(attempts[s]) < MaxAttempts[s]
      /\ attempts' = [attempts EXCEPT ![s] = Append(@, "started")]
  BY <1>s DEF Begin, Admitted
<1>4. /\ \A t \in Step : Len(attempts'[t]) <= MaxAttempts[t]
      /\ \A t \in Step : t # s => attempts'[t] = attempts[t]
  BY <1>3, Another
<1>5. Data'
  BY <1>1, <1>4 DEF EInv, Data
<1>6. PICK n : n = Len(attempts'[s])
  OBVIOUS
<1> DEFINE j == [job[c] EXCEPT !.pc = "dispatch", !.attempt = n]
<1>7. GoTo(c, j)
  BY <1>s, <1>6 DEF Begin
<1>8. n \in Nat
  <2>1. attempts' \in [Step -> Seq(Outcome)]
    BY <1>3, Appended
  <2> QED
    BY <1>6, <2>1
<1>9. j \in JobSet /\ j.pc = "dispatch" /\ j.step = s /\ j.refreshes = job[c].refreshes
  BY <1>2, <1>s, <1>8 DEF JobSet, Pc, Settling
<1>10. \A t \in Step : t # s /\ (t > s \/ HasChild(t)) => evidence'[t].of = Len(attempts'[t])
  BY <1>1, <1>2, <1>s, <1>4, StepAssumption DEF Informed, Working, Step
<1>11. Informed(j, evidence', attempts', scan')
  BY <1>2, <1>9, <1>10 DEF Informed, Working
<1> QED
  BY <1>1, <1>5, <1>7, <1>9, <1>11, GoToInforms

\* What c does while it settles an attempt changes nothing that the others depend on.
LEMMA ESettle ==
    ASSUME IInv, EInv, NEW c \in Caller, Dispatch(c) \/ Reply(c) \/ NoReply(c)
    PROVE  EInv'
<1>1. /\ UNCHANGED <<attempts, evidence, ledger, tip, trouble, scan>>
      /\ Busy(c) /\ job[c].pc \in Settling
  BY DEF Dispatch, Reply, NoReply, GoTo, At, world, journal, Busy, Settling
<1>2. Informed(job[c], evidence, attempts, scan) /\ Data'
  BY <1>1, DataKept DEF EInv
<1>3. PICK j : /\ GoTo(c, j) /\ j.pc \in Settling /\ j.step = job[c].step
               /\ j.refreshes = job[c].refreshes /\ job'[c] = j
  <2>1. PICK k : GoTo(c, k) /\ k.pc \in Settling /\ k.step = job[c].step
                            /\ k.refreshes = job[c].refreshes
    <3>1. job[c] \in JobSet
      BY DEF IInv, Types
    <3>2. CASE Dispatch(c)
      BY <3>1, <3>2 DEF Dispatch, Settling, JobSet
    <3>3. CASE Reply(c)
      <4>1. PICK o : GoTo(c, [job[c] EXCEPT !.pc = "finish", !.outcome = o])
        BY <3>3 DEF Reply
      <4> DEFINE k == [job[c] EXCEPT !.pc = "finish", !.outcome = o]
      <4>2. k.pc = "finish" /\ k.step = job[c].step /\ k.refreshes = job[c].refreshes
        BY <3>1 DEF JobSet
      <4> QED
        BY <4>1, <4>2 DEF Settling
    <3>4. CASE NoReply(c)
      BY <3>1, <3>4 DEF NoReply, Settling, JobSet
    <3> QED
      BY <3>2, <3>3, <3>4
  <2> QED
    BY <2>1 DEF GoTo, IInv, Types
<1>4. j \in JobSet
  <2>1. IInv'
    BY DispatchStep, ReplyStep
  <2> QED
    BY <1>3, <2>1 DEF IInv, Types
<1>5. Informed(j, evidence', attempts', scan')
  BY <1>1, <1>2, <1>3 DEF Informed, Settling, Working
<1>6. j.pc # "idle"
  BY <1>3 DEF Settling
<1> QED
  BY <1>1, <1>2, <1>3, <1>4, <1>5, <1>6, GoToInforms

LEMMA EFinish ==
    ASSUME IInv, EInv, NEW c \in Caller, Finish(c)
    PROVE  EInv'
<1>1. /\ UNCHANGED <<evidence, ledger, tip, trouble>>
      /\ Busy(c) /\ job[c].pc = "finish"
  BY DEF Finish, At, world, Busy
<1>2. /\ job[c].step \in Step /\ job[c] \in JobSet
      /\ Informed(job[c], evidence, attempts, scan)
      /\ job[c].refreshes \in 0..MaxRefreshes
  BY <1>1 DEF IInv, Types, Unsettled, EInv, Informed
<1>3. \A t \in Step : Len(attempts'[t]) = Len(attempts[t])
  <2> SUFFICES ASSUME NEW t \in Step PROVE Len(attempts'[t]) = Len(attempts[t])
    OBVIOUS
  <2>1. /\ attempts' \in [Step -> Seq(Outcome)]
        /\ DOMAIN attempts'[t] = DOMAIN attempts[t]
    BY Finished
  <2>2. attempts[t] \in Seq(Outcome) /\ attempts'[t] \in Seq(Outcome)
    BY <2>1 DEF IInv, Types
  <2> QED
    BY <2>1, <2>2
<1>4. scan' = scan => Data'
  BY <1>1, <1>3, DataKept
<1>5. CASE End(c)
  BY <1>1, <1>4, <1>5, EndMoves, EndInforms
<1>6. CASE StepDone(c)
  <2>1. \A t \in Step : t # job[c].step /\ (t > job[c].step \/ HasChild(t)) =>
            evidence[t].of = Len(attempts'[t])
    BY <1>1, <1>2, <1>3 DEF Informed, Settling
  <2>2. Onward(c, evidence, attempts', scan')
    BY <1>2, <1>6, <2>1, StepDoneInformed DEF IInv
  <2>3. Onward(c, evidence', attempts', scan') /\ scan' = scan
    BY <1>1, <2>2 DEF Onward
  <2> QED
    BY <1>1, <1>4, <2>3, OnwardInforms
<1> QED
  BY <1>5, <1>6 DEF Finish

LEMMA EEnds ==
    ASSUME IInv, EInv, NEW c \in Caller, Reject(c) \/ WriteFails(c)
    PROVE  EInv'
<1>1. /\ End(c) /\ Busy(c) /\ scan' = scan
      /\ UNCHANGED <<evidence, ledger, tip>>
  BY DEF Reject, WriteFails, End, At, Busy, journal, world
<1>2. /\ trouble' \in 0..MaxTrouble
      /\ \A t \in Step : Len(attempts'[t]) <= MaxAttempts[t]
  <2>1. CASE attempts' = attempts
    BY <2>1, BoundAssumption DEF Reject, WriteFails, Trouble, EInv, Data
  <2>2. CASE WriteFails(c) /\ attempts' # attempts
    <3>1. PICK s \in Step : s = job[c].step
      BY <2>2 DEF WriteFails, At, IInv, Unsettled
    <3>2. /\ Len(attempts[s]) < MaxAttempts[s]
          /\ attempts' = [attempts EXCEPT ![s] = Append(@, "started")]
      BY <2>2, <3>1 DEF WriteFails, Admitted
    <3>3. trouble' \in 0..MaxTrouble
      BY <2>2, BoundAssumption DEF WriteFails, Trouble, EInv, Data
    <3> QED
      BY <3>2, <3>3, Another
  <2> QED
    BY <2>1, <2>2 DEF Reject, journal
<1>3. Data'
  BY <1>1, <1>2 DEF EInv, Data
<1> QED
  BY <1>1, <1>3, EndInforms

LEMMA EAbort ==
    ASSUME EInv, NEW c \in Caller, Abort(c)
    PROVE  EInv'
<1>1. /\ UNCHANGED <<attempts, evidence, locked, job, scan, ledger, tip, trouble>>
      /\ Busy(c) /\ aborted' = aborted \cup {c}
  BY DEF Abort, journal, world
<1>2. Data' /\ Flags'
  BY <1>1 DEF EInv, Data, Flags, Busy
<1> QED
  BY <1>1, <1>2 DEF EInv

\* The scan follows the source, and the source and its chain go on.
LEMMA EWorld ==
    ASSUME IInv, EInv, Sync \/ Block \/ \E s \in Step : Arrive(s) \/ Forget(s)
    PROVE  EInv'
<1>1. UNCHANGED <<attempts, evidence, locked, aborted, job>>
  BY DEF Sync, Block, Arrive, Forget, journal, session
<1>2. scan' \in {scan, tip} /\ tip' \in 0..MaxTip /\ tip <= tip' /\ trouble' \in 0..MaxTrouble
  BY BoundAssumption DEF Sync, Block, Arrive, Forget, journal, session, world, Trouble, EInv, Data
<1>3. ledger' \in [Step -> Ledger]
  BY DEF Sync, Block, Arrive, Forget, world, EInv, Data, Ledger
<1>4. Data' /\ scan <= scan'
  BY <1>1, <1>2, <1>3 DEF EInv, Data
<1>5. Flags'
  BY <1>1 DEF EInv, Flags, Busy
<1>6. ASSUME NEW c \in Caller PROVE Informed(job'[c], evidence', attempts', scan')
  <2>1. Informed(job[c], evidence, attempts, scan)
    BY DEF EInv
  <2>2. job[c].pc = "begin" => evidence[job[c].step].tip <= scan'
    <3>1. SUFFICES ASSUME job[c].pc = "begin" PROVE evidence[job[c].step].tip <= scan'
      OBVIOUS
    <3>2. evidence[job[c].step] \in EvidenceSet
      BY <3>1 DEF IInv, Unsettled, EInv, Data
    <3>3. evidence[job[c].step].tip \in Nat /\ scan \in Nat /\ scan' \in Nat
      BY <1>4, <3>2, BoundAssumption DEF EInv, Data, EvidenceSet
    <3> QED
      BY <1>4, <2>1, <3>1, <3>3 DEF Informed
  <2> QED
    BY <1>1, <2>1, <2>2 DEF Informed
<1> QED
  BY <1>4, <1>5, <1>6 DEF EInv

LEMMA ECrash ==
    ASSUME EInv, Crash
    PROVE  EInv'
<1>1. /\ \A c \in Caller : job'[c] = NoJob
      /\ locked' = FALSE /\ aborted' = {} /\ trouble' \in 0..MaxTrouble
      /\ UNCHANGED <<attempts, evidence, scan, ledger, tip>>
  BY BoundAssumption DEF Crash, Trouble, journal, world, EInv, Data
<1>2. Data' /\ Flags'
  BY <1>1 DEF EInv, Data, Flags
<1> QED
  BY <1>1, <1>2, NoJobInformed DEF EInv

LEMMA EStep ==
    ASSUME IInv, EInv, [Next]_vars
    PROVE  EInv'
<1>1. CASE UNCHANGED vars
  BY <1>1 DEF vars, journal, session, world, EInv, Data, Flags, Busy
<1>2. ASSUME NEW c \in Caller, Start(c) \/ Progress(c) \/ Reply(c) \/ NoReply(c)
                               \/ Reject(c) \/ Abort(c) \/ WriteFails(c)
      PROVE  EInv'
  BY <1>2, EStart, EReconcile, EObserve, EPrepare, EBegin, ESettle, EFinish, EEnds, EAbort
     DEF Progress
<1>3. CASE Sync \/ Block \/ \E s \in Step : Arrive(s) \/ Forget(s)
  BY <1>3, EWorld
<1>4. CASE Crash
  BY <1>4, ECrash
<1> QED
  BY <1>1, <1>2, <1>3, <1>4 DEF Next

\* The journal, the session and the world keep their types and bounds: an attempt that
\* was transmitted is one of the journal's, so the limits of attempts bound it too.
THEOREM TypeCorrect == Spec => []TypeOK
<1>1. Spec => []EInv
  BY Invariance, EInitially, EStep, PTL DEF Spec
<1>2. IInv /\ EInv => TypeOK
  <2> SUFFICES ASSUME IInv, EInv PROVE TypeOK
    OBVIOUS
  <2>1. ASSUME NEW s \in Step
        PROVE  flights[s] \in Seq([attempt : 1..MaxAttempts[s],
                                   fate : {"sent", "acknowledged", "rejected"}])
    <3>1. /\ flights[s] \in Seq(FlightSet) /\ attempts[s] \in Seq(Outcome)
          /\ Len(attempts[s]) <= MaxAttempts[s] /\ MaxAttempts[s] \in Nat
      BY BoundAssumption DEF IInv, Types, EInv, Data
    <3>2. \A n \in DOMAIN attempts[s] : n \in 1..MaxAttempts[s]
      BY <3>1
    <3>3. \A i \in DOMAIN flights[s] :
             flights[s][i] \in [attempt : 1..MaxAttempts[s],
                                fate : {"sent", "acknowledged", "rejected"}]
      <4> SUFFICES ASSUME NEW i \in DOMAIN flights[s]
                   PROVE  flights[s][i] \in [attempt : 1..MaxAttempts[s],
                                             fate : {"sent", "acknowledged", "rejected"}]
        OBVIOUS
      <4>1. flights[s][i] \in FlightSet
        BY <3>1
      <4>2. flights[s][i].attempt \in 1..MaxAttempts[s]
        BY <3>2 DEF IInv, OneTransmission
      <4> QED
        BY <4>1, <4>2 DEF FlightSet
    <3>4. \A A, B : \A q \in Seq(A) : (\A i \in DOMAIN q : q[i] \in B) => q \in Seq(B)
      OBVIOUS
    <3> QED
      BY <3>1, <3>3, <3>4
  <2>2. \A s \in Step : attempts[s] \in Seq(Outcome) /\ Len(attempts[s]) <= MaxAttempts[s]
    BY DEF IInv, Types, EInv, Data
  <2>3. /\ evidence \in [Step -> [state : {"none", "notSeen", "mempool", "mined"},
                                  tip : 0..MaxTip, of : Nat]]
        /\ locked \in BOOLEAN /\ aborted \subseteq {c \in Caller : Busy(c)}
        /\ scan \in 0..MaxTip /\ tip \in 0..MaxTip
        /\ ledger \in [Step -> {"notSeen", "mempool", "mined"}]
        /\ trouble \in 0..MaxTrouble /\ lost \subseteq Step
    BY DEF IInv, Types, EInv, Data, Flags, EvidenceSet, Ledger
  <2>4. job \in [Caller -> [pc : {"idle", "reconcile", "observe", "parent", "prepare",
                                  "refresh", "reobserve", "begin", "dispatch", "await",
                                  "finish"},
                            step : 0..LastStep, attempt : Nat,
                            refreshes : 0..MaxRefreshes, outcome : Outcome]]
    <3>1. job \in [Caller -> JobSet] /\ \A c \in Caller : job[c].refreshes \in 0..MaxRefreshes
      BY DEF IInv, Types, EInv, Informed
    <3> QED
      BY <3>1 DEF JobSet, Pc, Settling, Outcome
  <2> QED
    BY <2>1, <2>2, <2>3, <2>4 DEF TypeOK
<1> QED
  BY <1>1, <1>2, Invariance, PTL

\* What an attempt that begins may rely on, as EvidenceFirst states it.
Relies ==
    \A s \in Step : Begun(s) =>
        /\ evidence[s].tip <= scan
        /\ \A p \in Parents[s] : evidence[p].of = Len(attempts[p])

LEMMA StepRelies ==
    ASSUME IInv, EInv, [Next]_vars
    PROVE  Relies
<1> SUFFICES ASSUME NEW s \in Step, Begun(s)
             PROVE  /\ evidence[s].tip <= scan
                    /\ \A p \in Parents[s] : evidence[p].of = Len(attempts[p])
  BY DEF Relies
<1>1. Len(attempts'[s]) # Len(attempts[s])
  <2>1. attempts[s] \in Seq(Outcome)
    BY DEF IInv, Types
  <2>2. Len(attempts[s]) \in Nat
    BY <2>1
  <2> QED
    BY <2>2 DEF Begun
<1>2. ASSUME NEW c \in Caller PROVE ~Reconcile(c) /\ ~Finish(c)
  <2>1. attempts' \in [Step -> Seq(Outcome)]
    <3>1. IInv'
      BY NextStep
    <3> QED
      BY <3>1 DEF IInv, Types
  <2>2. attempts[s] \in Seq(Outcome) /\ attempts'[s] \in Seq(Outcome)
    BY <2>1 DEF IInv, Types
  <2>3. DOMAIN attempts'[s] # DOMAIN attempts[s]
    BY <1>1, <2>2
  <2> QED
    BY <2>3, Reconciled, Finished
<1>3. PICK c \in Caller :
         /\ At(c, "begin")
         /\ attempts' = [attempts EXCEPT ![job[c].step] = Append(@, "started")]
  <2>1. attempts' # attempts
    BY <1>1
  <2>2. PICK c \in Caller : Begin(c) \/ WriteFails(c)
    BY <1>2, <2>1 DEF Next, Progress, Start, ObserveAll, ObserveParent, Check, Refresh,
       Reobserve, NoAttempt, Dispatch, Reply, NoReply, Reject, Abort, Arrive, Forget, Sync,
       Block, Crash, vars, journal
  <2> QED
    BY <2>1, <2>2 DEF Begin, WriteFails
<1>4. s = job[c].step
  <2>1. job[c].step \in Step /\ attempts \in [Step -> Seq(Outcome)]
    BY <1>3 DEF At, IInv, Types, Unsettled
  <2> QED
    BY <1>1, <1>3, <2>1
<1>5. Informed(job[c], evidence, attempts, scan)
  BY DEF EInv
<1>6. \A p \in Parents[s] : p \in Step /\ HasChild(p)
  BY ParentsAssumption DEF HasChild
<1> QED
  BY <1>3, <1>4, <1>5, <1>6 DEF At, Informed, Working

\* An attempt begins on evidence of a chain that the wallet has scanned, and a child on
\* evidence that is newer than every attempt of its parents (prepareSubmission,
\* submitUnlocked): also when other callers sync, abort or have crashed in between.
THEOREM EvidenceIsFirst == Spec => EvidenceFirst
<1>1. Spec => []EInv
  BY Invariance, EInitially, EStep, PTL DEF Spec
<1>2. IInv /\ EInv /\ [Next]_vars => [Relies]_vars
  BY StepRelies
<1>3. [][Relies]_vars <=> EvidenceFirst
  BY PTL DEF EvidenceFirst, Relies
<1> QED
  BY <1>1, <1>2, <1>3, Invariance, PTL DEF Spec
=============================================================================
