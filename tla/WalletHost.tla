----------------------------- MODULE WalletHost -----------------------------
(***************************************************************************)
(* The command queue between the wallet API and its native worker.         *)
(*                                                                         *)
(* wallet/host.ts attaches one port per opened wallet.  All ports of one   *)
(* native owner share a WalletQueueBudget: the number and bytes of         *)
(* admitted jobs, one `active` flag (the native engine runs one command at *)
(* a time), the pumps to wake when a job is released, and a crash hook     *)
(* that stops every port.  wallet/worker.ts and wallet/session.ts answer   *)
(* on the other side of the port.                                          *)
(*                                                                         *)
(* A call settles exactly once.  Its status then is "ok" or the completion *)
(* of the receipt kept for its rejection: "none", "committed", "unknown".  *)
(***************************************************************************)
EXTENDS Integers, FiniteSets, SequencesExt

CONSTANTS
    Port,          \* the wallet ports of one native owner
    Call,          \* the calls the callers make over the owner's life
    Request,       \* the requests a call may make
    MaxQueuedJobs,
    MaxQueuedBytes,
    NoCall         \* no call: an idle port, an empty wire

\* "issue" creates a mnemonic signer and its native token, "release" is the
\* cleanup control of such a token, "close" is the control that close() sends.
Kind == {"read", "write", "issue", "release", "close"}

ASSUME PortAssumption == IsFiniteSet(Port)
ASSUME CallAssumption == IsFiniteSet(Call) /\ NoCall \notin Call
ASSUME RequestAssumption ==
    /\ Request \subseteq [port : Port, kind : Kind, size : Nat, signal : BOOLEAN]
    /\ \A r \in Request : r.kind = "close" => r.size = 0 /\ ~r.signal
ASSUME LimitAssumption ==
    MaxQueuedJobs \in Nat \ {0} /\ MaxQueuedBytes \in Nat \ {0}

VARIABLES
    req,           \* req[c]: the request call c makes (never changes)
    status,        \* status[c]: "idle", "queued", "active" or its settlement
    queue,         \* queue[p]: the calls waiting at port p, in admission order
    ready,         \* calls whose abort listener is installed (job.ready)
    cancelled,     \* calls aborted by their caller (job.cancelled)
    active,        \* active[p]: the call port p has posted to the worker
    id,            \* id[c]: the job id that admission assigned
    nextId,        \* nextId[p]: the last job id of port p
    bytes,         \* bytes[p]: the bytes of the outstanding jobs of port p
    shared,        \* [jobs, bytes, active]: the budget all ports share
    wake,          \* a microtask is queued that calls every pump
    tokens,        \* calls that issued a signer token the host registered
    closing,       \* closing[p]: "open", "closing" or "closed"
    stopped,       \* ports that accept nothing any more
    destroyed,     \* ports whose transport and worker have been disposed
    wire,          \* wire[p]: the call on its way to the worker
    reply,         \* reply[p]: the worker's answer on its way back
    lastId,        \* lastId[p]: the last id the worker of port p accepted
    effect         \* calls whose durable change the native engine has made

hostVars == <<status, queue, ready, cancelled, active, id, nextId, bytes,
              shared, wake, tokens, closing, stopped, destroyed>>
workerVars == <<wire, reply, lastId, effect>>
vars == <<req, hostVars, workerVars>>

Settlement == {"ok", "none", "committed", "unknown"}
Outstanding == {c \in Call : status[c] \in {"queued", "active"}}
OnPort(p) == {c \in Outstanding : req[c].port = p}

\* The close control is counted in no budget.
Counted == {c \in Outstanding : req[c].kind # "close"}
Size(S) == MapThenSumSet(LAMBDA c : req[c].size, S)
Queued(p) == {queue[p][i] : i \in DOMAIN queue[p]}

NoReply == [call |-> NoCall, ok |-> FALSE, completion |-> "none", invalid |-> FALSE]

Init ==
    /\ req \in [Call -> Request]
    /\ status = [c \in Call |-> "idle"]
    /\ queue = [p \in Port |-> <<>>]
    /\ ready = {} /\ cancelled = {} /\ tokens = {} /\ effect = {}
    /\ active = [p \in Port |-> NoCall]
    /\ id = [c \in Call |-> 0]
    /\ nextId = [p \in Port |-> 0]
    /\ bytes = [p \in Port |-> 0]
    /\ shared = [jobs |-> 0, bytes |-> 0, active |-> FALSE]
    /\ wake = FALSE
    /\ closing = [p \in Port |-> "open"]
    /\ stopped = {} /\ destroyed = {}
    /\ wire = [p \in Port |-> NoCall]
    /\ reply = [p \in Port |-> NoReply]
    /\ lastId = [p \in Port |-> 0]

-----------------------------------------------------------------------------
(* Pumping and releasing *)

\* pump() posts the head of the queue, and only the head, when it is ready and
\* the owner is idle.  q, rdy, act and busy are what the handler left behind.
CanPostWhileBusy(p, q, rdy, act, busy) ==    \* plausible bug: only this port is asked
    act = NoCall /\ p \notin stopped /\ q # <<>> /\ Head(q) \in rdy

CanPost(p, q, rdy, act, busy) ==
    /\ act = NoCall
    /\ p \notin stopped
    /\ ~busy
    /\ q # <<>>
    /\ Head(q) \in rdy

\* The last part of a handler that ends in pump(): st, q, rdy, act and budget
\* are the status, the port's queue, the ready calls, the port's active call
\* and the shared budget before the pump.
PumpAfter(p, st, q, rdy, act, budget) ==
    /\ ready' = rdy
    /\ IF CanPost(p, q, rdy, act, budget.active)
         THEN /\ queue' = [queue EXCEPT ![p] = Tail(q)]
              /\ active' = [active EXCEPT ![p] = Head(q)]
              /\ status' = [st EXCEPT ![Head(q)] = "active"]
              /\ shared' = [budget EXCEPT !.active = TRUE]
              /\ wire' = [wire EXCEPT ![p] = Head(q)]
         ELSE /\ queue' = [queue EXCEPT ![p] = q]
              /\ active' = [active EXCEPT ![p] = act]
              /\ status' = st
              /\ shared' = budget
              /\ UNCHANGED wire

\* release(job): the budget without call c.
ReleasedClose(c) ==      \* plausible bug: the close control is given back too
    [jobs |-> shared.jobs - 1, bytes |-> shared.bytes - req[c].size,
     active |-> IF active[req[c].port] = c THEN FALSE ELSE shared.active]
ReleasedJobOnly(c) ==    \* plausible bug: the bytes stay reserved
    [shared EXCEPT !.jobs = IF req[c].kind = "close" THEN @ ELSE @ - 1,
                   !.active = IF active[req[c].port] = c THEN FALSE ELSE @]

Released(c) ==
    [jobs   |-> IF req[c].kind = "close" THEN shared.jobs ELSE shared.jobs - 1,
     bytes  |-> IF req[c].kind = "close" THEN shared.bytes
                                         ELSE shared.bytes - req[c].size,
     active |-> IF active[req[c].port] = c THEN FALSE ELSE shared.active]

\* A queued call leaves the queue unposted: the splice that cancellation and a
\* failed abort listener share.  Nothing was sent, so the completion is none.
Unqueue(c) ==
    LET p == req[c].port
    IN  /\ \E i \in DOMAIN queue[p] :
             /\ queue[p][i] = c
             /\ PumpAfter(p, [status EXCEPT ![c] = "none"], RemoveAt(queue[p], i),
                          ready, active[p], Released(c))
        /\ bytes' = [bytes EXCEPT ![p] = @ - req[c].size]
        /\ wake' = TRUE
        /\ UNCHANGED <<req, id, nextId, tokens, closing, stopped, destroyed,
                       reply, lastId, effect>>

-----------------------------------------------------------------------------
(* Admission *)

Refused(c) ==
    /\ status' = [status EXCEPT ![c] = "none"]
    /\ UNCHANGED <<req, queue, ready, cancelled, active, id, nextId, bytes,
                   shared, wake, tokens, closing, stopped, destroyed, workerVars>>

\* The port no longer accepts a call other than its own close.
Shut(p) == p \in stopped \/ closing[p] # "open"

\* Work may not exceed the port's or the owner's limits; a release may.
OverLimit(c) ==
    LET p == req[c].port
    IN  /\ req[c].kind # "release"
        /\ \/ Len(queue[p]) + (IF active[p] = NoCall THEN 0 ELSE 1) >= MaxQueuedJobs
           \/ req[c].size > MaxQueuedBytes - bytes[p]
           \/ shared.jobs >= MaxQueuedJobs
           \/ req[c].size > MaxQueuedBytes - shared.bytes

\* signers.release() makes one call per registered token and remembers it, so
\* there are never more release calls than tokens.
Releases == {c \in Call : req[c].kind = "release" /\ status[c] # "idle"}
ReleaseAllowed(c) ==
    req[c].kind = "release" => Cardinality(Releases) < Cardinality(tokens)

Refuse(c) ==
    /\ status[c] = "idle"
    /\ req[c].kind # "close"
    /\ ReleaseAllowed(c)
    /\ \/ Shut(req[c].port)
       \/ req[c].size > MaxQueuedBytes         \* snapshot(): the input alone is too large
       \/ req[c].signal                        \* the signal was aborted beforehand
       \/ OverLimit(c)
    /\ Refused(c)

CloseFirst(q, c) ==      \* plausible bug: the close control overtakes
    IF req[c].kind = "close" THEN <<c>> \o q ELSE Append(q, c)
Behind(q, c) == Append(q, c)

Enqueue(c) ==
    LET p == req[c].port
    IN  /\ status' = [status EXCEPT ![c] = "queued"]
        /\ queue' = [queue EXCEPT ![p] = Behind(@, c)]
        /\ id' = [id EXCEPT ![c] = nextId[p] + 1]
        /\ nextId' = [nextId EXCEPT ![p] = @ + 1]

Admit(c) ==
    LET p == req[c].port
    IN  /\ status[c] = "idle"
        /\ req[c].kind # "close"
        /\ ReleaseAllowed(c)
        /\ ~Shut(p)
        /\ req[c].size <= MaxQueuedBytes
        /\ ~OverLimit(c)
        /\ Enqueue(c)
        /\ bytes' = [bytes EXCEPT ![p] = @ + req[c].size]
        /\ shared' = [shared EXCEPT !.jobs = @ + 1, !.bytes = @ + req[c].size]
        /\ UNCHANGED <<req, ready, cancelled, active, wake, tokens, closing,
                       stopped, destroyed, workerVars>>

\* close(): one control of size 0 takes its place behind the admitted work.
Close(c) ==
    LET p == req[c].port
    IN  /\ status[c] = "idle"
        /\ req[c].kind = "close"
        /\ closing[p] = "open"
        /\ closing' = [closing EXCEPT ![p] = "closing"]
        /\ IF p \in stopped
             THEN /\ status' = [status EXCEPT ![c] = "none"]
                  /\ UNCHANGED <<queue, id, nextId>>
             ELSE Enqueue(c)
        /\ UNCHANGED <<req, ready, cancelled, active, bytes, shared, wake,
                       tokens, stopped, destroyed, workerVars>>

-----------------------------------------------------------------------------
(* What happens to an admitted call *)

WatchedWithoutPump(c) == \* plausible bug: ready, but nobody looks at the queue
    /\ status[c] = "queued"
    /\ c \notin ready
    /\ ready' = ready \cup {c}
    /\ UNCHANGED <<req, status, queue, cancelled, active, id, nextId, bytes, shared,
                   wake, tokens, closing, stopped, destroyed, workerVars>>

\* watch() resolved: the abort listener is in place and the call may be posted.
Watched(c) ==
    LET p == req[c].port
    IN  /\ status[c] = "queued"
        /\ c \notin ready
        /\ PumpAfter(p, status, queue[p], ready \cup {c}, active[p], shared)
        /\ UNCHANGED <<req, cancelled, id, nextId, bytes, wake, tokens, closing,
                       stopped, destroyed, reply, lastId, effect>>

\* watch() rejected (a foreign signal): the call leaves the queue.
WatchFailed(c) ==
    /\ req[c].signal
    /\ c \notin ready
    /\ Unqueue(c)
    /\ UNCHANGED cancelled

\* The caller aborts.  A queued call is withdrawn; an active one keeps running
\* and only its settlement changes.
Cancel(c) ==
    /\ req[c].signal
    /\ c \notin cancelled
    /\ cancelled' = cancelled \cup {c}
    /\ \/ Unqueue(c)
       \/ /\ status[c] = "active"
          /\ UNCHANGED <<req, status, queue, ready, active, id, nextId, bytes,
                         shared, wake, tokens, closing, stopped, destroyed,
                         workerVars>>

\* The microtask release() queued: every pump in turn, so at most one posts.
Wake ==
    /\ wake
    /\ wake' = FALSE
    /\ \/ \E p \in Port :
             /\ CanPost(p, queue[p], ready, active[p], shared.active)
             /\ PumpAfter(p, status, queue[p], ready, active[p], shared)
       \/ /\ \A p \in Port : ~CanPost(p, queue[p], ready, active[p], shared.active)
          /\ UNCHANGED <<status, queue, ready, active, shared, wire>>
    /\ UNCHANGED <<req, cancelled, id, nextId, bytes, tokens, closing, stopped,
                   destroyed, reply, lastId, effect>>

-----------------------------------------------------------------------------
(* The worker and the native engine (the engine itself is external) *)

Durable(c) == req[c].kind \in {"write", "issue"}

\* The envelope check of worker.ts: ids increase, and nothing follows a close.
Takes(p, c) ==
    /\ id[c] > lastId[p]
    /\ ~\E d \in Call : /\ req[d].kind = "close" /\ req[d].port = p
                        /\ id[d] > 0 /\ id[d] <= lastId[p]

\* The engine runs the call.  A success of a write command has committed.  A
\* failure carries the engine's own word: none, committed, or nothing, which
\* the session reads as unknown.  A call that the worker does not take is
\* answered without such a word.
Run(p) ==
    LET c == wire[p]
        answer(ok, completion, invalid) ==
            [call |-> c, ok |-> ok, completion |-> completion, invalid |-> invalid]
    IN  /\ c # NoCall
        /\ p \notin destroyed
        /\ wire' = [wire EXCEPT ![p] = NoCall]
        /\ lastId' = [lastId EXCEPT ![p] = IF id[c] > @ THEN id[c] ELSE @]
        /\ IF Takes(p, c)
             THEN \/ /\ reply' = [reply EXCEPT ![p] =
                          answer(TRUE, IF Durable(c) THEN "committed" ELSE "none", FALSE)]
                     /\ effect' = IF Durable(c) THEN effect \cup {c} ELSE effect
                  \/ \E invalid \in BOOLEAN :
                     /\ reply' = [reply EXCEPT ![p] = answer(FALSE, "none", invalid)]
                     /\ UNCHANGED effect
                  \/ \E invalid \in BOOLEAN :
                     /\ Durable(c)
                     /\ reply' = [reply EXCEPT ![p] = answer(FALSE, "committed", invalid)]
                     /\ effect' = effect \cup {c}
                  \/ \E invalid \in BOOLEAN :
                     /\ reply' = [reply EXCEPT ![p] = answer(FALSE, "unknown", invalid)]
                     /\ \/ UNCHANGED effect
                        \/ Durable(c) /\ effect' = effect \cup {c}
             ELSE /\ reply' = [reply EXCEPT ![p] = answer(FALSE, "unknown", FALSE)]
                  /\ UNCHANGED effect
        /\ UNCHANGED <<req, hostVars>>

-----------------------------------------------------------------------------
(* The answer *)

ToldNone(r) ==           \* plausible bug: an abort always reads as "nothing happened"
    IF r.call \in cancelled THEN "none" ELSE IF r.ok THEN "ok" ELSE r.completion

\* A success that the caller has aborted is rejected with what it completed.
Told(r) ==
    IF r.ok /\ r.call \notin cancelled THEN "ok" ELSE r.completion

\* onmessage for a well-formed answer that leaves the port usable.  The answer
\* to close stops the port, whatever it says.
Receive(p) ==
    LET r == reply[p]
        c == r.call
    IN  /\ c # NoCall
        /\ p \notin stopped
        /\ active[p] = c
        /\ ~r.invalid
        /\ reply' = [reply EXCEPT ![p] = NoReply]
        /\ bytes' = [bytes EXCEPT ![p] = @ - req[c].size]
        /\ tokens' = IF r.ok /\ req[c].kind = "issue" THEN tokens \cup {c} ELSE tokens
        /\ wake' = TRUE
        /\ PumpAfter(p, [status EXCEPT ![c] = Told(r)], queue[p], ready, NoCall, Released(c))
        /\ stopped' = IF req[c].kind = "close" THEN stopped \cup {p} ELSE stopped
        /\ UNCHANGED <<req, cancelled, id, nextId, closing, destroyed, lastId, effect>>

CrashedAllNone(stage) == \* plausible bug: a posted call is reported as never run
    IF stage \in {"active", "queued"} THEN "none" ELSE stage
Crashed(stage) ==
    CASE stage = "active" -> "unknown"
      [] stage = "queued" -> "none"
      [] OTHER -> stage

\* crashed() on every port of the owner: active calls are unknown, queued calls
\* were never posted.  st is the status the handler left before it crashed.
CrashFrom(st) ==
    /\ status' = [c \in Call |-> Crashed(st[c])]
    /\ queue' = [p \in Port |-> <<>>]
    /\ active' = [p \in Port |-> NoCall]
    /\ bytes' = [p \in Port |-> bytes[p] - Size(OnPort(p))]
    /\ shared' = [jobs   |-> shared.jobs - Cardinality(Counted),
                  bytes  |-> shared.bytes - Size(Counted),
                  active |-> FALSE]
    /\ wake' = TRUE
    /\ stopped' = Port
    /\ UNCHANGED <<req, ready, cancelled, id, nextId, tokens, closing, destroyed>>

\* Worker loss, a message error, a failed post, an answer that is malformed,
\* that repeats a signer token, or that claims success and invalidity at once.
Crash ==
    /\ stopped # Port
    /\ CrashFrom(status)
    /\ UNCHANGED workerVars

\* A failure after which the engine is unusable: the call is answered first.
ReceiveInvalid(p) ==
    LET r == reply[p]
    IN  /\ r.call # NoCall
        /\ p \notin stopped
        /\ active[p] = r.call
        /\ r.invalid
        /\ reply' = [reply EXCEPT ![p] = NoReply]
        /\ CrashFrom([status EXCEPT ![r.call] = r.completion])
        /\ UNCHANGED <<wire, lastId, effect>>

DisposeAfterCrash(p) ==  \* plausible bug: close() forgets to dispose
    /\ p \in stopped /\ p \notin destroyed /\ closing[p] = "open"
    /\ destroyed' = destroyed \cup {p}
    /\ UNCHANGED <<req, status, queue, ready, cancelled, active, id, nextId,
                   bytes, shared, wake, tokens, closing, stopped, workerVars>>
\* dispose(): destroy the transport; a pending close() resolves afterwards.
Dispose(p) ==
    /\ p \in stopped
    /\ p \notin destroyed
    /\ destroyed' = destroyed \cup {p}
    /\ UNCHANGED <<req, status, queue, ready, cancelled, active, id, nextId,
                   bytes, shared, wake, tokens, closing, stopped, workerVars>>

Closed(p) ==
    /\ closing[p] = "closing"
    /\ p \in destroyed
    /\ closing' = [closing EXCEPT ![p] = "closed"]
    /\ UNCHANGED <<req, status, queue, ready, cancelled, active, id, nextId,
                   bytes, shared, wake, tokens, stopped, destroyed, workerVars>>

-----------------------------------------------------------------------------
PortStep(p) == Run(p) \/ Receive(p) \/ ReceiveInvalid(p) \/ Dispose(p) \/ Closed(p)

\* Every call that was made has settled and nobody makes another.
Quiet ==
    /\ Outstanding = {}
    /\ UNCHANGED vars

Next ==
    \/ \E c \in Call : Refuse(c) \/ Admit(c) \/ Close(c)
    \/ \E c \in Call : Watched(c) \/ WatchFailed(c) \/ Cancel(c)
    \/ \E p \in Port : PortStep(p)
    \/ Wake
    \/ Crash
    \/ Quiet

Spec == Init /\ [][Next]_vars

\* Promises settle, microtasks run, and the engine answers every command it is
\* sent.  Callers need not call, abort or close, and nothing has to crash.
Fairness ==
    /\ \A c \in Call : WF_vars(Watched(c))
    /\ \A p \in Port : WF_vars(PortStep(p))
    /\ WF_vars(Wake)

FairSpec == Spec /\ Fairness

-----------------------------------------------------------------------------
(* Properties *)

\* The host's state keeps its types through every abort, answer and crash; the
\* job counter never goes below zero and only a stopped port is disposed of.
TypeOK ==
    /\ req \in [Call -> Request]
    /\ status \in [Call -> {"idle", "queued", "active"} \cup Settlement]
    /\ queue \in [Port -> Seq(Call)]
    /\ ready \subseteq Call /\ cancelled \subseteq Call
    /\ tokens \subseteq Call /\ effect \subseteq Call
    /\ active \in [Port -> Call \cup {NoCall}]
    /\ wire \in [Port -> Call \cup {NoCall}]
    /\ id \in [Call -> Nat]
    /\ nextId \in [Port -> Nat] /\ lastId \in [Port -> Nat]
    /\ reply \in [Port -> [call : Call \cup {NoCall}, ok : BOOLEAN,
                           completion : {"none", "committed", "unknown"},
                           invalid : BOOLEAN]]
    /\ DOMAIN shared = {"jobs", "bytes", "active"}
    /\ shared.jobs \in Nat /\ shared.active \in BOOLEAN
    /\ wake \in BOOLEAN
    /\ closing \in [Port -> {"open", "closing", "closed"}]
    /\ stopped \subseteq Port /\ destroyed \subseteq stopped

\* A caller is told the truth.  A call that settled as "none" changed nothing,
\* not even later, when a worker that outlives a crash finishes what it was
\* sent; "committed" and a successful write mean that the change was made.
ReceiptsHonest ==
    \A c \in Call :
        /\ status[c] = "none" => c \notin effect
        /\ status[c] = "committed" => c \in effect
        /\ status[c] = "ok" /\ Durable(c) => c \in effect

\* The native engine of an owner is never sent a second command while it has
\* one, over whatever port, and the shared flag says exactly whether it has.
OneCommandAtATime ==
    /\ shared.active <=> \E p \in Port : active[p] # NoCall
    /\ \A p1, p2 \in Port : p1 # p2 =>
          /\ active[p1] = NoCall \/ active[p2] = NoCall
          /\ wire[p1] = NoCall \/ wire[p2] = NoCall

\* The budget never drifts and never overflows: whatever mix of refusals, aborts,
\* answers, closes and crashes happened, the counters equal what is outstanding,
\* work stays within the owner's limit, and only one reserved release per issued
\* token may exceed it.
BudgetExact ==
    /\ shared.jobs = Cardinality(Counted)
    /\ shared.bytes = Size(Counted)
    /\ \A p \in Port : bytes[p] = Size(OnPort(p))
    /\ Cardinality({c \in Counted : req[c].kind # "release"}) <= MaxQueuedJobs
    /\ shared.jobs <= MaxQueuedJobs + Cardinality(tokens)

\* No lost wakeup: when the engine is idle and some port could post, the
\* microtask that will pump it is already queued.
NoLostWakeup ==
    (\E p \in Port : CanPost(p, queue[p], ready, active[p], shared.active)) => wake

\* close() drains: when it succeeds every call that was admitted on its port has
\* settled, and nothing of that port can reach the engine any more.
CloseDrains ==
    \A d \in Call : req[d].kind = "close" /\ status[d] = "ok" =>
        /\ OnPort(req[d].port) = {}
        /\ wire[req[d].port] = NoCall

\* The queue implements the abstract promise about settlements.
Receipts == INSTANCE CallReceipts WITH
    phase  <- [c \in Call |-> IF status[c] \in {"queued", "active"} THEN "pending"
                              ELSE status[c]],
    writes <- {c \in Call : Durable(c)}
ImplementsReceipts == Receipts!Spec

\* Every admitted call settles, whatever is aborted, closed or crashes meanwhile,
\* and close() resolves, also when it waits behind queued work or meets a crash.
EveryCallSettles ==
    /\ \A c \in Call : status[c] \in {"queued", "active"} ~> status[c] \in Settlement
    /\ \A p \in Port : closing[p] = "closing" ~> closing[p] = "closed"
=============================================================================
