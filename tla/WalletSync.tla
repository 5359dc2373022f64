----------------------------- MODULE WalletSync -----------------------------
(***************************************************************************)
(* Who runs a wallet's sync, who watches it, and how all of it ends.       *)
(*                                                                         *)
(* A wallet has at most one finite run at a time (wallet/sync.ts).  It is  *)
(* started by a caller of sync(), by a submission that refreshes, or by    *)
(* the background loop that serves the subscribers of watchSync().  The    *)
(* loop and a submission may also join a run that somebody else started;   *)
(* then they do not own it.  Each subscriber has a bounded single-reader   *)
(* buffer (observer-buffer.ts).  close() of the client (wallet.ts) aborts  *)
(* every signal, stops the sync, and waits.                                *)
(*                                                                         *)
(* What a run does with blocks is left out: it reaches its target, is      *)
(* stopped, or fails, transiently or for good.  That is ScanRun, from      *)
(* whose names these differ, so that one module can extend both.           *)
(***************************************************************************)
EXTENDS Integers

CONSTANTS
    Watcher,       \* the iterators of watchSync()
    Capacity       \* observation.maxBufferedUpdates

ASSUME CapacityAssumption == Capacity \in Nat \ {0}
ASSUME WatcherAssumption == Watcher \cap {"caller", "submission"} = {}

VARIABLES
    stage,         \* stage[w]: "new", "starting", "on" (subscribed) or "done"
    buffer,        \* buffer[w]: the number of statuses waiting for their reader
    reading,       \* the watchers with a pending next()
    aborted,       \* the users who have aborted their signal
    running,       \* the run: its owner, phase, outcome, and whether it was cut
    watching,      \* the background loop: "none", "join", "own", "delay", "ending"
    watchCut,      \* watchController is aborted
    submission,    \* a refresh for a submission: "idle", "own" or "joined"
    closing        \* what close() waits for: "open" (not closing), "run", "watch",
                   \* "drain" or, at last, "closed"

syncVars == <<stage, buffer, reading, aborted, running, watching, watchCut, submission,
              closing>>

User == Watcher \cup {"caller", "submission"}
Subscribers == {w \in Watcher : stage[w] = "on"}

NotRunning == [owner |-> "none", phase |-> "none", outcome |-> "none", cut |-> FALSE]
RunOf(owner) == [owner |-> owner, phase |-> "start", outcome |-> "none", cut |-> FALSE]
HasRun == running # NotRunning

\* dependent.aborted: the signals of the owner and of stop().
IsCut == running.cut \/ (running.owner = "watch" /\ watchCut)

SyncInit ==
    /\ stage = [w \in Watcher |-> "new"]
    /\ buffer = [w \in Watcher |-> 0]
    /\ reading = {} /\ aborted = {}
    /\ running = NotRunning
    /\ watching = "none" /\ watchCut = FALSE
    /\ submission = "idle"
    /\ closing = "open"

-----------------------------------------------------------------------------
(* Subscriptions *)

\* The watchers ws end with an error or without, and what they had buffered is
\* dropped.  The last subscriber that leaves aborts the loop.
Finish(ws) ==
    /\ stage' = [w \in Watcher |-> IF w \in ws THEN "done" ELSE stage[w]]
    /\ buffer' = [w \in Watcher |-> IF w \in ws THEN 0 ELSE buffer[w]]
    /\ watchCut' = (watching # "none" /\ (watchCut \/ Subscribers \subseteq ws))

\* startWatching(): the loop joins a run or starts one.
BeginWatching ==
    /\ watchCut' = FALSE
    /\ IF HasRun THEN watching' = "join" /\ UNCHANGED running
                 ELSE watching' = "own" /\ running' = RunOf("watch")

\* next(): the first one starts the iterator, one after the end returns at once.
Read(w) ==
    /\ closing = "open"
    /\ stage[w] # "done" /\ w \notin reading
    /\ stage[w] = "new" => w \notin aborted
    /\ reading' = reading \cup {w}
    /\ stage' = [stage EXCEPT ![w] = IF @ = "new" THEN "starting" ELSE @]
    /\ UNCHANGED <<buffer, aborted, running, watching, watchCut, submission, closing>>

SubscribeAnyway(w) ==            \* plausible bug: the signal is checked before the read only
    /\ stage[w] = "starting"
    /\ stage' = [stage EXCEPT ![w] = "on"]
    /\ buffer' = [buffer EXCEPT ![w] = 1]
    /\ IF watching = "none" THEN BeginWatching ELSE UNCHANGED <<running, watching, watchCut>>
    /\ UNCHANGED <<reading, aborted, submission, closing>>
\* The initial status is read: the watcher subscribes, unless its signal, which
\* close() aborts too, has been aborted meanwhile.
Subscribe(w) ==
    /\ stage[w] = "starting"
    /\ w \notin aborted
    /\ stage' = [stage EXCEPT ![w] = "on"]
    /\ buffer' = [buffer EXCEPT ![w] = 1]
    /\ IF watching = "none" THEN BeginWatching ELSE UNCHANGED <<running, watching, watchCut>>
    /\ UNCHANGED <<reading, aborted, submission, closing>>

\* The status cannot be read, there is no light client, or the signal is aborted.
NotSubscribed(w) ==
    /\ stage[w] = "starting"
    /\ Finish({w})
    /\ UNCHANGED <<reading, aborted, running, watching, submission, closing>>

\* next() returns a status, the end, or the error.
Deliver(w) ==
    /\ w \in reading
    /\ \/ stage[w] = "done" /\ UNCHANGED buffer
       \/ buffer[w] > 0 /\ buffer' = [buffer EXCEPT ![w] = @ - 1]
    /\ reading' = reading \ {w}
    /\ UNCHANGED <<stage, aborted, running, watching, watchCut, submission, closing>>

\* return()
Return(w) ==
    /\ stage[w] # "done"
    /\ Finish({w})
    /\ UNCHANGED <<reading, aborted, running, watching, submission, closing>>

AbortWatcher(w) ==
    /\ w \notin aborted
    /\ aborted' = aborted \cup {w}
    /\ IF stage[w] = "on" THEN Finish({w}) ELSE UNCHANGED <<stage, buffer, watchCut>>
    /\ UNCHANGED <<reading, running, watching, submission, closing>>

\* Another iterator with another signal.
WatchAgain(w) ==
    /\ closing = "open"
    /\ stage[w] = "done" /\ w \notin reading
    /\ stage' = [stage EXCEPT ![w] = "new"]
    /\ aborted' = aborted \ {w}
    /\ UNCHANGED <<buffer, reading, running, watching, watchCut, submission, closing>>

-----------------------------------------------------------------------------
(* Runs *)

\* sync() is refused (STORAGE_BUSY) while there is a run.
Sync ==
    /\ closing = "open"
    /\ ~HasRun
    /\ running' = RunOf("caller")
    /\ aborted' = aborted \ {"caller"}
    /\ UNCHANGED <<stage, buffer, reading, watching, watchCut, submission, closing>>

\* refreshForSubmission(): join the run, or start one.
Refresh ==
    /\ closing = "open"
    /\ submission = "idle"
    /\ aborted' = aborted \ {"submission"}
    /\ IF HasRun THEN submission' = "joined" /\ UNCHANGED running
                 ELSE submission' = "own" /\ running' = RunOf("submission")
    /\ UNCHANGED <<stage, buffer, reading, watching, watchCut, closing>>

AbortCaller ==
    /\ running.owner = "caller" /\ "caller" \notin aborted
    /\ aborted' = aborted \cup {"caller"}
    /\ running' = [running EXCEPT !.cut = TRUE]
    /\ UNCHANGED <<stage, buffer, reading, watching, watchCut, submission, closing>>

AbortJoinedRun ==                \* plausible bug: who joins a run owns it
    /\ submission # "idle"
    /\ aborted' = aborted \cup {"submission"}
    /\ submission' = "idle"
    /\ running' = [running EXCEPT !.cut = TRUE]
    /\ UNCHANGED <<stage, buffer, reading, watching, watchCut, closing>>
\* The wait rejects at once; only a run of its own is cut.
AbortSubmission ==
    /\ submission # "idle"
    /\ aborted' = aborted \cup {"submission"}
    /\ submission' = "idle"
    /\ running' = [running EXCEPT !.cut = @ \/ submission = "own"]
    /\ UNCHANGED <<stage, buffer, reading, watching, watchCut, closing>>

Full == {w \in Subscribers : buffer[w] = Capacity}

\* publish(), and the watchers ws end after it.  A subscriber whose buffer is full
\* ends with an error.
Publish(ws) ==
    /\ stage' = [w \in Watcher |-> IF w \in ws \cup Full THEN "done" ELSE stage[w]]
    /\ buffer' = [w \in Watcher |-> IF w \in ws \cup Full THEN 0
                                    ELSE buffer[w] + (IF stage[w] = "on" THEN 1 ELSE 0)]
    /\ watchCut' = (watching # "none" /\ (watchCut \/ Subscribers \subseteq ws \cup Full))

\* The local reads at the beginning; the subscribers see that a run has begun, also
\* when it was cut during these reads.
RunBegins ==
    /\ running.phase = "start"
    /\ running' = [running EXCEPT !.phase = "work"]
    /\ Publish({})
    /\ UNCHANGED <<reading, aborted, watching, submission, closing>>

Answered(outcome) ==
    /\ running' = [running EXCEPT !.phase = "report", !.outcome = outcome]
    /\ UNCHANGED <<stage, buffer, reading, aborted, watching, watchCut, submission,
                   closing>>

\* The source and the native engine have answered, or have not within their time.
RunWorks ==
    /\ running.phase = "work"
    /\ \E outcome \in {"reached", "transient", "terminal"} : Answered(outcome)

\* A call fails at once: the session is lost, or rejects because it is closing.
RunFails == running.phase = "start" /\ Answered("terminal")

\* The signal aborts whatever is awaited.
RunStops ==
    /\ running.phase \in {"start", "work"} /\ IsCut
    /\ Answered("stopped")

\* Whoever waits for the run gets an error that does not go away.
Fails(told) == running.outcome = "terminal" \/ (~told /\ running.outcome # "transient")

\* The run publishes its final status, if that can be read (told), and settles.  A
\* loop that waited for it goes on after a delay, or ends all subscribers.
SyncEnds ==
    /\ running.phase = "report"
    /\ \E told \in BOOLEAN :
          LET ended == IF Fails(told) /\ watching \in {"join", "own"} /\ ~watchCut
                         THEN Subscribers ELSE {}
          IN  IF told THEN Publish(ended) ELSE Finish(ended)
    /\ running' = NotRunning
    /\ submission' = "idle"
    /\ watching' = IF watching \in {"join", "own"}
                     THEN IF watchCut' THEN "ending" ELSE "delay"
                     ELSE watching
    /\ closing' = IF closing = "run"
                    THEN IF watching = "none" THEN "drain" ELSE "watch"
                    ELSE closing
    /\ UNCHANGED <<reading, aborted>>

-----------------------------------------------------------------------------
(* The loop *)

\* The poll interval has passed.
Poll ==
    /\ watching = "delay" /\ ~watchCut
    /\ BeginWatching
    /\ UNCHANGED <<stage, buffer, reading, aborted, submission, closing>>

LeaveWhenIdle ==                 \* plausible bug: the joined run is awaited to its end
    /\ watching = "delay" /\ watchCut
    /\ watching' = "ending"
    /\ UNCHANGED <<stage, buffer, reading, aborted, running, watchCut, submission, closing>>
\* The abort ends a delay, and the wait for somebody else's run.
Leave ==
    /\ watching \in {"join", "delay"} /\ watchCut
    /\ watching' = "ending"
    /\ UNCHANGED <<stage, buffer, reading, aborted, running, watchCut, submission, closing>>

\* The loop has ended; for those who subscribed meanwhile it begins again.
WatchEnds ==
    /\ watching = "ending"
    /\ IF Subscribers # {} THEN BeginWatching
       ELSE watching' = "none" /\ watchCut' = FALSE /\ UNCHANGED running
    /\ closing' = IF closing = "watch" THEN "drain" ELSE closing
    /\ UNCHANGED <<stage, buffer, reading, aborted, submission>>

-----------------------------------------------------------------------------
(* close() *)

Close ==
    /\ closing = "open"
    /\ aborted' = User
    /\ Finish(Subscribers)
    /\ running' = [running EXCEPT !.cut = HasRun]
    /\ submission' = "idle"
    /\ closing' = CASE HasRun -> "run"
                    [] ~HasRun /\ watching # "none" -> "watch"
                    [] OTHER -> "drain"
    /\ UNCHANGED <<reading, watching>>

\* Every call that the client has accepted has settled.
Closed ==
    /\ closing = "drain"
    /\ reading = {}
    /\ closing' = "closed"
    /\ UNCHANGED <<stage, buffer, reading, aborted, running, watching, watchCut, submission>>

Rest == closing = "closed" /\ UNCHANGED syncVars

Local(w) == Subscribe(w) \/ NotSubscribed(w) \/ Deliver(w)
Loop == Poll \/ Leave \/ WatchEnds

SyncNext ==
    \/ \E w \in Watcher : Read(w) \/ Local(w) \/ Return(w) \/ AbortWatcher(w) \/ WatchAgain(w)
    \/ Sync \/ Refresh \/ AbortCaller \/ AbortSubmission
    \/ RunBegins \/ RunWorks \/ RunFails \/ RunStops \/ SyncEnds
    \/ Loop \/ Close \/ Closed \/ Rest

\* Local calls return, timers fire, and awaits listen to their signals.  A source
\* need not answer.
Fairness ==
    /\ \A w \in Watcher : WF_syncVars(Local(w))
    /\ WF_syncVars(RunBegins \/ RunFails \/ RunStops) /\ WF_syncVars(SyncEnds)
    /\ WF_syncVars(Loop) /\ WF_syncVars(Closed)

SyncSpec == SyncInit /\ [][SyncNext]_syncVars /\ Fairness

-----------------------------------------------------------------------------
(* Properties *)

\* Joining a run grants no right to stop it: a run is cut by its own user, by the
\* last subscriber when the loop started it, or by close().
OnlyOwnerCuts ==
    [][~IsCut /\ IsCut' =>
         \/ closing' # "open"
         \/ running.owner \in aborted' \ aborted
         \/ running.owner = "watch" /\ Subscribers' = {}]_syncVars

\* A subscriber never lacks a loop that serves it, and a slow one never buffers beyond
\* its capacity.  When close() has resolved nothing runs, nobody watches, and no loop is
\* left that could begin again.
WatchersServed ==
    /\ \A w \in Watcher : buffer[w] \in 0..Capacity
    /\ Subscribers # {} => watching # "none"
    /\ closing = "closed" =>
          /\ ~HasRun /\ watching = "none" /\ submission = "idle"
          /\ \A w \in Watcher : stage[w] \in {"new", "done"}

\* Nobody is kept waiting.  close() resolves although the source never answers; when
\* the last subscriber has left, the background loop ends, although it may be waiting
\* for somebody else's run; and when the source answers, so does every next(): by a
\* status, the end, or an error.
CallsEnd ==
    /\ closing # "open" ~> closing = "closed"
    /\ Subscribers = {} ~> watching = "none" \/ Subscribers # {}
    /\ WF_syncVars(RunWorks) => \A w \in Watcher : w \in reading ~> w \notin reading
=============================================================================
