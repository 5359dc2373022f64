--------------------------- MODULE HttpTransport ---------------------------
(***************************************************************************)
(* JSON-RPC over HTTP (http.ts): readRpc(), which tries a read again while *)
(* its error is retryable, and sendRawTransaction(), which never does.     *)
(*                                                                         *)
(* One attempt runs under one deadline: the header callback, the fetch and *)
(* the body.  stop() - by the timer or by the caller's signal - aborts the *)
(* controller; the await in progress is rejected, and the attempt unwinds  *)
(* in a later step, when something else may have arrived first.  The clock *)
(* and the timer are apart: a callback of the application or a long parse  *)
(* may keep the timer from firing after the deadline has passed.           *)
(***************************************************************************)
EXTENDS Endpoint

VARIABLE http
\* at       "idle", "headers", "fetch", "body", "delay" or "over"
\* try      the attempts that failed
\* sent     the requests given to fetch()
\* settled  what the awaited promise settled with
\* status   the status of the response
\* stopped  the error of stop(), if it was called in this attempt
\* late     the deadline of this attempt has passed
\* orphans  fetches an attempt left behind
\* held     what the attempt keeps
\* outcome  what the caller was told

httpVars == <<http, caller>>

Sending == exchange = "http.send"
HttpInit ==
    http = [at |-> "idle", try |-> 0, sent |-> 0, settled |-> "none", status |-> "none",
            stopped |-> "none", late |-> FALSE, orphans |-> 0, held |-> {}, outcome |-> "none"]

-----------------------------------------------------------------------------

HttpOver(h, o) == [h EXCEPT !.at = "over", !.held = {}, !.outcome = o]

\* broadcastTransaction() of the public client: an RPC code says that the node refused.
Report(e) == IF e = "REFUSED" THEN "rejected" ELSE "unknown"

SendFailedLate(h, e) ==              \* plausible bug: a timeout is an error, sent or not
    HttpOver(h, IF h.sent = 0 \/ e = "TIMEOUT" THEN "error" ELSE Report(e))
\* sendRawTransaction(): an error is thrown before the dispatch, and reported after it.
SendFailed(h, e) == HttpOver(h, IF h.sent = 0 THEN "error" ELSE Report(e))

\* delay(): the wait before the next attempt, which the caller may abort.
Delay(h) ==
    IF cut THEN HttpOver(h, "error")
    ELSE [h EXCEPT !.at = "delay", !.try = @ + 1, !.held = {"timer", "listener"}]

\* The end of attempt(), whatever it holds released, and what its caller makes of it.
Rejected(h, e) ==
    LET ended == [h EXCEPT !.held = {}]
    IN  CASE Sending -> SendFailed(ended, e)
          [] ~Sending /\ MayRetry(e, h.try) -> Delay(ended)
          [] OTHER -> HttpOver(ended, "error")

Begin(h) ==
    IF cut THEN Rejected(h, "ABORTED")
    ELSE [h EXCEPT !.at = "headers", !.settled = "none", !.stopped = "none",
                   !.late = FALSE, !.held = {"timer", "listener"}]

StatusError(h) == IF h.status = "busy" THEN "UNAVAILABLE" ELSE "TRANSPORT"

\* responseStatus() and the body: the fetch has settled and nothing has stopped it.
Response(h) ==
    CASE h.settled = "network" -> Rejected(h, "UNAVAILABLE")
      [] h.settled = "limit" -> Rejected(h, "LIMIT")
      [] h.settled = "empty" ->
            Rejected(h, IF h.status = "ok" THEN "PROTOCOL" ELSE StatusError(h))
      [] OTHER -> [h EXCEPT !.at = "body", !.settled = "none", !.held = @ \cup {"reader"}]

\* parseResponse(): the envelope decides, then the status, then the clock.  A status that
\* is an error outweighs an answer, but not a structured RPC error.
Parsed(h) ==
    CASE h.settled \in {"broken", "limit"} ->
            Rejected(h, IF h.settled = "limit" THEN "LIMIT" ELSE "UNAVAILABLE")
      [] h.settled = "garbage" ->
            Rejected(h, IF h.status = "ok" THEN "PROTOCOL" ELSE StatusError(h))
      [] h.settled \in {"refusal", "failure"} ->
            Rejected(h, IF h.settled = "refusal" THEN "REFUSED" ELSE "RPC")
      [] OTHER ->
            IF h.status # "ok" THEN Rejected(h, StatusError(h))
            ELSE IF h.late THEN Rejected(h, "TIMEOUT")
            ELSE HttpOver(h, IF Sending THEN "acknowledged" ELSE "value")

-----------------------------------------------------------------------------
(* The caller and the attempt *)

\* ownParameters(): arguments that are refused are not sent.
Refused ==
    /\ exchange \in {"http.read", "http.send"}
    /\ http.at = "idle"
    /\ http' = HttpOver(http, "error")
    /\ UNCHANGED caller

Request ==
    /\ exchange \in {"http.read", "http.send"}
    /\ http.at = "idle"
    /\ http' = Begin(http)
    /\ UNCHANGED caller

ReadyUnstopped == http.settled # "none"     \* plausible bug: a stop does not reject the await
\* An await ends by what it waits for or by stop().
Ready == http.settled # "none" \/ http.stopped # "none"

\* The header callback is back: the checks that precede the dispatch, then fetch().
Headers ==
    /\ http.at = "headers" /\ Ready
    /\ http' = CASE http.stopped # "none" -> Rejected(http, http.stopped)
                 [] http.stopped = "none" /\ http.settled = "bad" -> Rejected(http, "INVALID")
                 [] http.stopped = "none" /\ http.settled = "good" /\ http.late ->
                        Rejected(http, "TIMEOUT")
                 [] OTHER -> [http EXCEPT !.at = "fetch", !.sent = @ + 1, !.settled = "none"]
    /\ UNCHANGED caller

\* A fetch that has not answered is left behind.
Fetched ==
    /\ http.at = "fetch" /\ Ready
    /\ http' = IF http.stopped = "none" THEN Response(http)
               ELSE Rejected([http EXCEPT !.orphans = @ + (IF http.settled = "none" THEN 1 ELSE 0)],
                             http.stopped)
    /\ UNCHANGED caller

Read ==
    /\ http.at = "body" /\ Ready
    /\ http' = IF http.stopped # "none" THEN Rejected(http, http.stopped) ELSE Parsed(http)
    /\ UNCHANGED caller

DelayEnds ==
    /\ http.at = "delay"
    /\ http' = Begin(http)
    /\ UNCHANGED caller

HttpStep == Refused \/ Request \/ Headers \/ Fetched \/ Read \/ DelayEnds

-----------------------------------------------------------------------------
(* The application, the server, the clock and the caller's signal *)

Attempting == http.at \in {"headers", "fetch", "body"}
Stop(h, e) == IF h.stopped = "none" THEN [h EXCEPT !.stopped = e] ELSE h

Supplied == \E s \in {"good", "bad"} :
    /\ http.at = "headers" /\ http.settled = "none"
    /\ http' = [http EXCEPT !.settled = s]
    /\ UNCHANGED caller

\* The head of a response: its status, and whether a body follows.
Responded == \E status \in {"ok", "busy", "other"}, s \in {"network", "limit", "empty", "body"} :
    /\ http.at = "fetch" /\ http.settled = "none"
    /\ http' = [http EXCEPT !.settled = s, !.status = status,
                            !.held = @ \cup (IF s \in {"limit", "body"} THEN {"body"} ELSE {})]
    /\ UNCHANGED caller

\* The body: an answer to a transaction says what the node did with it.
Answered == \E s \in {"answer", "refusal", "failure", "garbage", "limit", "broken"} :
    /\ http.at = "body" /\ http.settled = "none"
    /\ s = "answer" /\ Sending => served = "accepted"
    /\ s = "refusal" => Sending /\ served = "refused"
    /\ http' = [http EXCEPT !.settled = s]
    /\ UNCHANGED caller

\* What is kept of a response that comes after its attempt was stopped: it is cancelled.
LateBody == {}
RespondedLate ==
    /\ http.orphans > 0
    /\ http' = [http EXCEPT !.orphans = @ - 1, !.held = @ \cup LateBody]
    /\ UNCHANGED caller

Elapse ==
    /\ Attempting /\ ~http.late
    /\ http' = [http EXCEPT !.late = TRUE]
    /\ UNCHANGED caller

Timer ==
    /\ Attempting /\ http.late /\ "timer" \in http.held /\ http.stopped = "none"
    /\ http' = Stop(http, "TIMEOUT")
    /\ UNCHANGED caller

HttpAbort ==
    /\ exchange \in {"http.read", "http.send"}
    /\ ~cut /\ http.at # "over"
    /\ cut' = TRUE
    /\ http' = CASE "listener" \notin http.held -> http
                 [] "listener" \in http.held /\ http.at = "delay" -> HttpOver(http, "error")
                 [] OTHER -> Stop(http, "ABORTED")
    /\ UNCHANGED <<exchange, served>>

HttpServe ==
    /\ Sending /\ Serve(http.sent)
    /\ UNCHANGED http

HttpNext ==
    \/ HttpStep
    \/ Supplied \/ Responded \/ Answered \/ RespondedLate
    \/ Elapse \/ Timer \/ HttpAbort \/ HttpServe
=============================================================================
