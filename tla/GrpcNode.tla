------------------------------ MODULE GrpcNode ------------------------------
(***************************************************************************)
(* gRPC on Node: grpcAdapter() (grpc.ts), which loads the platform adapter *)
(* and tries unary reads again, over createGrpcNodeTransport()             *)
(* (grpc-node.ts), which gives every operation a channel of its own.       *)
(*                                                                         *)
(* operation() arms the deadline, loads the headers, opens the channel and *)
(* makes the call; stop() closes and cancels whatever there is by then.    *)
(* Between the channel and the call lies one await that nothing checks:    *)
(* a stop there closes the channel, and the call then fails on it.  A      *)
(* stream ends well only when the status of the call, which comes apart    *)
(* from its items, is OK.                                                  *)
(***************************************************************************)
EXTENDS Endpoint

CONSTANT MaxItems     \* the items a server sends on a stream

VARIABLE rpc
\* at       "idle", "load", "headers", "channel", "reply", "status", "item", "delay", "over"
\* try, sent, settled, stopped, late, held, outcome  as in HttpTransport
\* returned the consumer has called return(): the adapter's own signal
\* items    the items the consumer was given
rpcVars == <<rpc, caller>>

Streaming == exchange = "rpc.stream"
RpcInit ==
    rpc = [at |-> "idle", try |-> 0, sent |-> 0, settled |-> "none", stopped |-> "none",
           late |-> FALSE, held |-> {}, returned |-> FALSE, items |-> 0, outcome |-> "none"]

-----------------------------------------------------------------------------

\* A transaction whose transport fails is reported as unknown by broadcastTransaction()
\* of the light client, which does not look at the error.
RpcOver(r, o) ==
    [r EXCEPT !.at = "over", !.held = {},
              !.outcome = IF exchange = "rpc.send" /\ o = "error" THEN "unknown" ELSE o]

\* The signal the adapter's awaits listen to (wait, checkpoint).
Withdrawn == cut \/ rpc.returned

\* unary() of the adapter: again, after a delay, while the error allows it.
Again(r, e) ==
    IF exchange = "rpc.read" /\ MayRetry(e, r.try) /\ ~Withdrawn
    THEN [r EXCEPT !.at = "delay", !.try = @ + 1, !.held = {"timer"}]
    ELSE RpcOver(r, "error")

\* operation(): a new deadline, listener and stop.
Operation(r) ==
    IF Withdrawn THEN RpcOver(r, "error")
    ELSE [r EXCEPT !.at = "headers", !.settled = "none", !.stopped = "none", !.late = FALSE,
                   !.held = {"timer", "listener"}]

RpcStop(r, e) == IF r.stopped # "none" THEN r ELSE [r EXCEPT !.stopped = e, !.held = {}]

\* check() and bounded(): the stop, then the deadline the timer has not reported.
Bounded(r, then) ==
    CASE r.stopped # "none" -> Again(r, r.stopped)
      [] r.stopped = "none" /\ r.late -> Again(r, "TIMEOUT")
      [] OTHER -> then

\* normalize(): an answer that is an error, which came before any stop.
Failed(r) == Again(r, r.settled)
IsError(s) == s \in {"UNAVAILABLE", "TIMEOUT", "TRANSPORT"}

-----------------------------------------------------------------------------
(* The adapter and the operation *)

\* admit(): the method, the bytes and the signal of the caller.
RpcRefused ==
    /\ exchange \in {"rpc.read", "rpc.send", "rpc.stream"}
    /\ rpc.at = "idle"
    /\ rpc' = RpcOver(rpc, "error")
    /\ UNCHANGED caller

Open ==
    /\ exchange \in {"rpc.read", "rpc.send", "rpc.stream"}
    /\ rpc.at = "idle"
    /\ rpc' = IF cut THEN RpcOver(rpc, "error") ELSE [rpc EXCEPT !.at = "load"]
    /\ UNCHANGED caller

\* load(), raced with the signal, then the first operation.
Platform ==
    /\ rpc.at = "load" /\ (rpc.settled # "none" \/ Withdrawn)
    /\ rpc' = IF rpc.settled = "good" THEN Operation(rpc) ELSE RpcOver(rpc, "error")
    /\ UNCHANGED caller

RpcReady == rpc.settled # "none" \/ rpc.stopped # "none"

\* start(): the headers, then the channel.
Channel ==
    /\ rpc.at = "headers" /\ RpcReady
    /\ rpc' = Bounded(rpc,
                IF rpc.settled = "bad" THEN RpcOver(rpc, "error")
                ELSE [rpc EXCEPT !.at = "channel", !.held = @ \cup {"channel"}])
    /\ UNCHANGED caller

\* The call, on a channel that a stop may have closed.
OpenChannel == "channel" \in rpc.held
Dispatch ==
    /\ rpc.at = "channel"
    /\ rpc' = IF OpenChannel
              THEN [rpc EXCEPT !.at = "reply", !.sent = @ + 1, !.settled = "none",
                               !.held = @ \cup {"call"}]
              ELSE Again(rpc, "TRANSPORT")
    /\ UNCHANGED caller

\* The answer to a unary call.
Replying ==
    /\ rpc.at = "reply" /\ ~Streaming /\ RpcReady
    /\ rpc' = IF IsError(rpc.settled) THEN Failed(rpc)
              ELSE Bounded(rpc, RpcOver(rpc, CASE rpc.settled = "value" -> "value"
                                               [] rpc.settled \in {"acknowledged", "rejected"} ->
                                                      rpc.settled
                                               [] OTHER -> "error"))
    /\ UNCHANGED caller

\* A pull of the stream: the next item, or its end, after which the status is awaited.
Item ==
    /\ rpc.at = "reply" /\ Streaming /\ RpcReady
    /\ rpc' = IF IsError(rpc.settled) THEN Failed(rpc)
              ELSE Bounded(rpc, CASE rpc.settled = "item" -> [rpc EXCEPT !.at = "item", !.items = @ + 1]
                                  [] rpc.settled = "end" -> [rpc EXCEPT !.at = "status", !.settled = "none"]
                                  [] OTHER -> RpcOver(rpc, "error"))
    /\ UNCHANGED caller

Status ==
    /\ rpc.at = "status" /\ RpcReady
    /\ rpc' = IF IsError(rpc.settled) THEN Failed(rpc) ELSE Bounded(rpc, RpcOver(rpc, "value"))
    /\ UNCHANGED caller

\* The delay before the next attempt, raced with the signal.
RpcDelayEnds ==
    /\ rpc.at = "delay"
    /\ rpc' = Operation(rpc)
    /\ UNCHANGED caller

RpcStep == RpcRefused \/ Open \/ Platform \/ Channel \/ Dispatch \/ Replying \/ Item \/ Status \/ RpcDelayEnds

\* The application pulls the next item when it likes.
PullNext ==
    /\ rpc.at = "item"
    /\ rpc' = Bounded(rpc, [rpc EXCEPT !.at = "reply", !.settled = "none"])
    /\ UNCHANGED caller

\* return(): the adapter's own signal aborts, and what was open is closed.
Returned ==
    /\ Streaming /\ rpc.at \notin {"idle", "over"} /\ ~rpc.returned
    /\ rpc' = LET r == [RpcStop(rpc, "ABORTED") EXCEPT !.returned = TRUE]
              IN  IF rpc.at = "item" THEN RpcOver(r, "error") ELSE r
    /\ UNCHANGED caller

-----------------------------------------------------------------------------
(* The platform, the application, the server, the clock and the signal *)

Loaded == \E s \in {"good", "bad"} :
    /\ rpc.at \in {"load", "headers"} /\ ~RpcReady
    /\ rpc' = [rpc EXCEPT !.settled = s]
    /\ UNCHANGED caller

Answers ==
    IF Streaming THEN {"item", "end", "limit"}
    ELSE IF exchange = "rpc.read" THEN {"value", "limit"}
    ELSE {s \in {"acknowledged", "rejected", "limit"} :
            /\ s = "acknowledged" => served = "accepted"
            /\ s = "rejected" => served = "refused"}

Replied == \E s \in Answers \cup {"UNAVAILABLE", "TIMEOUT", "TRANSPORT"} :
    /\ rpc.at = "reply" /\ ~RpcReady
    /\ s = "item" => rpc.items < MaxItems
    /\ rpc' = [rpc EXCEPT !.settled = s]
    /\ UNCHANGED caller

Finished == \E s \in {"OK", "UNAVAILABLE", "TRANSPORT"} :
    /\ rpc.at = "status" /\ ~RpcReady
    /\ rpc' = [rpc EXCEPT !.settled = s]
    /\ UNCHANGED caller

Operating == rpc.at \in {"headers", "channel", "reply", "status", "item"}

RpcElapse ==
    /\ Operating /\ ~rpc.late
    /\ rpc' = [rpc EXCEPT !.late = TRUE]
    /\ UNCHANGED caller

RpcTimer ==
    /\ Operating /\ rpc.late /\ "timer" \in rpc.held
    /\ rpc' = RpcStop(rpc, "TIMEOUT")
    /\ UNCHANGED caller

RpcAbort ==
    /\ exchange \in {"rpc.read", "rpc.send", "rpc.stream"}
    /\ ~cut /\ rpc.at # "over"
    /\ cut' = TRUE
    /\ rpc' = CASE rpc.at = "delay" -> RpcOver(rpc, "error")
                [] rpc.at # "delay" /\ "listener" \in rpc.held -> RpcStop(rpc, "ABORTED")
                [] OTHER -> rpc
    /\ UNCHANGED <<exchange, served>>

RpcServe ==
    /\ exchange = "rpc.send" /\ Serve(rpc.sent)
    /\ UNCHANGED rpc

RpcNext ==
    \/ RpcStep \/ PullNext \/ Returned
    \/ Loaded \/ Replied \/ Finished
    \/ RpcElapse \/ RpcTimer \/ RpcAbort \/ RpcServe
=============================================================================
