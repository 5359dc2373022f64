------------------------------ MODULE GrpcWeb ------------------------------
(***************************************************************************)
(* gRPC-web (grpc-web.ts): messages(), which pulls a body of frames over   *)
(* fetch(), and decodeFrames(), which assembles them.                      *)
(*                                                                         *)
(* A frame is a header, which gives its kind and length, and a payload.    *)
(* The body comes in chunks that may end anywhere, in a header too; it has *)
(* to end with exactly one frame of trailers.  A byte is modelled as a     *)
(* pair: the number of its frame and its place in it.                      *)
(*                                                                         *)
(* stop() cleans up at once, also while the stream waits to be pulled; the *)
(* pull in progress, or the next one, then fails with its error.           *)
(***************************************************************************)
EXTENDS Endpoint, Sequences, SequencesExt

CONSTANTS
    HeaderBytes,   \* the length of a frame header (5)
    MaxMessages,   \* limits.messages
    MaxLength,     \* limits.messageBytes
    Bodies         \* the bodies the server may send: sequences of frames

ASSUME HeaderAssumption == HeaderBytes \in Nat \ {0}
ASSUME BodiesAssumption ==
    Bodies \subseteq Seq([kind : {"data", "trailer", "unknown"}, length : Nat, ok : BOOLEAN])

VARIABLES
    web,     \* the call, see below
    frame,   \* the decoder: [used, head, payload, count, terminal]
    wire     \* [body, sent]: what the server sends, and how much of it it has sent

\* at       "idle", "headers", "fetch", "read", "decode", "item" or "over"
\* settled  what the awaited promise settled with
\* stopped  the error of stop(), late  the deadline has passed
\* chunk    the bytes of the last read that are not decoded
\* taken    the messages the consumer was given
\* sent, held, outcome  as in HttpTransport
webVars == <<web, frame, wire, caller>>

\* A frame: [kind |-> "data", "trailer" or "unknown", length, ok].
HeaderOf(byte) == wire.body[byte[1]]
FrameBytes(i, length) == [p \in 1..HeaderBytes + length |-> <<i, p>>]
Bytes(body) == FlattenSeq([i \in DOMAIN body |-> FrameBytes(i, body[i].length)])
Payload(body, i) == [p \in 1..body[i].length |-> <<i, HeaderBytes + p>>]

Begun(count, terminal) ==
    [used |-> 0, head |-> "none", payload |-> <<>>, count |-> count, terminal |-> terminal]
WebInit ==
    /\ web = [at |-> "idle", settled |-> "none", stopped |-> "none", late |-> FALSE,
              chunk |-> <<>>, taken |-> <<>>, sent |-> 0, held |-> {}, outcome |-> "none"]
    /\ frame = Begun(0, FALSE)
    /\ wire \in [body : Bodies, sent : {0}]

-----------------------------------------------------------------------------

WebOver(w, o) == [w EXCEPT !.at = "over", !.held = {}, !.outcome = o]

\* unary() wants exactly one message; a stream that has ended well is complete.
Ended(w) ==
    WebOver(w, IF exchange = "web.unary" /\ Len(w.taken) # 1 THEN "error" ELSE "value")

\* stop(): everything is released at once; the pull that waits fails in a later step.
WebStop(w, e) == IF w.stopped # "none" THEN w ELSE [w EXCEPT !.stopped = e, !.held = {}]

\* check(): a deadline the timer could not report counts as well.
Checked(w, then) == IF w.stopped # "none" \/ w.late THEN WebOver(w, "error") ELSE then

Least(a, b) == IF a <= b THEN a ELSE b

\* One turn of the loop of decodeFrames().  The bytes there are complete the header or a
\* part of it; a header that is complete gives the payload its length, which the rest of
\* the chunk fills; a payload that is complete, of no bytes too, is yielded or, when it
\* holds the trailers, ends the messages.
InHeader == frame.used < HeaderBytes
Turn ==
    LET size == IF InHeader THEN Least(HeaderBytes - frame.used, Len(web.chunk)) ELSE 0
        used == frame.used + size
        head == IF InHeader THEN HeaderOf(web.chunk[size]) ELSE frame.head
        rest == SubSeq(web.chunk, size + 1, Len(web.chunk))
        part == Least(head.length - Len(frame.payload), Len(rest))
        count == frame.count + (IF InHeader /\ head.kind = "data" THEN 1 ELSE 0)
        payload == frame.payload \o SubSeq(rest, 1, part)
    IN  IF used < HeaderBytes
        THEN [is |-> "part", rest |-> rest, frame |-> [frame EXCEPT !.used = used]]
        ELSE [is |-> IF head.kind = "unknown" \/ head.length > MaxLength \/ count > MaxMessages
                       THEN "refused"
                       ELSE IF Len(payload) < head.length THEN "part" ELSE head.kind,
              rest |-> SubSeq(rest, part + 1, Len(rest)),
              frame |-> [frame EXCEPT !.used = used, !.head = head, !.payload = payload,
                                      !.count = count]]

Decode ==
    /\ web.at = "decode" /\ web.chunk # <<>>
    /\ LET turn == Turn
           next == [web EXCEPT !.chunk = turn.rest]
           whole == turn.is \in {"data", "trailer"}
       IN  /\ frame' = IF whole THEN Begun(turn.frame.count, turn.is = "trailer") ELSE turn.frame
           /\ web' = CASE frame.terminal -> WebOver(web, "error")
                        [] ~frame.terminal /\ turn.is = "part" -> next
                        [] ~frame.terminal /\ turn.is = "trailer" /\ turn.frame.head.ok -> next
                        [] ~frame.terminal /\ turn.is = "data" ->
                              Checked(web, [next EXCEPT !.at = "item",
                                                        !.taken = Append(@, turn.frame.payload)])
                        [] OTHER -> WebOver(web, "error")
    /\ UNCHANGED <<wire, caller>>

\* The chunk is used up: the next read.
MoreBytes ==
    /\ web.at = "decode" /\ web.chunk = <<>>
    /\ web' = [web EXCEPT !.at = "read", !.settled = "none"]
    /\ UNCHANGED <<frame, wire, caller>>

EndOfBodyAnywhere(w) ==             \* plausible bug: the trailers may be missing
    IF frame.used > 0 THEN WebOver(w, "error") ELSE Ended(w)
\* The body is over: it must have ended after the trailers, and with no frame begun.
EndOfBody(w) == IF ~frame.terminal \/ frame.used > 0 THEN WebOver(w, "error") ELSE Ended(w)

-----------------------------------------------------------------------------
(* The consumer *)

Pulling == web.at \in {"headers", "fetch", "read", "decode"}

\* admit(): the method, the bytes and the signal of the caller.
WebRefused ==
    /\ exchange \in {"web.stream", "web.unary"}
    /\ web.at = "idle"
    /\ web' = WebOver(web, "error")
    /\ UNCHANGED <<frame, wire, caller>>

Start ==
    /\ exchange \in {"web.stream", "web.unary"}
    /\ web.at = "idle"
    /\ web' = IF cut THEN WebOver(web, "error")
              ELSE [web EXCEPT !.at = "headers", !.held = {"timer", "listener"}]
    /\ UNCHANGED <<frame, wire, caller>>

\* next(): the application resumes a stream when it likes; unary() goes on by itself,
\* and gives up at a second message.
Resumed == Checked(web, [web EXCEPT !.at = "decode"])
Pull ==
    /\ exchange = "web.stream" /\ web.at = "item"
    /\ web' = Resumed
    /\ UNCHANGED <<frame, wire, caller>>

Unary ==
    /\ exchange = "web.unary" /\ web.at = "item"
    /\ web' = IF Len(web.taken) > 1 THEN WebOver(web, "error") ELSE Resumed
    /\ UNCHANGED <<frame, wire, caller>>

Return ==
    /\ exchange = "web.stream"
    /\ web.at = "item" \/ (Pulling /\ web.at # "decode")
    /\ web' = WebOver(web, "error")
    /\ UNCHANGED <<frame, wire, caller>>

WebReady == web.settled # "none" \/ web.stopped # "none"

WebHeaders ==
    /\ web.at = "headers" /\ WebReady
    /\ web' = IF web.settled = "bad" THEN WebOver(web, "error")
              ELSE Checked(web, [web EXCEPT !.at = "fetch", !.sent = 1, !.settled = "none"])
    /\ UNCHANGED <<frame, wire, caller>>

\* responseStatus(): the status may come with the headers, and then no frame may follow.
WebFetched ==
    /\ web.at = "fetch" /\ WebReady
    /\ frame' = [frame EXCEPT !.terminal = web.settled = "trailersOnly"]
    /\ web' = Checked(web,
                CASE web.settled = "network" -> WebOver(web, "error")
                  [] web.settled = "status" -> WebOver(web, "error")
                  [] web.settled = "trailersOnly" /\ "body" \notin web.held -> Ended(web)
                  [] OTHER -> [web EXCEPT !.at = "read", !.settled = "none"])
    /\ UNCHANGED <<wire, caller>>

WebRead ==
    /\ web.at = "read" /\ WebReady
    /\ web' = Checked(web,
                CASE web.settled = "chunk" -> [web EXCEPT !.at = "decode"]
                  [] web.settled = "end" -> EndOfBody(web)
                  [] OTHER -> WebOver(web, "error"))
    /\ UNCHANGED <<frame, wire, caller>>

WebStep == Unary \/ WebHeaders \/ WebFetched \/ WebRead \/ Decode \/ MoreBytes

-----------------------------------------------------------------------------
(* The application, the server, the clock and the caller's signal.  The    *)
(* decoder runs to its next await or yield: nothing comes between.         *)

WebSupplied == \E s \in {"good", "bad"} :
    /\ web.at = "headers" /\ ~WebReady
    /\ web' = [web EXCEPT !.settled = s]
    /\ UNCHANGED <<frame, wire, caller>>

WebResponded == \E s \in {"network", "status", "trailersOnly", "body"}, body \in BOOLEAN :
    /\ web.at = "fetch" /\ ~WebReady
    /\ s = "body" => body
    /\ web' = [web EXCEPT !.settled = s,
                          !.held = @ \cup (IF body /\ s # "network" THEN {"body"} ELSE {})]
    /\ UNCHANGED <<frame, wire, caller>>

\* The next bytes, up to any byte; decodeBase64() gives them on in pieces of its own.
Chunk == \E n \in 1..Len(Bytes(wire.body)) - wire.sent :
    /\ web.at = "read" /\ ~WebReady
    /\ web' = [web EXCEPT !.settled = "chunk",
                          !.chunk = SubSeq(Bytes(wire.body), wire.sent + 1, wire.sent + n)]
    /\ wire' = [wire EXCEPT !.sent = @ + n]
    /\ UNCHANGED <<frame, caller>>

\* The body ends, wherever it is, in the middle of a base64 quartet, or fails.
BodyEnds == \E s \in {"end", "ragged", "broken"} :
    /\ web.at = "read" /\ ~WebReady
    /\ web' = [web EXCEPT !.settled = s]
    /\ UNCHANGED <<frame, wire, caller>>

Idle == web.at \in {"idle", "over", "decode"}

WebElapse ==
    /\ ~Idle /\ ~web.late
    /\ web' = [web EXCEPT !.late = TRUE]
    /\ UNCHANGED <<frame, wire, caller>>

WebTimer ==
    /\ ~Idle /\ web.late /\ "timer" \in web.held
    /\ web' = WebStop(web, "TIMEOUT")
    /\ UNCHANGED <<frame, wire, caller>>

WebAbort ==
    /\ exchange \in {"web.stream", "web.unary"}
    /\ ~cut /\ web.at \notin {"over", "decode"}
    /\ cut' = TRUE
    /\ web' = IF "listener" \in web.held THEN WebStop(web, "ABORTED") ELSE web
    /\ UNCHANGED <<frame, wire, exchange, served>>

WebNext ==
    \/ WebRefused \/ Start \/ Pull \/ Return \/ WebStep
    \/ WebSupplied \/ WebResponded \/ Chunk \/ BodyEnds
    \/ WebElapse \/ WebTimer \/ WebAbort

-----------------------------------------------------------------------------

\* The messages of the first n frames have been given to the consumer, and no others.
DataFrames(n) == {i \in 1..n : wire.body[i].kind = "data"}
Delivered(n) ==
    /\ Len(web.taken) = Cardinality(DataFrames(n))
    /\ \A i \in DataFrames(n) : web.taken[Cardinality(DataFrames(i))] = Payload(wire.body, i)

\* A message is given to the consumer as the server framed it, whatever the chunks were,
\* in order and none left out; and a call that succeeds has seen every message there is,
\* the trailers after them, and nothing after those (decodeFrames, messages).
FramesExact ==
    \E n \in 0..Len(wire.body) :
        /\ Delivered(n)
        /\ web.outcome = "value" =>
              /\ wire.sent = Len(Bytes(SubSeq(wire.body, 1, n)))
              /\ n > 0 => wire.body[n].ok
              /\ \A i \in 1..n : wire.body[i].kind = "trailer" <=> i = n
=============================================================================
