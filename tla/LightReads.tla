----------------------------- MODULE LightReads -----------------------------
(***************************************************************************)
(* The light client: light.ts over the readers (light-chain-reads.ts,      *)
(* light-transaction-reads.ts, light-transparent-reads.ts) over            *)
(* ownCustomLightTransport() (custom-light.ts) over a transport of the     *)
(* application.                                                            *)
(*                                                                         *)
(* Each of the three layers keeps an operation() of its own, whose close() *)
(* or cancel() aborts the signal of the layer below and gives back the     *)
(* iterator it holds, so an abort runs down the layers at once, while the  *)
(* pull that waits is rejected up through them.  The transport is foreign: *)
(* its stream() and its iterator are called one after the other, and an    *)
(* abort may come from inside each of the calls.                           *)
(***************************************************************************)
EXTENDS Endpoint, Sequences, SequencesExt

CONSTANTS
    From, To      \* the range of blocks a stream is asked for

ASSUME RangeAssumption == From \in Nat /\ To \in Nat /\ From <= To

VARIABLE light
\* at        "idle", "identity", "genesis", "ready", "decode", "opening", "acquiring",
\*           "pull", "project", "item", "reply" or "over"
\* open      the layers whose operation is open: 1 the client, 2 the reader, 3 the owner
\* stopped   the pull that waits was cancelled
\* settled   what the awaited promise settled with, due the item a pull was answered with
\* foreign   the objects the transport has handed out: "iterable", "iterator"
\* alike     the iterable is its own iterator
\* returns   the objects whose return() was called, in order
\* blocks    the blocks the consumer was given
\* verified  the client has verified the server (verified)
\* sent, outcome  as in HttpTransport
lightVars == <<light, caller>>

Layers == 1..3
LightStreams == {"light.blocks", "light.transactions"}
LightUnary == {"light.tip", "light.tree", "light.utxos", "light.transaction", "light.send"}
LightStream == exchange \in LightStreams
LightInit ==
    \E alike, verified \in BOOLEAN :
        light = [at |-> "idle", open |-> {}, stopped |-> FALSE, settled |-> "none",
                 due |-> "none", foreign |-> {}, alike |-> alike, returns |-> <<>>, blocks |-> <<>>,
                 verified |-> verified, sent |-> 0, outcome |-> "none"]

-----------------------------------------------------------------------------
(* The operations of the layers *)

OwnedIterator(l) == "iterator"       \* plausible bug: an iterable without iterator is kept
\* release() of the owner: return() of the iterator, or of the iterable when there is no
\* iterator yet, unless that object was returned before.
Owned(l) ==
    IF "iterator" \in l.foreign THEN (IF l.alike THEN "iterable" ELSE "iterator") ELSE "iterable"
Release(l) ==
    IF l.foreign = {} \/ Owned(l) \in Range(l.returns) THEN l
    ELSE [l EXCEPT !.returns = Append(@, Owned(l))]

\* close() or cancel() of a layer: those below are cancelled by its signal.
Shut(l, layer) ==
    LET shut == [l EXCEPT !.open = {i \in @ : i < layer}]
    IN  IF 3 \in l.open THEN Release(shut) ELSE shut

\* The catch and finally of every layer, one after the other as the rejection rises.
LightOver(l, o) == [Release(Shut(l, 1)) EXCEPT !.at = "over", !.outcome = o]

\* check(): the caller's signal, or a cancelled operation.
LightChecked(l, then) == IF cut \/ l.stopped THEN LightOver(l, "error") ELSE then

\* An await of the operation: the promise, or its cancellation, then the checks.
Awaited(at, then) ==
    /\ light.at = at /\ (light.settled # "none" \/ light.stopped)
    /\ light' = LightChecked(light, IF light.settled = "bad" THEN LightOver(light, "error") ELSE then)
    /\ UNCHANGED caller

-----------------------------------------------------------------------------
(* The client *)

\* admit(): the transport's revision, the arguments and the signal.
LightRefused ==
    /\ exchange \in LightStreams \cup LightUnary
    /\ light.at = "idle"
    /\ light' = LightOver(light, "error")
    /\ UNCHANGED caller

\* The first pull, or the call: its operation, then ready().
LightOpen ==
    /\ exchange \in LightStreams \cup LightUnary
    /\ light.at = "idle"
    /\ light' = LightChecked(light, [light EXCEPT !.open = {1}, !.at = IF light.verified THEN "ready"
                                                                    ELSE "identity"])
    /\ UNCHANGED caller

\* ready(): the chain, the branch and the protocol the server names for itself.
Identity == Awaited("identity", [light EXCEPT !.at = "genesis", !.settled = "none"])

\* Block 1, which links to the genesis of the network.  An aborted handshake goes on
\* without its caller, and leaves the client unverified.
Genesis == Awaited("genesis", [light EXCEPT !.at = "ready", !.settled = "none", !.verified = TRUE])

Verified ==
    /\ light.at = "ready"
    /\ light' = LightChecked(light, [light EXCEPT !.open = {1, 2},
                                                  !.at = IF exchange = "light.send" THEN "decode"
                                                         ELSE "opening"])
    /\ UNCHANGED caller

\* broadcastTransaction(): the bytes are decoded before anything is sent.
DecodeTransaction == Awaited("decode", [light EXCEPT !.at = "opening", !.settled = "none"])

\* The owner calls the transport: unary(), or stream(), whose result is an iterable.
CallTransport ==
    /\ light.at = "opening" /\ light.sent = 0
    /\ light' = LightChecked(light, [light EXCEPT !.open = Layers, !.sent = @ + 1,
                                                  !.at = IF LightStream THEN "opening" ELSE "reply"])
    /\ UNCHANGED caller

\* stream() has returned, or thrown; the iterable is remembered before the check.
Iterable == \E threw \in BOOLEAN :
    /\ light.at = "opening" /\ light.sent > 0
    /\ light' = IF threw THEN LightOver(light, "error")
                ELSE LET got == [light EXCEPT !.foreign = {"iterable"}, !.at = "acquiring"]
                     IN  LightChecked(got, got)
    /\ UNCHANGED caller

\* So is its iterator, of which next() is called.
Iterator == \E threw \in BOOLEAN :
    /\ light.at = "acquiring"
    /\ light' = IF threw THEN LightOver(light, "error")
                ELSE LET got == [light EXCEPT !.foreign = @ \cup {"iterator"}, !.at = "pull",
                                              !.settled = "none"]
                     IN  LightChecked(got, got)
    /\ UNCHANGED caller

\* The block that comes next: its height, and its link to the one before.
Due == From + Len(light.blocks)
Links(b) == b.height = Due /\ (light.blocks # <<>> => b.previous = Last(light.blocks).id)
Fits(b) == Due <= To /\ Links(b)
Complete == exchange = "light.transactions" \/ Due = To + 1

\* next() has answered: its end, or an item, which every layer checks.
Pulled ==
    /\ light.at = "pull" /\ (light.settled # "none" \/ light.stopped)
    /\ light' = LightChecked(light,
                  CASE light.settled = "end" -> LightOver(light, IF Complete THEN "value" ELSE "error")
                    [] light.settled \in {"fault", "malformed"} -> LightOver(light, "error")
                    [] exchange = "light.transactions" /\ light.settled = "item" ->
                          [light EXCEPT !.at = "project", !.settled = "none"]
                    [] OTHER -> IF Fits(light.due)
                                THEN [light EXCEPT !.at = "item", !.blocks = Append(@, light.due),
                                                   !.due = "none"]
                                ELSE LightOver(light, "error"))
    /\ UNCHANGED caller

\* A transaction is decoded before it is given on.
Project ==
    Awaited("project", IF LightStream THEN [light EXCEPT !.at = "item"] ELSE LightOver(light, "value"))

\* The answer to a unary read, which has to be about what was asked for.
ReadReply(read, then) ==
    /\ exchange = read
    /\ Awaited("reply", IF light.settled \in {"fault", "malformed"} THEN LightOver(light, "error") ELSE then)

Asked == LightOver(light, IF light.settled = "foreign" THEN "error" ELSE "value")
TipReply == ReadReply("light.tip", LightOver(light, "value"))
TreeReply == ReadReply("light.tree", Asked)
UtxosReply == ReadReply("light.utxos", Asked)

\* An adapter of this package can say that there is no such transaction.
TransactionReply ==
    ReadReply("light.transaction",
      CASE light.settled = "notFound" -> LightOver(light, "value")
        [] light.settled = "foreign" -> LightOver(light, "error")
        [] OTHER -> [light EXCEPT !.at = "project", !.settled = "none"])

\* broadcastTransaction(): from the dispatch on every failure, an abort too, is "unknown".
SendReply ==
    /\ exchange = "light.send" /\ light.at = "reply"
    /\ light.settled # "none" \/ light.stopped
    /\ light' = LightOver(light, IF light.stopped \/ cut \/ light.settled \in {"fault", "malformed"}
                                 THEN "unknown" ELSE light.settled)
    /\ UNCHANGED caller

LightStep ==
    \/ LightRefused \/ LightOpen \/ Identity \/ Genesis \/ Verified \/ DecodeTransaction \/ CallTransport
    \/ Iterable \/ Iterator \/ Pulled \/ Project
    \/ TipReply \/ TreeReply \/ UtxosReply \/ TransactionReply \/ SendReply

\* The application pulls again, or gives the stream back, also while a pull waits.
LightPull ==
    /\ light.at = "item"
    /\ light' = LightChecked(light, [light EXCEPT !.at = "pull", !.settled = "none"])
    /\ UNCHANGED caller

Cancel(l) == [Shut(l, 1) EXCEPT !.stopped = TRUE]
LightReturn ==
    /\ LightStream /\ light.at \in {"identity", "genesis", "pull", "project", "item"}
    /\ ~light.stopped
    /\ light' = IF light.at = "item" THEN LightOver(light, "error") ELSE Cancel(light)
    /\ UNCHANGED caller

-----------------------------------------------------------------------------
(* The transport and the caller's signal *)

Prepared == \E s \in {"good", "bad"} :
    /\ light.at \in {"identity", "genesis", "decode", "project"} /\ light.settled = "none" /\ ~light.stopped
    /\ light' = [light EXCEPT !.settled = s]
    /\ UNCHANGED caller

Blocks == [height : From..To + 1, id : {"a", "b"}, previous : {"a", "b"}]
Yielded == IF exchange = "light.blocks" THEN Blocks ELSE {"transaction"}

Pushed == \E s \in {"item", "end", "fault", "malformed"}, item \in Yielded :
    /\ light.at = "pull" /\ light.settled = "none" /\ ~light.stopped
    /\ light' = [light EXCEPT !.settled = s, !.due = IF s = "item" THEN item ELSE "none"]
    /\ UNCHANGED caller

\* A reply is about what was asked for or about something else; the node's answer to a
\* transaction says what it did.
LightAnswers ==
    CASE exchange = "light.send" ->
            {s \in {"acknowledged", "rejected"} :
                served = IF s = "acknowledged" THEN "accepted" ELSE "refused"}
      [] exchange = "light.transaction" -> {"value", "foreign", "notFound"}
      [] OTHER -> {"value", "foreign"}

LightReplied == \E s \in LightAnswers \cup {"fault", "malformed"} :
    /\ light.at = "reply" /\ light.settled = "none" /\ ~light.stopped
    /\ light' = [light EXCEPT !.settled = s]
    /\ UNCHANGED caller

\* An abort, which may come from inside a call of the transport.
LightAbort ==
    /\ exchange \in LightStreams \cup LightUnary
    /\ ~cut /\ light.at # "over"
    /\ cut' = TRUE
    /\ light' = IF light.open = {} THEN light ELSE Cancel(light)
    /\ UNCHANGED <<exchange, served>>

LightServe ==
    /\ exchange = "light.send" /\ Serve(light.sent)
    /\ UNCHANGED light

LightNext ==
    \/ LightStep \/ LightPull \/ LightReturn
    \/ Prepared \/ Pushed \/ LightReplied \/ LightAbort \/ LightServe

-----------------------------------------------------------------------------

\* Blocks come without a gap and each on the one before, whatever the server sends, and
\* a range that ends well is complete (streamCompactBlocks).
BlocksLinked ==
    exchange = "light.blocks" =>
        /\ \A i \in DOMAIN light.blocks : light.blocks[i].height = From + i - 1
        /\ \A i \in DOMAIN light.blocks : i > 1 => light.blocks[i].previous = light.blocks[i - 1].id
        /\ light.outcome = "value" => Len(light.blocks) = To - From + 1

\* What the transport has handed out is given back when the stream is over: the iterator,
\* or the iterable when it never gave one, and no object twice (release, in every layer).
IteratorsGivenBack ==
    /\ IsInjective(light.returns)
    /\ light.at = "over" =>
          /\ light.foreign = {"iterable"} => "iterable" \in Range(light.returns)
          /\ "iterator" \in light.foreign =>
                (IF light.alike THEN "iterable" ELSE "iterator") \in Range(light.returns)
=============================================================================
