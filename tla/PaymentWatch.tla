---------------------------- MODULE PaymentWatch ----------------------------
(***************************************************************************)
(* Watching one payment until it is confirmed.                             *)
(*                                                                         *)
(* An iterator of events() (payments.ts) polls: it reads the journal, asks *)
(* the source for an observation, stores it and publishes the new state to *)
(* its bounded single-reader buffer.  wait() reads such an iterator until  *)
(* the payment has enough confirmations, has failed, or until its timer,   *)
(* its caller or the closing wallet stops it.                              *)
(*                                                                         *)
(* An observation (payment-source.ts) is made of four or five separate     *)
(* reads of a source whose chain may change before each of them.  A chain  *)
(* is the sequence of its blocks, a hash the prefix that ends in a block,  *)
(* and the payment is in the block Paid.  The journal is external: it      *)
(* takes observations from this iterator and changes from other commands.  *)
(***************************************************************************)
EXTENDS Integers, Sequences, SequencesExt

CONSTANTS
    Chains,        \* the chains the source may be on
    Paid,          \* the block that holds the payment
    Confirmations, \* what wait() asks for
    Capacity,      \* observation.maxBufferedUpdates
    MaxReads,      \* attempts at a coherent observation (3 in the code)
    MaxMoves,      \* bound: how often the source moves
    MaxForeign     \* bound: changes of the journal by other commands

ASSUME ChainsAssumption == \A c \in Chains : c \in Seq(Nat) /\ c # <<>>
ASSUME BoundsAssumption ==
    /\ {Confirmations, Capacity, MaxReads} \subseteq Nat \ {0}
    /\ {MaxMoves, MaxForeign} \subseteq Nat

VARIABLES
    source,        \* the chain the source is on
    moves,         \* how often it has moved
    journal,       \* the payment's state in the journal
    foreign,       \* how often other commands have changed it
    producer,      \* the polling loop: where it is, and the observation in progress
    buffer,        \* the published states the reader has not taken
    stream,        \* the buffer: "open", or ended by "end", "error" or "close"
    reader,        \* "none", "first" (wait's own read), "idle", "pending" (a next() is
                   \* waiting), "leaving" (return() is waiting) or "gone"
    mode,          \* who reads: the application's "events", or "wait"
    last,          \* the state the reader got last
    cut,           \* what has been aborted: "timer", "caller", "wallet", "iterator"
    outcome        \* what wait() settled with

vars == <<source, moves, journal, foreign, producer, buffer, stream, reader, mode,
          last, cut, outcome>>

None == <<>>
Has(chain, hash) == IsPrefix(hash, chain)
Payment(chain) == {h \in 1..Len(chain) : chain[h] = Paid}
Depth(state) == Len(state.tip) - Len(state.inclusion) + 1
Confirmed(state) == state.inclusion # None /\ Depth(state) >= Confirmations

Unobserved == [revision |-> 1, phase |-> "open", inclusion |-> None, tip |-> None, back |-> FALSE]
NoObservation == [tip |-> None, claim |-> None, known |-> FALSE, tree |-> None, back |-> FALSE]
Off == [at |-> "off", tries |-> 0, revision |-> 0, seen |-> NoObservation]

Init ==
    /\ source \in Chains /\ moves = 0
    /\ journal = Unobserved /\ foreign = 0
    /\ producer = Off /\ buffer = <<>> /\ stream = "open"
    /\ reader = "none" /\ mode \in {"events", "wait"}
    /\ last = Unobserved /\ cut = {} /\ outcome = "none"

-----------------------------------------------------------------------------
(* The rest of the world *)

\* The source's chain changes.  seen.back: it has left the tip of the observation in
\* progress and is on it again.
SourceMoves ==
    /\ moves < MaxMoves
    /\ moves' = moves + 1
    /\ source' \in Chains \ {source}
    /\ producer' = IF producer.at = "store" THEN producer
                   ELSE [producer EXCEPT !.seen.back = producer.seen.tip = source']
    /\ UNCHANGED <<journal, foreign, buffer, stream, reader, mode, last, cut, outcome>>

\* Another command of the wallet: it abandons the payment, records what ends it (a
\* rejection, an expiry or a blocking parent: "dead"), or stores its own observation.
ForeignChange ==
    /\ foreign < MaxForeign
    /\ foreign' = foreign + 1
    /\ \/ \E phase \in {"abandoned", "dead"} :
             journal' = [journal EXCEPT !.phase = phase, !.revision = @ + 1]
       \/ journal' = [journal EXCEPT !.tip = source, !.back = FALSE, !.revision = @ + 1,
                         !.inclusion = IF Payment(source) = {} THEN None
                                       ELSE SubSeq(source, 1, CHOOSE h \in Payment(source) : TRUE)]
    /\ journal.phase # "abandoned"
    /\ UNCHANGED <<source, moves, producer, buffer, stream, reader, mode, last, cut, outcome>>

\* The timer of wait() fires, the caller aborts, or payments.close() is called.  The
\* first of them stops everything; a second would change only the error's name.
Cut(who) ==
    /\ cut = {} /\ reader \notin {"none", "leaving", "gone"}
    /\ who = "timer" => mode = "wait"
    /\ cut' = cut \cup {who}
    /\ UNCHANGED <<source, moves, journal, foreign, producer, buffer, stream, reader, mode,
                   last, outcome>>

-----------------------------------------------------------------------------
(* The observation: payment-source.ts *)

Observing(at) ==
    /\ producer.at = at
    /\ UNCHANGED <<source, moves, journal, foreign, buffer, stream, reader, mode, last,
                   cut, outcome>>
Next1(at, seen) == producer' = [producer EXCEPT !.at = at, !.seen = seen]

\* changedObservation(): the whole observation again after a pause, or, after the
\* last attempt, another round of the poll.
Changed ==
    producer' = [producer EXCEPT !.at = "pause", !.seen = NoObservation]

\* The point of the source's chain at a height it has.
Point(h) == SubSeq(source, 1, h)

\* The source proves that it serves this network: its tip, or its first tree state.
Verify ==
    /\ Observing("verify")
    /\ Next1("before", producer.seen)

\* The tip before.
Before ==
    /\ Observing("before")
    /\ Next1("status", [NoObservation EXCEPT !.tip = source])

\* The status: no inclusion, or a height with or without the block's hash.
Status ==
    /\ Observing("status")
    /\ IF Payment(source) = {} THEN Next1("after", producer.seen)
       ELSE \E h \in Payment(source), known \in BOOLEAN :
               Next1("tree", [producer.seen EXCEPT !.claim = Point(h),
                                                   !.known = known])

\* The tree state at the claimed height; it must fit the tip and the claim.
Tree ==
    /\ Observing("tree")
    /\ LET s == producer.seen
           h == Len(s.claim)
           p == Point(h) IN
       /\ h <= Len(source)
       /\ IF h > Len(s.tip) \/ (h = Len(s.tip) /\ p # s.tip) \/ (s.known /\ s.claim # p)
          THEN Next1("latest", [s EXCEPT !.tree = p])
          ELSE Next1("after", [s EXCEPT !.tree = p])

\* It does not: the tip has changed, or the block is above a tip that lags, and the
\* observation is made again; otherwise the source contradicts itself.
Latest ==
    /\ Observing("latest")
    /\ LET s == producer.seen IN
       /\ \/ source # s.tip
          \/ Len(s.tree) > Len(s.tip) /\ (s.known => s.claim = s.tree)
       /\ Changed

AfterUnread ==                   \* plausible bug: the second read of the tip is left out
    /\ Observing("after")
    /\ Next1("store", producer.seen)
\* The tip after: the reads between the two belong together only if it is the same.
After ==
    /\ Observing("after")
    /\ IF source = producer.seen.tip THEN Next1("store", producer.seen) ELSE Changed

\* The pause between attempts, and between polls.
Pause ==
    /\ Observing("pause") /\ cut = {}
    /\ producer' = IF producer.tries < MaxReads
                   THEN [producer EXCEPT !.at = "verify", !.tries = @ + 1]
                   ELSE [producer EXCEPT !.at = "delay", !.tries = 0]

-----------------------------------------------------------------------------
(* The poll: events() *)

Read ==
    /\ Observing("read") /\ cut = {}
    /\ producer' = [producer EXCEPT !.at = "verify", !.tries = 1]

Delay ==
    /\ Observing("delay") /\ cut = {}
    /\ producer' = [producer EXCEPT !.at = "read"]

\* The observation is stored; an abort during the write does not undo it.
Stored ==
    LET s == producer.seen
        new == [journal EXCEPT !.inclusion = s.tree, !.tip = s.tip, !.back = s.back] IN
    IF new = journal THEN journal ELSE [new EXCEPT !.revision = @ + 1]

Overflow == Len(buffer) >= Capacity

PublishAlways ==                 \* plausible bug: the published revision is not remembered
    /\ producer.at = "store" /\ cut = {}
    /\ journal' = Stored
    /\ producer' = [Off EXCEPT !.at = "delay"]
    /\ buffer' = IF stream = "open" THEN Append(buffer, Stored) ELSE buffer
    /\ UNCHANGED <<source, moves, foreign, stream, reader, mode, last, cut, outcome>>
\* It is published if its revision is new to this iterator.  A full buffer ends the
\* iterator with an error, an abandoned payment ends it in order.
Store ==
    /\ producer.at = "store" /\ cut = {}
    /\ journal' = Stored
    /\ LET news == Stored.revision # producer.revision /\ stream = "open"
           full == news /\ Overflow IN
       /\ buffer' = IF full THEN <<>> ELSE IF news THEN Append(buffer, Stored) ELSE buffer
       /\ stream' = IF full THEN "error"
                    ELSE IF stream = "open" /\ Stored.phase = "abandoned" THEN "end"
                    ELSE stream
       /\ producer' = IF full \/ Stored.phase = "abandoned" THEN Off
                      ELSE [Off EXCEPT !.at = "delay", !.revision = Stored.revision]
    /\ UNCHANGED <<source, moves, foreign, reader, mode, last, cut, outcome>>

\* buffer.close(): an error, or a reader that leaves, drops what is buffered.
Close(how) ==
    /\ buffer' = <<>>
    /\ stream' = IF stream = "open" THEN how ELSE stream

Network == {"verify", "before", "status", "tree", "latest", "after"}

\* A call fails, or an answer contradicts the one before it.
CallFails ==
    /\ producer.at \in Network \cup {"read", "store"}
    /\ Close("error")
    /\ producer' = Off
    /\ UNCHANGED <<source, moves, journal, foreign, reader, mode, last, cut, outcome>>

StopsPolite ==                   \* plausible bug: a call of the source does not hear it
    /\ cut # {}
    /\ producer.at \in {"pause", "delay", "read", "store"}
    /\ Close("error")
    /\ producer' = Off
    /\ UNCHANGED <<source, moves, journal, foreign, reader, mode, last, cut, outcome>>
\* Every wait of the loop listens to the signals.
Stops ==
    /\ cut # {}
    /\ producer.at # "off"
    /\ Close("error")
    /\ producer' = Off
    /\ UNCHANGED <<source, moves, journal, foreign, reader, mode, last, cut, outcome>>

-----------------------------------------------------------------------------
(* The reader *)

\* events() is called and read, or wait() is called.
Begin ==
    /\ reader = "none"
    /\ IF mode = "wait" THEN reader' = "first" /\ UNCHANGED producer
       ELSE reader' = "pending" /\ producer' = [Off EXCEPT !.at = "read"]
    /\ UNCHANGED <<source, moves, journal, foreign, buffer, stream, mode, last, cut, outcome>>

Settle(how) ==
    /\ outcome' = how
    /\ reader' = "leaving"
    /\ cut' = cut \cup {"iterator"}
    /\ Close("close")

Reason == CASE "caller" \in cut -> "aborted"
            [] "caller" \notin cut /\ "timer" \in cut -> "timeout"
            [] OTHER -> "failed"

\* wait() reads the payment once before it polls.
First ==
    /\ reader = "first"
    /\ last' = IF cut = {} THEN journal ELSE last
    /\ IF cut # {} \/ journal.phase = "abandoned"
       THEN Settle("failed") /\ UNCHANGED producer
       ELSE /\ reader' = "pending" /\ producer' = [Off EXCEPT !.at = "read"]
            /\ UNCHANGED <<buffer, stream, cut, outcome>>
    /\ UNCHANGED <<source, moves, journal, foreign, mode>>

\* next() returns a state.  wait() goes on until the state settles it.
Deliver ==
    /\ reader = "pending" /\ buffer # <<>>
    /\ last' = Head(buffer)
    /\ IF mode = "wait" /\ (Confirmed(last') \/ last'.phase = "dead")
       THEN Settle(IF Confirmed(last') THEN "confirmed" ELSE "failed")
       ELSE /\ reader' = IF mode = "wait" THEN "pending" ELSE "idle"
            /\ buffer' = Tail(buffer)
            /\ UNCHANGED <<stream, cut, outcome>>
    /\ UNCHANGED <<source, moves, journal, foreign, producer, mode>>

\* next() returns the end, or throws.
Ended ==
    /\ reader = "pending" /\ buffer = <<>> /\ stream # "open"
    /\ Settle(Reason)
    /\ UNCHANGED <<source, moves, journal, foreign, producer, mode, last>>

\* A signal of wait() is aborted: it does not wait for the iterator's word.
WaitCut ==
    /\ mode = "wait" /\ reader = "pending" /\ cut # {}
    /\ Settle(Reason)
    /\ UNCHANGED <<source, moves, journal, foreign, producer, mode, last>>

\* The application reads on, or leaves.
ReadOn ==
    /\ reader = "idle"
    /\ reader' = "pending"
    /\ UNCHANGED <<source, moves, journal, foreign, producer, buffer, stream, mode, last,
                   cut, outcome>>
Leave ==
    /\ mode = "events" /\ reader \in {"idle", "pending"}
    /\ Settle("none")
    /\ UNCHANGED <<source, moves, journal, foreign, producer, mode, last>>

\* return() has waited for the loop to end.
Left ==
    /\ reader = "leaving" /\ producer.at = "off"
    /\ reader' = "gone"
    /\ UNCHANGED <<source, moves, journal, foreign, producer, buffer, stream, mode, last,
                   cut, outcome>>

\* Nothing is left to do.
Rest == reader = "gone" /\ UNCHANGED vars

Answers == Verify \/ Before \/ Status \/ Tree \/ Latest \/ After
Loop == Pause \/ Read \/ Delay \/ Store \/ Stops
Reader == First \/ Deliver \/ Ended \/ WaitCut \/ Left

Next ==
    \/ SourceMoves \/ ForeignChange
    \/ \E who \in {"timer", "caller", "wallet"} : Cut(who)
    \/ Answers \/ CallFails \/ Loop
    \/ Begin \/ Reader \/ ReadOn \/ Leave \/ Rest

Spec == Init /\ [][Next]_vars
\* Local steps go on; a source need not answer, and nobody need leave.
FairSpec == Spec /\ WF_vars(Loop) /\ WF_vars(Reader)

-----------------------------------------------------------------------------
(* Properties *)

\* What the journal holds of a payment's inclusion was true of one chain: the block is
\* on the chain of the tip it is counted from and not above it.  The one exception is a
\* source that left that tip between the reads and was back for the last: two equal
\* tips do not show it (payment-source.ts: observeOnce).
ObservationCoherent ==
    journal.inclusion # None =>
        /\ Depth(journal) >= 1
        /\ journal.back \/ Has(journal.tip, journal.inclusion)

\* A reader gets states of increasing revisions, each once, none that the journal did
\* not have, and wait() is confirmed by such a state only; a slow reader is ended, and
\* its buffer never grows beyond its capacity (payments.ts: events, wait).
StatesInOrder ==
    /\ Len(buffer) <= Capacity
    /\ stream \in {"error", "close"} => buffer = <<>>
    /\ \A i \in 1..Len(buffer) :
          /\ buffer[i].revision <= journal.revision
          /\ buffer[i].revision > IF i = 1 THEN (IF mode = "events" THEN last.revision - 1 ELSE 0)
                                  ELSE buffer[i - 1].revision
    /\ outcome = "confirmed" => Confirmed(last) /\ last.revision <= journal.revision

\* Whoever's wait is over - by a timer, an abort, or the closing wallet - is let go, and
\* the polling loop with it, although the source may never answer (payments.ts: wait's
\* finally, return, close).
CutEnds == (cut # {} /\ (mode = "wait" \/ reader = "leaving")) ~> (reader = "gone" /\ producer.at = "off")
=============================================================================
