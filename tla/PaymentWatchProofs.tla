------------------------- MODULE PaymentWatchProofs -------------------------
(***************************************************************************)
(* Proofs about PaymentWatch: for any chains of the source, numbers of     *)
(* reads and capacities, an observation that is stored was true of one     *)
(* chain, and a reader gets states in order.                               *)
(*                                                                         *)
(* For the first, an observation in progress is followed read by read: as  *)
(* long as the source is on the tip that was read first and has not left   *)
(* it, what was read since belongs to that tip (InProgress).  For the      *)
(* second, the revision that the loop remembers is not behind anything     *)
(* that it has published (Order).                                          *)
(***************************************************************************)
EXTENDS PaymentWatch, TLAPS

Hash == Seq(Nat)
StateSet == [revision : Nat, phase : {"open", "abandoned", "dead"},
             inclusion : Hash, tip : Hash, back : BOOLEAN]
SeenSet == [tip : Hash, claim : Hash, known : BOOLEAN, tree : Hash, back : BOOLEAN]
ProducerSet ==
    [at : {"off", "read", "pause", "delay", "store"} \cup Network, tries : Nat, revision : Nat,
     seen : SeenSet]

Types ==
    /\ source \in Chains
    /\ journal \in StateSet /\ last \in StateSet
    /\ producer \in ProducerSet
    /\ buffer \in Seq(StateSet)
    /\ stream \in {"open", "end", "error", "close"}
    /\ reader \in {"none", "first", "idle", "pending", "leaving", "gone"}
    /\ mode \in {"events", "wait"}
    /\ outcome \in {"none", "confirmed", "failed", "aborted", "timeout"}

\* The block is on the chain of the tip, unless something came between the reads.
Fits(inclusion, tip, between) ==
    inclusion # None =>
        /\ Len(inclusion) <= Len(tip)
        /\ between \/ Has(tip, inclusion)

InProgress ==
    LET s == producer.seen IN
    /\ producer.at = "status" => s.tree = None
    /\ producer.at = "after" => Fits(s.tree, s.tip, s.back \/ source # s.tip)
    /\ producer.at = "store" => Fits(s.tree, s.tip, s.back)

\* What is buffered increases, up to what the loop remembers and the journal has reached.
Order ==
    /\ Len(buffer) <= Capacity
    /\ stream \in {"error", "close"} => buffer = <<>>
    /\ producer.revision <= journal.revision /\ last.revision <= journal.revision
    /\ journal.revision > 0
    /\ \A i \in 1..Len(buffer) :
          /\ buffer[i].revision > 0
          /\ mode = "events" => last.revision <= buffer[i].revision
          /\ buffer[i].revision <= journal.revision
          /\ producer.at # "off" => buffer[i].revision <= producer.revision
    /\ \A i, k \in 1..Len(buffer) : i < k => buffer[i].revision < buffer[k].revision

\* Nothing has happened before the loop begins, and nothing happens after a settlement.
Ends ==
    /\ reader \in {"none", "first"} => producer.at = "off" /\ buffer = <<>>
    /\ outcome # "none" => reader \in {"leaving", "gone"}
    /\ outcome = "confirmed" => Confirmed(last)

IInv == /\ Types /\ InProgress /\ Order /\ Ends
        /\ Fits(journal.inclusion, journal.tip, journal.back)

-----------------------------------------------------------------------------
(* Blocks and records *)

LEMMA ChainType ==
    ASSUME NEW c \in Chains
    PROVE  c \in Hash /\ c # <<>> /\ Len(c) \in Nat \ {0}
BY ChainsAssumption DEF Hash

\* The prefix of a chain at one of its heights is on it.
LEMMA PointOn ==
    ASSUME NEW c \in Hash, NEW h \in 1..Len(c)
    PROVE  LET p == SubSeq(c, 1, h)
           IN  p \in Hash /\ Len(p) = h /\ Has(c, p) /\ p # None
<1> DEFINE p == SubSeq(c, 1, h)
<1>1. p \in Hash /\ Len(p) = h
  BY DEF Hash
<1>2. \A i \in 1..h : p[i] = c[i]
  BY DEF Hash
<1>3. SubSeq(p, 1, h) = p
  <2>1. SubSeq(p, 1, h) \in Hash /\ Len(SubSeq(p, 1, h)) = h
    BY <1>1 DEF Hash
  <2>2. \A i \in 1..h : SubSeq(p, 1, h)[i] = p[i]
    BY <1>1 DEF Hash
  <2> QED
    BY <1>1, <2>1, <2>2 DEF Hash
<1>4. h <= Len(c)
  OBVIOUS
<1>5. Has(c, p)
  BY <1>1, <1>3, <1>4 DEF Has, IsPrefix
<1>6. p # None
  BY <1>1 DEF None
<1> QED
  BY <1>1, <1>5, <1>6

LEMMA Records ==
    /\ Unobserved \in StateSet /\ NoObservation \in SeenSet /\ Off \in ProducerSet
    /\ None \in Hash
BY DEF Unobserved, StateSet, NoObservation, SeenSet, Off, ProducerSet, None, Hash

-----------------------------------------------------------------------------
(* The observation *)

\* A round of the loop that publishes nothing.
LEMMA LoopMoves ==
    ASSUME IInv, NEW p \in ProducerSet, producer' = p, p.at # "off", producer.at # "off",
           p.revision = producer.revision, InProgress',
           UNCHANGED <<source, journal, buffer, stream, reader, mode, last, outcome>>
    PROVE  IInv'
<1>1. Types'
  BY DEF IInv, Types
<1>2. Order'
  BY DEF IInv, Order
<1>3. Ends'
  BY DEF IInv, Ends, Confirmed, Depth
<1> QED
  BY <1>1, <1>2, <1>3 DEF IInv, Fits, Has

\* A read that goes on with the observation, or starts it anew.
LEMMA Reads ==
    ASSUME IInv, NEW at \in {"pause", "store"} \cup Network, Observing(producer.at),
           NEW seen \in SeenSet, Next1(at, seen), producer.at # "off",
           at = "status" => seen.tree = None,
           at = "after" => Fits(seen.tree, seen.tip, seen.back \/ source # seen.tip),
           at = "store" => Fits(seen.tree, seen.tip, seen.back)
    PROVE  IInv'
<1> DEFINE p == [producer EXCEPT !.at = at, !.seen = seen]
<1>1. producer \in ProducerSet /\ producer' = p
  BY DEF IInv, Types, Next1
<1>2. p \in ProducerSet /\ p.at = at /\ p.revision = producer.revision /\ p.seen = seen
  BY <1>1 DEF ProducerSet
<1>3. UNCHANGED <<source, journal, buffer, stream, reader, mode, last, outcome>>
  BY DEF Observing
<1>4. at # "off"
  BY DEF Network
<1>5. producer'.at = at /\ producer'.seen = seen
  BY <1>1, <1>2
<1>6. InProgress'
  BY <1>3, <1>5 DEF InProgress, Fits, Has
<1> QED
  BY <1>1, <1>2, <1>3, <1>4, <1>6, LoopMoves

LEMMA ReadsStep ==
    ASSUME IInv, Verify \/ Before \/ Status \/ Tree \/ Latest \/ After
    PROVE  IInv'
<1> DEFINE s == producer.seen
<1>1. s \in SeenSet /\ source \in Hash /\ producer \in ProducerSet
  BY ChainType DEF IInv, Types, ProducerSet
<1>2. ASSUME Changed, Observing(producer.at), producer.at # "off" PROVE IInv'
  <2>1. Next1("pause", NoObservation)
    BY <1>2 DEF Changed, Next1
  <2> QED
    BY <1>2, <2>1, Records, Reads
<1>3. CASE Verify
  <2>1. Observing(producer.at) /\ producer.at = "verify" /\ Next1("before", s)
    BY <1>3 DEF Verify, Observing
  <2> QED
    BY <1>1, <2>1, Reads DEF Network
<1>4. CASE Before
  <2> DEFINE seen == [NoObservation EXCEPT !.tip = source]
  <2>1. Observing(producer.at) /\ producer.at = "before" /\ Next1("status", seen)
    BY <1>4 DEF Before, Observing
  <2>2. seen \in SeenSet /\ seen.tree = None
    BY <1>1, Records DEF NoObservation, SeenSet
  <2> QED
    BY <2>1, <2>2, Reads DEF Network
<1>5. CASE Status
  <2>1. Observing(producer.at) /\ producer.at = "status" /\ s.tree = None
    BY <1>5 DEF Status, Observing, IInv, InProgress
  <2>2. CASE Next1("after", s)
    BY <1>1, <2>1, <2>2, Reads DEF Network, Fits
  <2>3. CASE \E h \in Payment(source), known \in BOOLEAN :
                Next1("tree", [s EXCEPT !.claim = Point(h), !.known = known])
    <3>1. PICK h \in Payment(source), known \in BOOLEAN :
              Next1("tree", [s EXCEPT !.claim = Point(h), !.known = known])
      BY <2>3
    <3>2. Point(h) \in Hash
      BY <1>1, PointOn DEF Payment, Point
    <3>3. [s EXCEPT !.claim = Point(h), !.known = known] \in SeenSet
      BY <1>1, <3>2 DEF SeenSet
    <3> QED
      BY <2>1, <3>1, <3>3, Reads DEF Network
  <2> QED
    BY <1>5, <2>2, <2>3 DEF Status
<1>6. CASE Tree
  <2> DEFINE h == Len(s.claim)
             p == Point(h)
             seen == [s EXCEPT !.tree = p]
  <2>1. Observing(producer.at) /\ producer.at = "tree" /\ h <= Len(source)
    BY <1>6 DEF Tree, Observing
  <2>2. s.claim \in Hash /\ h \in Nat /\ s.tip \in Hash
    BY <1>1 DEF SeenSet, Hash
  <2>3. p \in Hash /\ Len(p) = h /\ (h # 0 => Has(source, p))
    <3>1. CASE h = 0
      BY <1>1, <3>1 DEF Point, Hash
    <3>2. CASE h # 0
      BY <1>1, <2>1, <2>2, <3>2, PointOn DEF Point, Hash
    <3> QED
      BY <3>1, <3>2
  <2>4. /\ seen \in SeenSet /\ seen.tree = p /\ seen.tip = s.tip /\ seen.back = s.back
    BY <1>1, <2>3 DEF SeenSet
  <2>5. CASE Next1("latest", seen)
    BY <2>1, <2>4, <2>5, Reads DEF Network
  <2>6. CASE Next1("after", seen) /\ h <= Len(s.tip)
    <3>1. p # None => h # 0
      BY <2>3 DEF None, Hash
    <3>2. Fits(p, s.tip, s.back \/ source # s.tip)
      BY <2>3, <2>6, <3>1 DEF Fits
    <3> QED
      BY <2>1, <2>4, <2>6, <3>2, Reads DEF Network
  <2>7. Next1("latest", seen) \/ (Next1("after", seen) /\ h <= Len(s.tip))
    <3>1. Len(s.tip) \in Nat
      BY <2>2 DEF Hash
    <3> QED
      BY <1>6, <2>2, <3>1 DEF Tree
  <2> QED
    BY <2>5, <2>6, <2>7
<1>7. CASE Latest
  <2>1. Observing(producer.at) /\ producer.at = "latest" /\ Changed
    BY <1>7 DEF Latest, Observing
  <2> QED
    BY <1>2, <2>1
<1>8. CASE After
  <2>1. /\ Observing(producer.at) /\ producer.at = "after"
        /\ Fits(s.tree, s.tip, s.back \/ source # s.tip)
    BY <1>8 DEF After, Observing, IInv, InProgress
  <2>2. CASE source = s.tip
    <3>1. Next1("store", s) /\ Fits(s.tree, s.tip, s.back)
      BY <1>8, <2>1, <2>2 DEF After, Fits
    <3> QED
      BY <1>1, <2>1, <3>1, Reads
  <2>3. CASE source # s.tip
    BY <1>2, <1>8, <2>1, <2>3 DEF After
  <2> QED
    BY <2>2, <2>3
<1> QED
  BY <1>3, <1>4, <1>5, <1>6, <1>7, <1>8

LEMMA PauseStep ==
    ASSUME IInv, Pause \/ Read \/ Delay
    PROVE  IInv'
<1>1. /\ producer.at \in {"pause", "read", "delay"}
      /\ UNCHANGED <<source, journal, buffer, stream, reader, mode, last, outcome>>
  BY DEF Pause, Read, Delay, Observing
<1>2. PICK at \in {"verify", "delay", "read"}, n \in Nat :
          producer' = [producer EXCEPT !.at = at, !.tries = n]
  <2>1. producer \in ProducerSet /\ producer.tries + 1 \in Nat
    BY DEF IInv, Types, ProducerSet
  <2>2. CASE Pause
    BY <2>1, <2>2 DEF Pause
  <2>3. CASE Read
    BY <2>1, <2>3 DEF Read
  <2>4. CASE Delay
    <3>1. producer' = [producer EXCEPT !.at = "read", !.tries = producer.tries]
      BY <2>1, <2>4 DEF Delay, ProducerSet
    <3> QED
      BY <2>1, <3>1 DEF ProducerSet
  <2> QED
    BY <2>2, <2>3, <2>4
<1>3. producer' \in ProducerSet /\ producer'.at = at /\ producer'.revision = producer.revision
  BY <1>2 DEF IInv, Types, ProducerSet, Network
<1>4. InProgress'
  BY <1>3 DEF InProgress
<1> QED
  BY <1>1, <1>3, <1>4, LoopMoves

-----------------------------------------------------------------------------
(* The world *)

\* The source leaves the tip, or comes back to it and is known to.
LEMMA SourceStep ==
    ASSUME IInv, SourceMoves
    PROVE  IInv'
<1>1. /\ source' \in Chains
      /\ UNCHANGED <<journal, buffer, stream, reader, mode, last, outcome>>
  BY DEF SourceMoves
<1>2. PICK back \in BOOLEAN :
         /\ producer' = [producer EXCEPT !.seen = [producer.seen EXCEPT !.back = back]]
         /\ producer.at # "store" => (back <=> producer.seen.tip = source')
         /\ producer.at = "store" => (back <=> producer.seen.back)
  <2>1. producer \in ProducerSet /\ producer.seen \in SeenSet
    BY DEF IInv, Types, ProducerSet
  <2>2. CASE producer.at = "store"
    <3>1. [producer.seen EXCEPT !.back = producer.seen.back] = producer.seen
      BY <2>1 DEF SeenSet
    <3>2. [producer EXCEPT !.seen = producer.seen] = producer
      BY <2>1 DEF ProducerSet
    <3>3. producer' = producer /\ producer.seen.back \in BOOLEAN
      BY <2>1, <2>2 DEF SourceMoves, SeenSet
    <3> QED
      BY <2>2, <3>1, <3>2, <3>3
  <2>3. CASE producer.at # "store"
    <3> DEFINE b == producer.seen.tip = source'
    <3>1. producer' = [producer EXCEPT !.seen.back = b]
      BY <2>3 DEF SourceMoves
    <3>2. [producer EXCEPT !.seen.back = b]
            = [producer EXCEPT !.seen = [producer.seen EXCEPT !.back = b]]
      BY <2>1 DEF ProducerSet
    <3>3. b \in BOOLEAN
      OBVIOUS
    <3> QED
      BY <2>3, <3>1, <3>2, <3>3
  <2> QED
    BY <2>2, <2>3
<1>3. /\ producer' \in ProducerSet /\ producer'.at = producer.at
      /\ producer'.revision = producer.revision
      /\ producer'.seen.tree = producer.seen.tree /\ producer'.seen.tip = producer.seen.tip
      /\ producer'.seen.back = back
  <2>1. producer \in ProducerSet /\ producer.seen \in SeenSet
    BY DEF IInv, Types, ProducerSet
  <2> DEFINE seen == [producer.seen EXCEPT !.back = back]
  <2>2. /\ seen \in SeenSet /\ seen.tree = producer.seen.tree
        /\ seen.tip = producer.seen.tip /\ seen.back = back
    BY <2>1 DEF SeenSet
  <2> HIDE DEF seen
  <2>3. producer' = [producer EXCEPT !.seen = seen]
    BY <1>2 DEF seen
  <2> QED
    BY <2>1, <2>2, <2>3 DEF ProducerSet
<1>4. InProgress'
  <2>1. Fits(producer.seen.tree, producer.seen.tip, producer.seen.back \/ source # producer.seen.tip)
          => Fits(producer.seen.tree, producer.seen.tip, TRUE)
    BY DEF Fits
  <2> QED
    BY <1>2, <1>3, <2>1 DEF IInv, InProgress, Fits
<1>5. Types'
  BY <1>1, <1>3 DEF IInv, Types
<1>6. Order' /\ Ends'
  BY <1>1, <1>3 DEF IInv, Order, Ends, Confirmed, Depth
<1> QED
  BY <1>1, <1>4, <1>5, <1>6 DEF IInv, Fits, Has

LEMMA Buffered ==
    ASSUME Types, NEW i \in 1..Len(buffer)
    PROVE  buffer[i] \in StateSet /\ buffer[i].revision \in Nat
<1>1. buffer \in Seq(StateSet)
  BY DEF Types
<1>2. buffer[i] \in StateSet
  BY <1>1
<1> QED
  BY <1>2 DEF StateSet

\* The journal changes, from outside or by an observation: its revision grows.
LEMMA JournalGrows ==
    ASSUME IInv, NEW j \in StateSet, journal' = j, j.revision >= journal.revision,
           Fits(j.inclusion, j.tip, j.back),
           UNCHANGED <<source, producer, buffer, stream, reader, mode, last, outcome>>
    PROVE  IInv'
<1>1. Types' /\ Ends' /\ InProgress'
  BY DEF IInv, Types, Ends, Confirmed, Depth, InProgress, Fits, Has
<1>2. journal \in StateSet /\ producer \in ProducerSet /\ last \in StateSet
  BY DEF IInv, Types
<1>3. \A n \in Nat : n <= journal.revision => n <= j.revision
  BY <1>2 DEF StateSet
<1>4. \A i \in 1..Len(buffer) : buffer[i].revision \in Nat
  BY Buffered DEF IInv
<1>5. producer.revision \in Nat /\ last.revision \in Nat /\ journal.revision \in Nat
      /\ j.revision \in Nat
  BY <1>2 DEF StateSet, ProducerSet
<1>6. Order'
  BY <1>3, <1>4, <1>5 DEF IInv, Order
<1> QED
  BY <1>1, <1>6 DEF IInv, Fits, Has

LEMMA ForeignStep ==
    ASSUME IInv, ForeignChange
    PROVE  IInv'
<1>1. journal \in StateSet /\ journal.revision + 1 \in Nat /\ source \in Hash
      /\ journal.revision + 1 >= journal.revision
  BY ChainType DEF IInv, Types, StateSet
<1>2. UNCHANGED <<source, producer, buffer, stream, reader, mode, last, outcome>>
  BY DEF ForeignChange
<1>3. CASE \E phase \in {"abandoned", "dead"} :
              journal' = [journal EXCEPT !.phase = phase, !.revision = @ + 1]
  <2>1. PICK phase \in {"abandoned", "dead"} :
              journal' = [journal EXCEPT !.phase = phase, !.revision = journal.revision + 1]
    BY <1>1, <1>3 DEF StateSet
  <2>2. /\ journal' \in StateSet /\ journal'.revision = journal.revision + 1
        /\ journal'.inclusion = journal.inclusion /\ journal'.tip = journal.tip
        /\ journal'.back = journal.back
    BY <1>1, <2>1 DEF StateSet
  <2> QED
    BY <1>1, <1>2, <2>2, JournalGrows DEF IInv
<1>4. CASE journal' = [journal EXCEPT !.tip = source, !.back = FALSE, !.revision = @ + 1,
                         !.inclusion = IF Payment(source) = {} THEN None
                                       ELSE SubSeq(source, 1, CHOOSE h \in Payment(source) : TRUE)]
  <2> DEFINE found == IF Payment(source) = {} THEN None
                      ELSE SubSeq(source, 1, CHOOSE h \in Payment(source) : TRUE)
  <2>1. found \in Hash /\ Fits(found, source, FALSE)
    <3>1. CASE Payment(source) = {}
      BY <3>1, Records DEF Fits
    <3>2. CASE Payment(source) # {}
      <4>1. PICK h \in Payment(source) : found = SubSeq(source, 1, h)
        BY <3>2
      <4>2. h \in 1..Len(source)
        BY DEF Payment
      <4>3. found \in Hash /\ Len(found) = h /\ Has(source, found)
        BY <1>1, <4>1, <4>2, PointOn
      <4>4. h <= Len(source)
        BY <4>2
      <4> QED
        BY <4>3, <4>4 DEF Fits
    <3> QED
      BY <3>1, <3>2
  <2> HIDE DEF found
  <2>2. journal' = [journal EXCEPT !.tip = source, !.back = FALSE,
                                   !.revision = journal.revision + 1, !.inclusion = found]
    BY <1>1, <1>4 DEF found, StateSet
  <2>3. /\ journal' \in StateSet /\ journal'.revision = journal.revision + 1
        /\ journal'.inclusion = found /\ journal'.tip = source /\ journal'.back = FALSE
    BY <1>1, <2>1, <2>2 DEF StateSet
  <2> QED
    BY <1>1, <1>2, <2>1, <2>3, JournalGrows
<1> QED
  BY <1>3, <1>4 DEF ForeignChange

-----------------------------------------------------------------------------
(* The loop publishes or ends *)

\* The loop ends; an error or a reader that leaves drops what is buffered.
LEMMA LoopEnds ==
    ASSUME IInv, producer' \in {producer, Off}, NEW how \in {"error", "close"}, Close(how),
           NEW r \in {reader, "leaving"}, reader' = r,
           outcome' \in {"none", "confirmed", "failed", "aborted", "timeout"},
           outcome' # "none" => r = "leaving" \/ outcome' = outcome,
           last' = last, outcome' = "confirmed" => Confirmed(last),
           UNCHANGED <<source, journal, mode>>
    PROVE  IInv'
<1>1. buffer' = <<>> /\ stream' \in {"end", "error", "close"}
  BY DEF Close, IInv, Types
<1>2. Types'
  BY <1>1, Records DEF IInv, Types
<1>3. producer'.at = producer.at \/ producer'.at = "off"
  BY DEF Off
<1>4. InProgress'
  BY DEF IInv, InProgress, Fits, Has, Off
<1>5. producer'.revision <= journal.revision
  BY DEF IInv, Types, Order, Off, StateSet
<1>6. Order'
  BY <1>1, <1>5, BoundsAssumption DEF IInv, Order
<1>7. Ends'
  BY <1>1, <1>3 DEF IInv, Ends, Confirmed, Depth
<1> QED
  BY <1>2, <1>4, <1>6, <1>7 DEF IInv, Fits, Has

LEMMA StopsStep ==
    ASSUME IInv, CallFails \/ Stops
    PROVE  IInv'
<1>1. /\ producer' = Off /\ Close("error")
      /\ UNCHANGED <<source, journal, reader, mode, last, outcome>>
  BY DEF CallFails, Stops
<1> QED
  BY <1>1, LoopEnds DEF IInv, Types, Ends

\* An observation is stored as it was made.
LEMMA StoredFits ==
    ASSUME IInv, producer.at = "store"
    PROVE  /\ Stored \in StateSet
           /\ Stored.revision >= journal.revision
           /\ Fits(Stored.inclusion, Stored.tip, Stored.back)
<1> DEFINE s == producer.seen
           new == [journal EXCEPT !.inclusion = s.tree, !.tip = s.tip, !.back = s.back]
<1>1. journal \in StateSet /\ s \in SeenSet /\ Fits(s.tree, s.tip, s.back)
  BY DEF IInv, Types, ProducerSet, InProgress
<1>2. /\ new \in StateSet /\ new.revision = journal.revision
      /\ new.inclusion = s.tree /\ new.tip = s.tip /\ new.back = s.back
  BY <1>1 DEF StateSet, SeenSet
<1> HIDE DEF new
<1>3. Stored = IF new = journal THEN journal ELSE [new EXCEPT !.revision = @ + 1]
  BY DEF Stored, new
<1>4. CASE new = journal
  BY <1>1, <1>2, <1>3, <1>4 DEF StateSet
<1>5. CASE new # journal
  <2>1. Stored = [new EXCEPT !.revision = new.revision + 1] /\ new.revision + 1 \in Nat
    BY <1>2, <1>3, <1>5 DEF StateSet
  <2>2. /\ Stored \in StateSet /\ Stored.revision = journal.revision + 1
        /\ Stored.inclusion = s.tree /\ Stored.tip = s.tip /\ Stored.back = s.back
    BY <1>2, <2>1 DEF StateSet
  <2>3. Stored.revision >= journal.revision
    BY <1>1, <2>2 DEF StateSet
  <2> QED
    BY <1>1, <2>2, <2>3
<1> QED
  BY <1>4, <1>5

LEMMA StoreStep ==
    ASSUME IInv, Store
    PROVE  IInv'
<1> DEFINE news == Stored.revision # producer.revision /\ stream = "open"
           full == news /\ Overflow
<1>1. /\ producer.at = "store" /\ journal' = Stored
      /\ buffer' = IF full THEN <<>> ELSE IF news THEN Append(buffer, Stored) ELSE buffer
      /\ stream' = IF full THEN "error"
                   ELSE IF stream = "open" /\ Stored.phase = "abandoned" THEN "end"
                   ELSE stream
      /\ producer' = IF full \/ Stored.phase = "abandoned" THEN Off
                     ELSE [Off EXCEPT !.at = "delay", !.revision = Stored.revision]
      /\ UNCHANGED <<source, reader, mode, last, outcome>>
  BY DEF Store
<1>2. PICK j \in StateSet :
         /\ j = Stored /\ j.revision >= journal.revision /\ Fits(j.inclusion, j.tip, j.back)
  BY <1>1, StoredFits
<1>3. /\ j.revision \in Nat /\ journal.revision \in Nat /\ producer.revision \in Nat
      /\ last.revision \in Nat /\ buffer \in Seq(StateSet) /\ Len(buffer) \in Nat
      /\ \A i \in 1..Len(buffer) : buffer[i].revision \in Nat
  <2>1. \A i \in 1..Len(buffer) : buffer[i].revision \in Nat
    BY Buffered DEF IInv
  <2> QED
    BY <1>2, <2>1 DEF IInv, Types, StateSet, ProducerSet
<1>4. /\ producer' \in ProducerSet /\ producer'.at \in {"off", "delay"}
      /\ producer'.at # "off" => producer'.revision = j.revision
      /\ producer'.revision \in {0, j.revision}
  BY <1>1, <1>2, <1>3, Records DEF Off, ProducerSet
<1>5. \/ buffer' = <<>> \/ buffer' = buffer
      \/ /\ buffer' = Append(buffer, j) /\ stream = "open"
         /\ j.revision # producer.revision /\ Len(buffer) < Capacity
  BY <1>1, <1>2, <1>3, BoundsAssumption DEF Overflow
<1>6. Types'
  BY <1>1, <1>2, <1>3, <1>4, <1>5 DEF IInv, Types
<1>7. InProgress'
  BY <1>4 DEF InProgress
<1>8. Ends'
  <2>1. reader \notin {"none", "first"}
    BY <1>1 DEF IInv, Ends
  <2> QED
    BY <1>1, <2>1 DEF IInv, Ends, Confirmed, Depth
<1>9. stream' \in {"error", "close"} => buffer' = <<>>
  BY <1>1 DEF IInv, Order
<1>10. Order'
  <2>1. /\ producer'.revision <= j.revision /\ last.revision <= j.revision /\ j.revision > 0
        /\ journal.revision <= j.revision
    BY <1>2, <1>3, <1>4 DEF IInv, Order
  <2>2. CASE buffer' = <<>>
    BY <1>1, <1>2, <2>1, <2>2, BoundsAssumption DEF Order
  <2>3. CASE buffer' = buffer
    <3>1. \A i \in 1..Len(buffer) : buffer[i].revision <= j.revision
      BY <1>3, <2>1 DEF IInv, Order
    <3> QED
      BY <1>1, <1>2, <1>3, <1>4, <1>9, <2>1, <2>3, <3>1 DEF IInv, Order
  <2>4. CASE buffer' = Append(buffer, j) /\ j.revision # producer.revision /\ Len(buffer) < Capacity
             /\ stream = "open"
    <3>1. /\ Len(buffer') = Len(buffer) + 1
          /\ buffer'[Len(buffer) + 1] = j
          /\ \A i \in 1..Len(buffer) : buffer'[i] = buffer[i]
      BY <1>3, <2>4
    <3>2. producer.revision < j.revision
      BY <1>3, <2>1, <2>4 DEF IInv, Order
    <3>3. \A i \in 1..Len(buffer) : buffer[i].revision < j.revision
      BY <1>1, <1>3, <3>2 DEF IInv, Order
    <3>4. Len(buffer') <= Capacity
      BY <1>3, <2>4, <3>1, BoundsAssumption
    <3>5. ASSUME NEW i \in 1..Len(buffer')
          PROVE  /\ buffer'[i].revision > 0
                 /\ mode = "events" => last.revision <= buffer'[i].revision
                 /\ buffer'[i].revision <= j.revision
                 /\ \A k \in 1..Len(buffer') : i < k => buffer'[i].revision < buffer'[k].revision
      <4>1. CASE i = Len(buffer) + 1
        BY <1>3, <2>1, <3>1, <4>1
      <4>2. CASE i \in 1..Len(buffer)
        <5>1. /\ buffer'[i] = buffer[i] /\ buffer[i].revision < j.revision
              /\ buffer[i].revision > 0
              /\ mode = "events" => last.revision <= buffer[i].revision
          BY <3>1, <3>3, <4>2 DEF IInv, Order
        <5>2. ASSUME NEW k \in 1..Len(buffer'), i < k
              PROVE  buffer[i].revision < buffer'[k].revision
          <6>1. CASE k \in 1..Len(buffer)
            BY <3>1, <4>2, <5>2, <6>1 DEF IInv, Order
          <6>2. CASE k = Len(buffer) + 1
            BY <3>1, <5>1, <6>2
          <6> QED
            BY <1>3, <3>1, <6>1, <6>2
        <5>3. buffer[i].revision <= j.revision
          BY <1>3, <4>2, <5>1
        <5> QED
          BY <5>1, <5>2, <5>3
      <4> QED
        BY <1>3, <3>1, <4>1, <4>2
    <3> QED
      BY <1>1, <1>2, <1>4, <1>9, <2>1, <3>4, <3>5 DEF Order
  <2> QED
    BY <1>5, <2>2, <2>3, <2>4
<1> QED
  BY <1>1, <1>2, <1>6, <1>7, <1>8, <1>10 DEF IInv

-----------------------------------------------------------------------------
(* The reader *)

\* wait() settles, or a reader leaves: nothing is buffered any more.
LEMMA Settles ==
    ASSUME IInv, NEW how \in {"none", "failed", "aborted", "timeout"}, Settle(how),
           last' = last, UNCHANGED <<source, journal, producer, mode>>
    PROVE  IInv'
<1>1. Close("close") /\ reader' = "leaving" /\ outcome' = how
  BY DEF Settle
<1> QED
  BY <1>1, LoopEnds

\* events() is called, or wait() has read the payment once: the loop begins.
LEMMA LoopBegins ==
    ASSUME IInv, reader \in {"none", "first"}, reader' \in {"first", "pending"},
           reader' = "pending" => producer' = [Off EXCEPT !.at = "read"],
           reader' = "first" => producer' = producer,
           last' \in {last, journal},
           UNCHANGED <<source, journal, buffer, stream, mode, outcome>>
    PROVE  IInv'
<1>1. buffer = <<>> /\ producer.at = "off" /\ outcome = "none"
  BY DEF IInv, Ends
<1>2. /\ producer' \in ProducerSet /\ producer'.at \in {"off", "read"}
      /\ producer'.revision \in {0, producer.revision}
      /\ reader' = "first" => producer'.at = "off"
  <2>1. [Off EXCEPT !.at = "read"] \in ProducerSet
    BY Records DEF Off, ProducerSet
  <2> QED
    BY <1>1, <2>1 DEF IInv, Types, Off
<1>3. Types'
  BY <1>2 DEF IInv, Types
<1>4. InProgress'
  BY <1>2 DEF InProgress
<1>5. Order'
  <2>1. journal.revision \in Nat
    BY DEF IInv, Types, StateSet
  <2> QED
    BY <1>1, <1>2, <2>1 DEF IInv, Order
<1>6. Ends'
  BY <1>1, <1>2 DEF Ends
<1> QED
  BY <1>3, <1>4, <1>5, <1>6 DEF IInv, Fits, Has

LEMMA FirstStep ==
    ASSUME IInv, Begin \/ First
    PROVE  IInv'
<1>1. CASE Begin
  <2>1. mode \in {"events", "wait"}
    BY DEF IInv, Types
  <2> QED
    BY <1>1, <2>1, LoopBegins DEF Begin
<1>2. CASE First
  <2>1. /\ reader = "first" /\ last' \in {last, journal}
        /\ UNCHANGED <<source, moves, journal, foreign, mode>>
    BY <1>2 DEF First
  <2>2. CASE ~(cut # {} \/ journal.phase = "abandoned")
    BY <1>2, <2>1, <2>2, LoopBegins DEF First
  <2>3. CASE cut # {} \/ journal.phase = "abandoned"
    <3>1. Settle("failed") /\ producer' = producer
      BY <1>2, <2>3 DEF First
    <3>2. buffer' = <<>> /\ reader' = "leaving" /\ outcome' = "failed"
          /\ stream' \in {"open", "end", "error", "close"}
      BY <3>1 DEF Settle, Close, IInv, Types
    <3>3. Types' /\ InProgress' /\ Ends'
      BY <2>1, <3>1, <3>2 DEF IInv, Types, InProgress, Ends, Fits, Has
    <3>4. journal.revision \in Nat
      BY DEF IInv, Types, StateSet
    <3>5. Order'
      BY <2>1, <3>1, <3>2, <3>4, BoundsAssumption DEF IInv, Order
    <3> QED
      BY <2>1, <3>3, <3>5 DEF IInv, Fits, Has
  <2> QED
    BY <2>2, <2>3
<1> QED
  BY <1>1, <1>2

\* next() takes the oldest state, which is behind all that remain.
LEMMA DeliverStep ==
    ASSUME IInv, Deliver
    PROVE  IInv'
<1> DEFINE n == Len(buffer)
<1>1. /\ reader = "pending" /\ buffer # <<>> /\ last' = Head(buffer)
      /\ UNCHANGED <<source, journal, producer, mode>>
  BY DEF Deliver
<1>2. /\ buffer \in Seq(StateSet) /\ n \in Nat /\ n > 0
      /\ Head(buffer) = buffer[1] /\ Tail(buffer) \in Seq(StateSet)
      /\ Len(Tail(buffer)) = n - 1
      /\ \A i \in 1..(n - 1) : Tail(buffer)[i] = buffer[i + 1]
  <2>1. buffer \in Seq(StateSet)
    BY DEF IInv, Types
  <2> QED
    BY <1>1, <2>1
<1>3. /\ last' \in StateSet /\ last'.revision <= journal.revision
      /\ 1 \in 1..n
  <2>1. 1 \in 1..n
    BY <1>2
  <2> QED
    BY <1>1, <1>2, <2>1, Buffered DEF IInv, Order
<1>4. /\ reader' \in {"idle", "pending", "leaving"} /\ buffer' \in {<<>>, Tail(buffer)}
      /\ stream' \in {stream, "close"}
      /\ stream' # "open" /\ buffer' # <<>> => stream' = stream
      /\ reader' # "leaving" => buffer' = Tail(buffer) /\ UNCHANGED <<stream, outcome>>
      /\ reader' = "leaving" => /\ buffer' = <<>> /\ outcome' \in {"confirmed", "failed"}
                                /\ outcome' = "confirmed" => Confirmed(last')
  <2>1. CASE mode = "wait" /\ (Confirmed(last') \/ last'.phase = "dead")
    <3>1. Settle(IF Confirmed(last') THEN "confirmed" ELSE "failed")
      BY <2>1 DEF Deliver
    <3>2. /\ reader' = "leaving" /\ buffer' = <<>> /\ stream' \in {stream, "close"}
          /\ outcome' = IF Confirmed(last') THEN "confirmed" ELSE "failed"
      BY <3>1 DEF Settle, Close
    <3> QED
      BY <3>2
  <2>2. CASE ~(mode = "wait" /\ (Confirmed(last') \/ last'.phase = "dead"))
    <3>1. /\ reader' = IF mode = "wait" THEN "pending" ELSE "idle"
          /\ buffer' = Tail(buffer) /\ UNCHANGED <<stream, cut, outcome>>
      BY <2>2 DEF Deliver
    <3> QED
      BY <3>1
  <2> QED
    BY <2>1, <2>2
<1>5. stream \notin {"error", "close"}
  BY <1>1 DEF IInv, Order
<1>6. Types'
  <2>1. buffer' \in Seq(StateSet)
    <3>1. <<>> \in Seq(StateSet)
      OBVIOUS
    <3>2. Tail(buffer) \in Seq(StateSet) /\ (buffer' = <<>> \/ buffer' = Tail(buffer))
      BY <1>2, <1>4
    <3>3. PICK t : t = Tail(buffer) /\ t \in Seq(StateSet)
      BY <3>2
    <3> QED
      BY <3>1, <3>2, <3>3
  <2>2. reader' \in {"idle", "pending", "leaving"} /\ stream' \in {"open", "end", "error", "close"}
    BY <1>4 DEF IInv, Types
  <2>3. outcome' \in {"none", "confirmed", "failed", "aborted", "timeout"}
    BY <1>4 DEF IInv, Types
  <2> QED
    BY <1>1, <1>3, <2>1, <2>2, <2>3 DEF IInv, Types
<1>7. InProgress'
  BY <1>1 DEF IInv, InProgress, Fits, Has
<1>8. Ends'
  BY <1>1, <1>4 DEF IInv, Ends
<1>9. Order'
  <2>1. CASE buffer' = <<>>
    BY <1>1, <1>3, <2>1, BoundsAssumption DEF IInv, Order
  <2>2. CASE buffer' = Tail(buffer) /\ buffer' # <<>>
    <3>1. stream' \notin {"error", "close"}
      BY <1>4, <1>5, <2>2
    <3>2. Len(buffer') <= Capacity
      BY <1>2, <2>2, BoundsAssumption DEF IInv, Order
    <3>3. ASSUME NEW i \in 1..Len(buffer')
          PROVE  /\ buffer'[i].revision > 0
                 /\ last'.revision <= buffer'[i].revision
                 /\ buffer'[i].revision <= journal.revision
                 /\ producer.at # "off" => buffer'[i].revision <= producer.revision
                 /\ \A k \in 1..Len(buffer') : i < k => buffer'[i].revision < buffer'[k].revision
      <4>1. i + 1 \in 1..n /\ 1 < i + 1 /\ buffer'[i] = buffer[i + 1] /\ i \in Nat
        BY <1>2, <2>2
      <4>2. /\ buffer[i + 1].revision > 0 /\ buffer[1].revision < buffer[i + 1].revision
            /\ buffer[i + 1].revision <= journal.revision
            /\ producer.at # "off" => buffer[i + 1].revision <= producer.revision
        BY <1>3, <4>1 DEF IInv, Order
      <4>3. buffer[1].revision \in Nat /\ buffer[i + 1].revision \in Nat
        BY <1>3, <4>1, Buffered DEF IInv
      <4>4. ASSUME NEW k \in 1..Len(buffer'), i < k
            PROVE  buffer'[i].revision < buffer'[k].revision
        <5>1. k + 1 \in 1..n /\ i + 1 < k + 1 /\ buffer'[k] = buffer[k + 1]
          BY <1>2, <2>2, <4>1, <4>4
        <5> QED
          BY <4>1, <5>1 DEF IInv, Order
      <4>5. last'.revision <= buffer[i + 1].revision
        BY <1>1, <1>2, <4>2, <4>3
      <4> QED
        BY <4>1, <4>2, <4>4, <4>5
    <3> QED
      BY <1>1, <1>3, <3>1, <3>2, <3>3 DEF IInv, Order
  <2> QED
    BY <1>4, <2>1, <2>2
<1> QED
  BY <1>1, <1>6, <1>7, <1>8, <1>9 DEF IInv, Fits, Has

LEMMA ReaderStep ==
    ASSUME IInv, Ended \/ WaitCut \/ ReadOn \/ Leave \/ Left
    PROVE  IInv'
<1>1. CASE Ended \/ WaitCut
  <2>1. Reason \in {"aborted", "timeout", "failed"}
    BY DEF Reason
  <2> QED
    BY <1>1, <2>1, Settles DEF Ended, WaitCut
<1>2. CASE Leave
  BY <1>2, Settles DEF Leave
<1>3. CASE ReadOn \/ Left
  <2>1. /\ UNCHANGED <<source, journal, producer, buffer, stream, mode, last, outcome>>
        /\ reader \notin {"none", "first"} /\ reader' \in {"pending", "gone"}
        /\ reader \in {"leaving", "gone"} => reader' = "gone"
    BY <1>3 DEF ReadOn, Left
  <2>2. Types' /\ InProgress' /\ Order'
    BY <2>1 DEF IInv, Types, InProgress, Order, Fits, Has
  <2>3. Ends'
    BY <2>1 DEF IInv, Ends, Confirmed, Depth
  <2> QED
    BY <2>1, <2>2, <2>3 DEF IInv, Fits, Has
<1> QED
  BY <1>1, <1>2, <1>3

-----------------------------------------------------------------------------
(* The theorems *)

LEMMA Initially == Init => IInv
<1> SUFFICES ASSUME Init PROVE IInv
  OBVIOUS
<1>1. Types
  BY Records DEF Init, Types
<1>2. InProgress /\ Ends
  BY DEF Init, InProgress, Ends, Off
<1>3. Order
  BY BoundsAssumption DEF Init, Order, Off, Unobserved
<1>4. Fits(journal.inclusion, journal.tip, journal.back)
  BY DEF Init, Fits, Unobserved
<1> QED
  BY <1>1, <1>2, <1>3, <1>4 DEF IInv

\* What touches nothing that the invariant is about.
LEMMA Elsewhere ==
    ASSUME IInv, UNCHANGED <<source, journal, producer, buffer, stream, reader, mode, last, outcome>>
    PROVE  IInv'
<1>1. Types' /\ InProgress' /\ Order'
  BY DEF IInv, Types, InProgress, Order, Fits, Has
<1>2. Ends'
  BY DEF IInv, Ends, Confirmed, Depth
<1> QED
  BY <1>1, <1>2 DEF IInv, Fits, Has

LEMMA NextStep ==
    ASSUME IInv, [Next]_vars
    PROVE  IInv'
<1>1. CASE UNCHANGED vars
  BY <1>1, Elsewhere DEF vars
<1>2. CASE \E who \in {"timer", "caller", "wallet"} : Cut(who)
  BY <1>2, Elsewhere DEF Cut
<1>3. CASE Rest
  BY <1>3, Elsewhere DEF Rest, vars
<1> QED
  BY <1>1, <1>2, <1>3, SourceStep, ForeignStep, ReadsStep, PauseStep, StopsStep, StoreStep,
     FirstStep, DeliverStep, ReaderStep DEF Next, Answers, Loop, Reader

LEMMA Invariance == Spec => []IInv
BY Initially, NextStep, PTL DEF Spec

\* What the journal holds of an inclusion was true of one chain, whichever chain the source
\* is on at each of its reads (payment-source.ts: observeOnce), unless the source left the
\* tip in between and was back for the last read.
THEOREM ObservationsAreCoherent == Spec => []ObservationCoherent
<1>1. IInv => ObservationCoherent
  <2> SUFFICES ASSUME IInv, journal.inclusion # None
               PROVE  /\ Depth(journal) >= 1
                      /\ journal.back \/ Has(journal.tip, journal.inclusion)
    BY DEF ObservationCoherent
  <2>1. journal.inclusion \in Hash /\ journal.tip \in Hash
    BY DEF IInv, Types, StateSet
  <2>2. Len(journal.inclusion) \in Nat /\ Len(journal.tip) \in Nat
    BY <2>1 DEF Hash
  <2> QED
    BY <2>2 DEF IInv, Fits, Depth
<1> QED
  BY <1>1, Invariance, PTL

\* A reader gets states of increasing revisions, a slow one is ended, and wait() is confirmed
\* by such a state only, for any capacity (payments.ts: events, wait).
THEOREM StatesAreInOrder == Spec => []StatesInOrder
<1>1. IInv => StatesInOrder
  <2> SUFFICES ASSUME IInv PROVE StatesInOrder
    OBVIOUS
  <2>1. ASSUME NEW i \in 1..Len(buffer)
        PROVE  buffer[i].revision > IF i = 1
                                      THEN (IF mode = "events" THEN last.revision - 1 ELSE 0)
                                      ELSE buffer[i - 1].revision
    <3>1. /\ buffer[i].revision \in Nat /\ last.revision \in Nat /\ buffer[i].revision > 0
          /\ mode = "events" => last.revision <= buffer[i].revision
      BY Buffered DEF IInv, Types, StateSet, Order
    <3>2. CASE i = 1
      BY <3>1, <3>2
    <3>3. CASE i # 1
      <4>1. i - 1 \in 1..Len(buffer) /\ i - 1 < i
        BY <3>3
      <4>2. buffer[i - 1].revision < buffer[i].revision
        BY <4>1 DEF IInv, Order
      <4>3. buffer[i - 1].revision \in Nat
        BY <4>1, Buffered DEF IInv
      <4> QED
        BY <3>1, <3>3, <4>2, <4>3
    <3> QED
      BY <3>2, <3>3
  <2> QED
    BY <2>1 DEF IInv, Order, Ends, StatesInOrder
<1> QED
  BY <1>1, Invariance, PTL
=============================================================================
