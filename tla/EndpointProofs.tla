--------------------------- MODULE EndpointProofs ---------------------------
(***************************************************************************)
(* Proofs about the transports and the clients (MCEndpoints).              *)
(*                                                                         *)
(* For each part an invariant, named for it (PubOK, LightOK, ArtOK,        *)
(* ProveOK, WebOK, HttpOK, RpcOK), that its steps keep and from which its  *)
(* properties follow; then that each of its steps is one that an exchange  *)
(* may take (Takes).  EndpointsOK is all of them.  Only the part that      *)
(* makes the exchange touches the caller, and the others have not begun,   *)
(* so a step of one part keeps the invariants of the others (Apart).       *)
(*                                                                         *)
(* The decoder of gRPC-web is proved about by least counterexample         *)
(* (LeastMember): induction over the frames of a body without an induction *)
(* theorem that takes an operator.                                         *)
(***************************************************************************)
EXTENDS MCEndpoints, TLAPS, FiniteSetTheorems, WellFoundedInduction

-----------------------------------------------------------------------------
(* The public client: what it tells is true of one chain (PublicReads) *)

\* What a caller may be told.
Outcome == {"none", "value", "acknowledged", "rejected", "unknown", "error"}

\* A block, or none.
Hash == STRING \cup {"none"}

\* The records of a client, and where its calls may be.
TipSet == [height : Nat, block : Hash]
FoundSet ==
    [state : {"none", "mined", "unknown", "notSeen", "mempool", "offMainChain"}, height : Nat,
     block : Hash]
PubPlace ==
    {"idle", "ready", "tip", "utxos", "transaction", "block", "tree", "header", "roots", "root",
     "again", "poll", "over"}
PubSet ==
    [at : PubPlace, before : TipSet \cup {None}, found : FoundSet, pinned : Hash, header : Hash,
     roots : Seq(TipSet), listed : Nat, timed : BOOLEAN, late : BOOLEAN, sent : Nat,
     answer : FoundSet, outcome : Outcome]

\* What is said of a transaction is true of a chain.
TrueOf(found, chain) ==
    /\ found.state = "mined" => found.height \in DOMAIN chain /\ chain[found.height] = found.block
    /\ found.state = "notSeen" => Inclusions(chain) = {}

\* The calls that read one block, and those that read the tip twice.
Single == {"public.block", "public.tree", "public.transaction"}
Twice == {"public.status", "public.wait", "public.roots"}

Observing == {"public.status", "public.wait"}

\* Which calls make which reads.
Belongs(p) ==
    /\ p.at = "tip" => exchange \in Twice \cup {"public.tip"}
    /\ p.at = "utxos" => exchange = "public.utxos"
    /\ p.at = "transaction" => exchange \in Observing \cup {"public.transaction"}
    /\ p.at = "block" => exchange \in Observing \cup {"public.transaction", "public.block"}
    /\ p.at = "tree" => exchange = "public.tree"
    /\ p.at = "header" => exchange \in Observing \cup Single
    /\ p.at \in {"roots", "root"} => exchange = "public.roots"
    /\ p.at = "again" => exchange \in Twice
    /\ p.at = "poll" => exchange = "public.wait"
    /\ p.at # "idle" => exchange \in PublicExchanges

\* An answer that has been given.
AnswerTrue(p) ==
    /\ exchange \in Single /\ p.answer.state = "mined" => p.header = p.answer.block
    /\ \A i \in DOMAIN Chains :
          Tip(Chains[i]) = p.before /\ p.outcome = "value" =>
            /\ TrueOf(p.answer, Chains[i])
            /\ exchange = "public.wait" =>
                  p.answer.state = "mined" /\ Len(Chains[i]) - p.answer.height + 1 >= Confirmations
            /\ \A k \in DOMAIN p.roots : Chains[i][p.roots[k].height] = p.roots[k].block

\* The reads of an observation are true of the chain the node is on, as long as that is the
\* one whose tip was read before them; the chains to come have other tips.
PubOK(p, b) ==
    /\ p \in PubSet /\ b \in DOMAIN Chains
    /\ p.at # "over" => p.answer = None /\ p.outcome = "none"
    /\ p.at \in {"idle", "ready"} => p.sent = 0
    /\ p.at \notin {"idle", "ready", "over"} => p.sent = 1
    /\ p.at = "over" => p.outcome = "error" \/ (p.outcome = "value" /\ p.sent = 1)
    /\ Belongs(p)
    /\ exchange \notin Twice => p.before = None
    /\ exchange # "public.roots" \/ p.at = "roots" => p.roots = <<>>
    /\ \A i \in DOMAIN Chains : i > b => p.before # Tip(Chains[i])
    /\ exchange \in Single /\ p.at = "header" /\ p.found.state = "mined" =>
          p.pinned = p.found.block
    /\ exchange \in Observing /\ p.before = Tip(Chains[b])
          /\ p.at \in {"block", "header", "again"} => TrueOf(p.found, Chains[b])
    /\ p.at = "block" /\ exchange # "public.block" =>
          p.found.state = "unknown" /\ p.found.height > 0
    /\ exchange = "public.roots" /\ p.before = Tip(Chains[b]) /\ p.at \in {"root", "again"} =>
          \A k \in DOMAIN p.roots : Chains[b][p.roots[k].height] = p.roots[k].block
    /\ AnswerTrue(p)

\* A chain has a block, and its tip is at its length (Chains).
LEMMA ChainType ==
    ASSUME NEW b \in DOMAIN Chains
    PROVE  /\ Chains[b] \in Seq(STRING) /\ Len(Chains[b]) \in Nat \ {0}
           /\ DOMAIN Chains[b] = 1..Len(Chains[b])
           /\ Tip(Chains[b]) \in TipSet /\ Tip(Chains[b]).height = Len(Chains[b])
           /\ Tip(Chains[b]) # None
           /\ b \in Nat
<1>1. Chains[b] \in Seq(STRING) /\ Chains[b] # <<>> /\ b \in Nat
  BY ChainsAssumption
<1>2. Len(Chains[b]) \in Nat \ {0} /\ DOMAIN Chains[b] = 1..Len(Chains[b])
  BY <1>1
<1>3. Last(Chains[b]) \in STRING
  BY <1>1, <1>2 DEF Last
<1> QED
  BY <1>1, <1>2, <1>3 DEF Tip, TipSet, None, Hash

\* The chains have different tips.
LEMMA TipsDiffer ==
    ASSUME NEW i \in DOMAIN Chains, NEW j \in DOMAIN Chains, Tip(Chains[i]) = Tip(Chains[j])
    PROVE  i = j
BY ChainsAssumption DEF Tip

\* Whatever a call has read, it may end in an error (PubOver).
LEMMA PubFails ==
    ASSUME NEW p, NEW b, PubOK(p, b), exchange \in PublicExchanges
    PROVE  PubOK(PubOver(p, "error"), b)
<1> DEFINE q == PubOver(p, "error")
<1>0. p \in PubSet
  BY DEF PubOK
<1>1. /\ q \in PubSet /\ q.at = "over" /\ q.outcome = "error"
      /\ q.before = p.before /\ q.roots = p.roots /\ q.answer = p.answer /\ q.header = p.header
      /\ q.sent = p.sent
  BY <1>0 DEF PubSet, PubPlace, PubOver, Outcome
<1> HIDE DEF q
<1>2. AnswerTrue(q)
  BY <1>1 DEF PubOK, AnswerTrue
<1> QED
  BY <1>1, <1>2 DEF PubOK, Belongs, q

\* The node moves to a chain that comes later: what was read stays true of the one it was
\* read of (Reorganize).
LEMMA MoveKeeps ==
    ASSUME NEW p, NEW b, NEW c, PubOK(p, b), c \in DOMAIN Chains, b < c
    PROVE  PubOK(p, c)
<1>1. p.before # Tip(Chains[c])
  BY DEF PubOK
<1>2. \A i \in DOMAIN Chains : i > c => p.before # Tip(Chains[i])
  BY ChainType DEF PubOK
<1> QED
  BY <1>1, <1>2 DEF PubOK

\* A read makes of the call what its caller is told, unless the signal is aborted.
LEMMA ReadKeeps ==
    ASSUME NEW at, NEW then, PubOK(pub, best), PubRead(at, then), at # "idle" \/ Public,
           PubOK(then, best)
    PROVE  PubOK(pub', best)
<1>1. exchange \in PublicExchanges
  BY DEF PubOK, Belongs, PubRead, Public
<1> QED
  BY <1>1, PubFails DEF PubRead

\* The call is admitted (PubOpen).
LEMMA OpensKeeps == ASSUME PubOK(pub, best), PubOpen PROVE PubOK(pub', best)
<1> DEFINE then == [pub EXCEPT !.at = "ready"]
<1>1. pub \in PubSet /\ pub.at = "idle" /\ exchange \in PublicExchanges
  BY DEF PubOpen, PubRead, PubOK, Belongs, Public
<1>2. /\ then \in PubSet /\ then.at = "ready" /\ then.answer = pub.answer
      /\ then.outcome = pub.outcome /\ then.sent = pub.sent /\ then.before = pub.before
      /\ then.roots = pub.roots /\ then.header = pub.header
  BY <1>1 DEF PubSet, PubPlace
<1> HIDE DEF then
<1>3. PubOK(then, best)
  BY <1>1, <1>2 DEF PubOK, Belongs, AnswerTrue
<1> QED
  BY <1>3, ReadKeeps DEF PubOpen, then

\* The genesis block is verified, and the first read is made (PubReady).
LEMMA ReadyKeeps == ASSUME PubOK(pub, best), PubReady PROVE PubOK(pub', best)
<1> DEFINE at == CASE exchange = "public.block" -> "block"
                   [] exchange = "public.tree" -> "tree"
                   [] exchange = "public.utxos" -> "utxos"
                   [] exchange = "public.transaction" -> "transaction"
                   [] OTHER -> "tip"
           then == [pub EXCEPT !.sent = 1, !.at = at]
<1>1. pub \in PubSet /\ pub.at = "ready" /\ exchange \in PublicExchanges
  BY DEF PubReady, PubRead, PubOK, Belongs, Public
<1>2. at \in {"block", "tree", "utxos", "transaction", "tip"}
      /\ (at = "block" => exchange = "public.block")
      /\ (at = "tree" => exchange = "public.tree") /\ (at = "utxos" => exchange = "public.utxos")
      /\ (at = "transaction" => exchange = "public.transaction")
      /\ (at = "tip" => exchange \in Twice \cup {"public.tip"})
  BY <1>1 DEF PublicExchanges, Twice
<1> HIDE DEF at
<1>3. /\ then \in PubSet /\ then.at = at /\ then.answer = pub.answer
      /\ then.outcome = pub.outcome /\ then.sent = 1 /\ then.before = pub.before
      /\ then.roots = pub.roots /\ then.header = pub.header
  BY <1>1, <1>2 DEF PubSet, PubPlace
<1> HIDE DEF then
<1>4. PubOK(then, best)
  BY <1>1, <1>2, <1>3 DEF PubOK, Belongs, AnswerTrue, Single, Observing
<1> QED
  BY <1>4, ReadKeeps DEF PubReady, then, at

\* A call that is told a value.
LEMMA ValueKeeps ==
    ASSUME NEW p, NEW b, PubOK(p, b), exchange \in PublicExchanges, p.sent = 1,
           exchange \notin Twice, NEW answer \in FoundSet, NEW header \in Hash,
           exchange \in Single /\ answer.state = "mined" => header = answer.block
    PROVE  PubOK([p EXCEPT !.at = "over", !.outcome = "value", !.answer = answer,
                           !.header = header], b)
<1> DEFINE q == [p EXCEPT !.at = "over", !.outcome = "value", !.answer = answer, !.header = header]
<1>1. p \in PubSet /\ p.before = None
  BY DEF PubOK
<1>2. /\ q \in PubSet /\ q.at = "over" /\ q.answer = answer /\ q.outcome = "value"
      /\ q.before = None /\ q.roots = p.roots /\ q.header = header /\ q.sent = p.sent
  BY <1>1 DEF PubSet, PubPlace, Outcome
<1> HIDE DEF q
<1>3. \A i \in DOMAIN Chains : Tip(Chains[i]) # None
  BY ChainType
<1>4. AnswerTrue(q)
  BY <1>2, <1>3 DEF AnswerTrue
<1> QED
  BY <1>2, <1>3, <1>4 DEF PubOK, Belongs, q, Twice

\* The tip is read: the observation is about that chain (FirstTip).
LEMMA FirstTipKeeps == ASSUME PubOK(pub, best), FirstTip PROVE PubOK(pub', best)
<1>1. pub \in PubSet /\ pub.at = "tip" /\ exchange \in PublicExchanges /\ best \in DOMAIN Chains
      /\ pub.answer = None /\ pub.outcome = "none" /\ pub.sent = 1
  BY DEF FirstTip, PubRead, PubOK, Belongs, Public
<1>2. CASE exchange = "public.tip"
  <2>1. pub.answer \in FoundSet /\ pub.header \in Hash /\ pub.answer.state # "mined"
    BY <1>1 DEF PubSet, None
  <2>2. [pub EXCEPT !.at = "over", !.outcome = "value", !.answer = pub.answer, !.header = pub.header]
          = PubOver(pub, "value")
    BY <1>1 DEF PubSet, PubOver
  <2>3. PubOK(PubOver(pub, "value"), best)
    <3>1. exchange \notin Twice /\ exchange \notin Single
      BY <1>2 DEF Twice, Single
    <3>2. PubOK([pub EXCEPT !.at = "over", !.outcome = "value", !.answer = pub.answer,
                            !.header = pub.header], best)
      BY <1>1, <2>1, <3>1, ValueKeeps
    <3> QED
      BY <2>2, <3>2
  <2> QED
    BY <1>2, <2>3, ReadKeeps DEF FirstTip
<1>3. CASE exchange # "public.tip"
  <2> DEFINE then == [pub EXCEPT !.before = Tip(Here), !.roots = <<>>,
                       !.at = IF exchange = "public.roots" THEN "roots" ELSE "transaction"]
  <2>1. Tip(Here) \in TipSet
    BY <1>1, ChainType DEF Here
  <2>2. /\ then \in PubSet /\ then.before = Tip(Here) /\ then.roots = <<>>
        /\ then.at = (IF exchange = "public.roots" THEN "roots" ELSE "transaction")
        /\ then.answer = pub.answer /\ then.outcome = pub.outcome /\ then.sent = 1
    <3> DEFINE tip == Tip(Here)
               at == IF exchange = "public.roots" THEN "roots" ELSE "transaction"
    <3>1. tip \in TipSet \cup {None} /\ <<>> \in Seq(TipSet) /\ at \in PubPlace
      BY <2>1 DEF PubPlace
    <3> HIDE DEF tip, at
    <3>2. [pub EXCEPT !.before = tip, !.roots = <<>>, !.at = at].before = tip
      BY <1>1 DEF PubSet
    <3>3. /\ [pub EXCEPT !.before = tip, !.roots = <<>>, !.at = at] \in PubSet
      BY <1>1, <3>1 DEF PubSet
    <3> QED
      BY <1>1, <3>1, <3>2, <3>3 DEF PubSet, tip, at
  <2>3. exchange \in Twice
    BY <1>1, <1>3 DEF PubOK, Belongs
  <2> HIDE DEF then
  <2>4. \A i \in DOMAIN Chains : i > best => Tip(Here) # Tip(Chains[i])
    BY <1>1, TipsDiffer, ChainType DEF Here
  <2>5. PubOK(then, best)
    BY <1>1, <2>2, <2>3, <2>4 DEF PubOK, Belongs, AnswerTrue, Twice, Observing, Single
  <2> QED
    BY <1>3, <2>5, ReadKeeps DEF FirstTip, then
<1> QED
  BY <1>2, <1>3

\* The outputs come with their tip (Utxos).
LEMMA UtxosKeeps == ASSUME PubOK(pub, best), Utxos PROVE PubOK(pub', best)
<1>1. pub \in PubSet /\ pub.sent = 1 /\ pub.at = "utxos" /\ exchange = "public.utxos" /\ pub.answer = None
  BY DEF Utxos, PubRead, PubOK, Belongs
<1>2. pub.answer \in FoundSet /\ pub.header \in Hash /\ exchange \in PublicExchanges
      /\ exchange \notin Twice /\ exchange \notin Single
  BY <1>1 DEF PubSet, PublicExchanges, Twice, Single
<1>3. [pub EXCEPT !.at = "over", !.outcome = "value", !.answer = pub.answer, !.header = pub.header]
        = PubOver(pub, "value")
  BY <1>1 DEF PubSet, PubOver
<1>4. PubOK([pub EXCEPT !.at = "over", !.outcome = "value", !.answer = pub.answer,
                        !.header = pub.header], best)
  BY <1>1, <1>2, ValueKeeps
<1> QED
  BY <1>1, <1>3, <1>4, ReadKeeps DEF Utxos

\* What the node says of the transaction is true of its chain.
LEMMA TransactionKeeps == ASSUME PubOK(pub, best), Transaction PROVE PubOK(pub', best)
<1>1. PICK state \in {"active", "notSeen", "mempool", "offMainChain"} :
        /\ Known(state)
        /\ LET height == CHOOSE h \in Inclusions(Here) : TRUE
               found == IF state = "active"
                        THEN [state |-> "unknown", height |-> height, block |-> Here[height]]
                        ELSE [None EXCEPT !.state = state]
           IN  PubRead("transaction",
                   CASE state = "active" -> [pub EXCEPT !.found = found, !.at = "block"]
                     [] state # "active" /\ exchange = "public.transaction" ->
                           [PubOver(pub, "value") EXCEPT !.answer = found]
                     [] OTHER -> [pub EXCEPT !.found = found, !.at = "again"])
  BY DEF Transaction
<1> DEFINE height == CHOOSE h \in Inclusions(Here) : TRUE
           found == IF state = "active"
                    THEN [state |-> "unknown", height |-> height, block |-> Here[height]]
                    ELSE [None EXCEPT !.state = state]
<1>2. /\ pub \in PubSet /\ pub.at = "transaction" /\ pub.sent = 1 /\ best \in DOMAIN Chains
      /\ exchange \in Observing \cup {"public.transaction"}
      /\ pub.answer = None /\ pub.outcome = "none"
  BY <1>1 DEF PubRead, PubOK, Belongs
<1>3. found \in FoundSet /\ TrueOf(found, Here) /\ found.state # "mined"
      /\ (state = "active" => found.state = "unknown" /\ found.height > 0)
  <2>1. CASE state = "active"
    <3>1. height \in DOMAIN Here /\ Here[height] \in STRING /\ height \in Nat \ {0}
      <4>1. Inclusions(Here) # {}
        BY <1>1, <2>1 DEF Known
      <4>2. height \in Inclusions(Here)
        BY <4>1
      <4> HIDE DEF height
      <4> QED
        BY <1>2, <4>2, ChainType DEF Inclusions, Here
    <3> HIDE DEF height
    <3> QED
      BY <2>1, <3>1 DEF FoundSet, TrueOf, Hash
  <2>2. CASE state # "active"
    BY <1>1, <2>2 DEF Known, FoundSet, None, TrueOf, Hash
  <2> QED
    BY <2>1, <2>2
<1> HIDE DEF height, found
<1>4. CASE state # "active" /\ exchange = "public.transaction"
  <2>1. exchange \notin Twice /\ pub.header \in Hash /\ exchange \in PublicExchanges
    BY <1>2, <1>4 DEF Twice, PubSet, PublicExchanges
  <2>2. PubOK([pub EXCEPT !.at = "over", !.outcome = "value", !.answer = found,
                          !.header = pub.header], best)
    BY <1>2, <1>3, <2>1, ValueKeeps
  <2>3. [pub EXCEPT !.at = "over", !.outcome = "value", !.answer = found, !.header = pub.header]
          = [PubOver(pub, "value") EXCEPT !.answer = found]
    BY <1>2 DEF PubSet, PubOver
  <2>4. PubRead("transaction", [PubOver(pub, "value") EXCEPT !.answer = found])
    BY <1>1, <1>4 DEF found, height
  <2> QED
    BY <2>2, <2>3, <2>4, ReadKeeps
<1>5. CASE state = "active" \/ exchange # "public.transaction"
  <2> DEFINE at == IF state = "active" THEN "block" ELSE "again"
             then == [pub EXCEPT !.found = found, !.at = at]
  <2>1. /\ then \in PubSet /\ then.at = at /\ then.found = found
        /\ then.answer = None /\ then.outcome = "none" /\ then.sent = 1 /\ then.before = pub.before
        /\ then.roots = pub.roots /\ then.header = pub.header
    BY <1>2, <1>3 DEF PubSet, PubPlace
  <2>2. PubRead("transaction", then)
    BY <1>1, <1>5 DEF found, height
  <2>3. exchange \in PublicExchanges /\ exchange # "public.roots" /\ exchange # "public.block"
    BY <1>2 DEF PublicExchanges, Observing
  <2> HIDE DEF then
  <2>4. PubOK(then, best)
    <3>1. AnswerTrue(then)
      BY <2>1 DEF AnswerTrue, None
    <3>2. Belongs(then)
      BY <1>2, <1>5, <2>1, <2>3 DEF Belongs, Twice, Observing
    <3> QED
      BY <1>2, <1>3, <1>5, <2>1, <2>3, <3>1, <3>2 DEF PubOK, Here
  <2> QED
    BY <2>2, <2>4, ReadKeeps
<1> QED
  BY <1>4, <1>5

\* A block or a tree state that was read: its header comes next.
LEMMA BlockKeeps == ASSUME PubOK(pub, best), Block \/ Tree PROVE PubOK(pub', best)
<1>1. /\ pub \in PubSet /\ pub.at \in {"block", "tree"} /\ pub.sent = 1 /\ best \in DOMAIN Chains
      /\ pub.answer = None /\ pub.outcome = "none" /\ exchange \in PublicExchanges
      /\ exchange # "public.roots" /\ exchange \in Observing \cup Single
      /\ (pub.at = "tree" => exchange = "public.tree")
  BY DEF Block, Tree, PubRead, PubOK, Belongs, Observing, Single
<1>2. PubOK(PubOver(pub, "error"), best)
  BY <1>1, PubFails
<1>3. ASSUME NEW height \in DOMAIN Here, NEW found \in FoundSet,
             pub' = [pub EXCEPT !.at = "header", !.pinned = Here[height], !.found = found],
             \/ found = [state |-> "mined", height |-> height, block |-> Here[height]]
             \/ found.state = "unknown"
      PROVE  PubOK(pub', best)
  <2>1. Here[height] \in Hash
    BY <1>1, ChainType DEF Here, Hash
  <2>2. /\ pub' \in PubSet /\ pub'.at = "header" /\ pub'.found = found /\ pub'.pinned = Here[height]
        /\ pub'.answer = None /\ pub'.outcome = "none" /\ pub'.sent = 1
        /\ pub'.before = pub.before /\ pub'.roots = pub.roots /\ pub'.header = pub.header
    BY <1>1, <1>3, <2>1 DEF PubSet, PubPlace
  <2>3. TrueOf(found, Here) /\ (found.state = "mined" => Here[height] = found.block)
    BY <1>3 DEF TrueOf
  <2>4. AnswerTrue(pub') /\ Belongs(pub')
    BY <1>1, <2>2 DEF AnswerTrue, Belongs, None
  <2> QED
    BY <1>1, <2>2, <2>3, <2>4 DEF PubOK, Here
<1>4. CASE Tree
  <2>1. CASE cut \/ AskedHeight > Len(Here)
    BY <1>2, <1>4, <2>1 DEF Tree, PubRead
  <2>2. CASE ~cut /\ AskedHeight <= Len(Here)
    <3>1. AskedHeight \in DOMAIN Here
      BY <1>1, <2>2, ChainType, HeightsAssumption DEF Here
    <3> DEFINE found == [state |-> "mined", height |-> AskedHeight, block |-> Here[AskedHeight]]
    <3>2. found \in FoundSet
      BY <1>1, <3>1, ChainType, HeightsAssumption DEF Here, FoundSet, Hash
    <3>3. pub' = [pub EXCEPT !.at = "header", !.pinned = Here[AskedHeight], !.found = found]
      BY <1>1, <1>4, <2>2, ChainType, HeightsAssumption DEF Tree, PubRead, Here
    <3> QED
      BY <1>3, <3>1, <3>2, <3>3
  <2> QED
    BY <1>1, <2>1, <2>2, ChainType, HeightsAssumption DEF Here
<1>5. CASE Block
  <2> DEFINE status == exchange # "public.block"
             height == IF status THEN pub.found.height ELSE AskedHeight
  <2>1. height \in Nat /\ pub.at = "block"
    BY <1>1, <1>5, HeightsAssumption DEF PubSet, FoundSet, Block, PubRead
  <2>2. CASE cut \/ (status /\ height > Len(Here))
    <3>1. CASE cut
      BY <1>2, <1>5, <3>1 DEF Block, PubRead
    <3>2. CASE ~cut /\ status /\ height > Len(Here)
      <4>1. pub' = PubOver(pub, IF status THEN "error" ELSE "value")
        <5>1. exchange # "public.block" /\ pub.found.height > Len(Here)
              /\ ~(pub.found.height <= Len(Here))
          BY <1>1, <2>1, <3>2, ChainType DEF Here
        <5> QED
          BY <1>5, <3>2, <5>1 DEF Block, PubRead
      <4> QED
        BY <1>2, <3>2, <4>1
    <3> QED
      BY <2>2, <3>1, <3>2
  <2>3. CASE ~cut /\ ~status /\ height > Len(Here)
    <3>1. exchange \notin Twice /\ pub.answer \in FoundSet /\ pub.header \in Hash
          /\ pub.answer.state # "mined"
      BY <1>1, <2>3 DEF Twice, PubSet, None
    <3>2. PubOK([pub EXCEPT !.at = "over", !.outcome = "value", !.answer = pub.answer,
                            !.header = pub.header], best)
      BY <1>1, <3>1, ValueKeeps
    <3>3. [pub EXCEPT !.at = "over", !.outcome = "value", !.answer = pub.answer,
                      !.header = pub.header] = PubOver(pub, "value")
      BY <1>1 DEF PubSet, PubOver
    <3>4. pub' = PubOver(pub, "value")
      BY <1>5, <2>3 DEF Block, PubRead
    <3> QED
      BY <3>2, <3>3, <3>4
  <2>4. CASE ~cut /\ height <= Len(Here)
    <3>1. height \in DOMAIN Here
      <4>1. height > 0
        BY <1>1, <2>1, HeightsAssumption DEF PubOK
      <4> QED
        BY <1>1, <2>1, <2>4, <4>1, ChainType DEF Here
    <3> DEFINE mined == [state |-> "mined", height |-> height, block |-> Here[height]]
               found == IF status /\ Here[height] # pub.found.block THEN pub.found ELSE mined
    <3>2. mined \in FoundSet /\ pub.found \in FoundSet /\ (status => pub.found.state = "unknown")
      BY <1>1, <2>1, <3>1, ChainType DEF PubSet, PubOK, Here, FoundSet, Hash
    <3>3. pub' = [pub EXCEPT !.at = "header", !.pinned = Here[height], !.found = found]
      <4>1. CASE status /\ Here[height] # pub.found.block
        <5>1. pub' = [pub EXCEPT !.at = "header", !.pinned = Here[height]]
          BY <1>1, <1>5, <2>1, <2>4, <4>1, ChainType DEF Block, PubRead, Here
        <5> HIDE DEF height
        <5> QED
          BY <1>1, <4>1, <5>1 DEF PubSet
      <4>2. CASE ~(status /\ Here[height] # pub.found.block)
        <5>1. ~(height > Len(Here))
          BY <1>1, <2>1, <2>4, ChainType DEF Here
        <5> QED
          BY <1>5, <2>4, <4>2, <5>1 DEF Block, PubRead
      <4> QED
        BY <4>1, <4>2
    <3> QED
      BY <1>3, <3>1, <3>2, <3>3
  <2> QED
    BY <1>1, <2>1, <2>2, <2>3, <2>4, ChainType DEF Here
<1> QED
  BY <1>4, <1>5

\* The header is that of the block whose hash was pinned (Header).
LEMMA HeaderKeeps == ASSUME PubOK(pub, best), Header PROVE PubOK(pub', best)
<1>1. /\ pub \in PubSet /\ pub.at = "header" /\ pub.sent = 1 /\ best \in DOMAIN Chains
      /\ pub.answer = None /\ pub.outcome = "none" /\ exchange \in PublicExchanges
      /\ exchange \in Observing \cup Single
  BY DEF Header, PubRead, PubOK, Belongs, Observing, Single
<1>2. CASE exchange \in Single
  <2>1. pub.found \in FoundSet /\ pub.pinned \in Hash /\ exchange \notin Twice
        /\ (pub.found.state = "mined" => pub.pinned = pub.found.block)
    BY <1>1, <1>2 DEF PubSet, PubOK, Twice, Single
  <2>2. PubOK([pub EXCEPT !.at = "over", !.outcome = "value", !.answer = pub.found,
                          !.header = pub.pinned], best)
    BY <1>1, <2>1, ValueKeeps
  <2>3. [pub EXCEPT !.at = "over", !.outcome = "value", !.answer = pub.found,
                    !.header = pub.pinned]
          = [PubOver(pub, "value") EXCEPT !.answer = pub.found, !.header = Pinned]
    BY <1>1 DEF PubSet, PubOver, Pinned
  <2> QED
    BY <1>1, <1>2, <2>2, <2>3, ReadKeeps DEF Header, Single
<1>3. CASE exchange \in Observing
  <2> DEFINE then == [pub EXCEPT !.at = "again"]
  <2>1. /\ then \in PubSet /\ then.at = "again" /\ then.found = pub.found
        /\ then.answer = None /\ then.outcome = "none" /\ then.sent = 1 /\ then.before = pub.before
        /\ then.roots = pub.roots /\ then.header = pub.header
    BY <1>1 DEF PubSet, PubPlace
  <2>2. PubRead("header", then)
    BY <1>3 DEF Header, Observing
  <2> HIDE DEF then
  <2>3. AnswerTrue(then) /\ Belongs(then)
    BY <1>1, <1>3, <2>1 DEF AnswerTrue, Belongs, None, Observing, Twice
  <2>4. PubOK(then, best)
    BY <1>1, <1>3, <2>1, <2>3 DEF PubOK, Observing
  <2> QED
    BY <1>1, <2>2, <2>4, ReadKeeps
<1> QED
  BY <1>1, <1>2, <1>3

\* Subtree roots, and the headers of the blocks that complete them.
LEMMA RootsKeeps == ASSUME PubOK(pub, best), Roots \/ Root \/ RootsRead PROVE PubOK(pub', best)
<1>1. /\ pub \in PubSet /\ pub.at \in {"roots", "root"} /\ pub.sent = 1 /\ best \in DOMAIN Chains
      /\ pub.answer = None /\ pub.outcome = "none" /\ exchange = "public.roots"
      /\ exchange \in PublicExchanges /\ exchange \in Twice
  BY DEF Roots, Root, RootsRead, PubRead, PubOK, Belongs, PublicExchanges, Twice
<1>2. ASSUME NEW p \in PubSet, p.at \in {"root", "again"}, p.sent = 1, p.answer = None,
             p.outcome = "none", p.before = pub.before,
             p.before = Tip(Here) =>
               \A k \in DOMAIN p.roots : Here[p.roots[k].height] = p.roots[k].block
      PROVE  PubOK(p, best)
  <2>1. AnswerTrue(p) /\ Belongs(p)
    BY <1>1, <1>2 DEF AnswerTrue, Belongs, None
  <2> QED
    BY <1>1, <1>2, <2>1 DEF PubOK, Observing, Single, Here
<1>3. CASE Roots
  <2> DEFINE then == [pub EXCEPT !.listed = Len(Here), !.at = "root"]
  <2>1. then \in PubSet /\ then.at = "root" /\ then.sent = 1 /\ then.answer = None
        /\ then.outcome = "none" /\ then.before = pub.before /\ then.roots = pub.roots
    BY <1>1, ChainType DEF PubSet, PubPlace, Here
  <2>2. pub.roots = <<>>
    BY <1>3 DEF Roots, PubRead, PubOK
  <2> HIDE DEF then
  <2>3. PubOK(then, best)
    <3>1. DOMAIN then.roots = {}
      BY <2>1, <2>2
    <3> QED
      BY <1>2, <2>1, <3>1
  <2> QED
    BY <1>1, <1>3, <2>3, ReadKeeps DEF Roots, then
<1>4. CASE Root
  <2> DEFINE height == RootHeights[NextRoot]
             root == [height |-> height, block |-> Here[height]]
             then == [pub EXCEPT !.roots = Append(@, root)]
  <2>1. CASE cut \/ height > Len(Here) \/ ~InTip(root)
    <3>1. pub' = PubOver(pub, "error")
      BY <1>4, <2>1 DEF Root, PubRead
    <3> QED
      BY <1>1, <3>1, PubFails
  <2>2. CASE ~(cut \/ height > Len(Here) \/ ~InTip(root))
    <3>1. height \in Nat \ {0}
      BY <1>4, HeightsAssumption DEF Root, Listed
    <3>2. root \in TipSet
      BY <1>1, <2>2, <3>1, ChainType DEF Here, TipSet, Hash
    <3>3. pub' = then
      BY <1>4, <2>2 DEF Root, PubRead
    <3>4. Append(pub.roots, root) \in Seq(TipSet)
      BY <1>1, <3>2 DEF PubSet
    <3> HIDE DEF root
    <3>5. then \in PubSet /\ then.at = "root" /\ then.sent = 1 /\ then.answer = None
          /\ then.outcome = "none" /\ then.before = pub.before
          /\ then.roots = Append(pub.roots, root)
      BY <1>1, <1>4, <3>1, <3>4 DEF PubSet, PubPlace, Root, PubRead
    <3>6. ASSUME then.before = Tip(Here), NEW k \in DOMAIN then.roots
          PROVE  Here[then.roots[k].height] = then.roots[k].block
      <4>1. \A j \in DOMAIN pub.roots : Here[pub.roots[j].height] = pub.roots[j].block
        BY <1>1, <1>4, <3>5, <3>6 DEF PubOK, Here, Root, PubRead
      <4>2. k \in 1..Len(pub.roots) + 1 /\ pub.roots \in Seq(TipSet)
        BY <1>1, <3>2, <3>5, <3>6 DEF PubSet
      <4>3. CASE k = Len(pub.roots) + 1
        BY <3>5, <4>2, <4>3 DEF root
      <4>4. CASE k # Len(pub.roots) + 1
        BY <3>5, <4>1, <4>2, <4>4
      <4> QED
        BY <4>3, <4>4
    <3> HIDE DEF then
    <3>7. PubOK(then, best)
      BY <1>2, <3>5, <3>6
    <3> QED
      BY <3>3, <3>7
  <2> QED
    BY <2>1, <2>2
<1>5. CASE RootsRead
  <2> DEFINE then == [pub EXCEPT !.at = "again"]
  <2>1. then \in PubSet /\ then.at = "again" /\ then.sent = 1 /\ then.answer = None
        /\ then.outcome = "none" /\ then.before = pub.before /\ then.roots = pub.roots
    BY <1>1 DEF PubSet, PubPlace
  <2>2. pub.at = "root"
    BY <1>5 DEF RootsRead, PubRead
  <2> HIDE DEF then
  <2>3. PubOK(then, best)
    BY <1>1, <1>2, <2>1, <2>2 DEF PubOK, Here
  <2> QED
    BY <1>1, <1>5, <2>3, ReadKeeps DEF RootsRead, then
<1> QED
  BY <1>3, <1>4, <1>5

\* The tip that is read last is the one read first: the node was on one chain in between, and
\* what was observed is true of it.
LEMMA SecondTipKeeps == ASSUME PubOK(pub, best), SecondTip PROVE PubOK(pub', best)
<1>1. /\ pub \in PubSet /\ pub.at = "again" /\ pub.sent = 1 /\ best \in DOMAIN Chains
      /\ pub.answer = None /\ pub.outcome = "none" /\ exchange \in PublicExchanges
      /\ exchange \in Twice
  BY DEF SecondTip, PubRead, PubOK, Belongs
<1>2. PubOK(PubOver(pub, "error"), best)
  BY <1>1, PubFails
<1>3. ASSUME NEW i \in DOMAIN Chains, Tip(Chains[i]) = pub.before
      PROVE  ~Moved => i = best
  BY <1>1, <1>3, TipsDiffer DEF Moved, Here
<1>4. Observed \in FoundSet
  BY <1>1 DEF Observed, PubSet, None, FoundSet, Hash
<1>5. (exchange \in Observing => TrueOf(Observed, Here)) \/ Moved
  <2>1. SUFFICES ASSUME ~Moved, exchange \in Observing PROVE TrueOf(Observed, Here)
    OBVIOUS
  <2>2. TrueOf(pub.found, Here)
    BY <1>1, <2>1 DEF PubOK, Moved, Here
  <2> QED
    BY <2>1, <2>2 DEF Observed, TrueOf, None
<1>6. Moved => Observed.state = "none"
  BY DEF Observed, None
<1>7. ASSUME NEW p \in PubSet, p.at = "over", p.before = pub.before, p.roots = pub.roots,
             p.sent = 1, p.outcome \in {"value", "error"}, AnswerTrue(p)
      PROVE  PubOK(p, best)
  BY <1>1, <1>7 DEF PubOK, Belongs
<1>8. CASE exchange \in Observing
  <2> DEFINE then == [PubOver(pub, "value") EXCEPT !.answer = Observed]
  <2>1. /\ then \in PubSet /\ then.at = "over" /\ then.before = pub.before
        /\ then.roots = pub.roots /\ then.answer = Observed
        /\ then.sent = 1 /\ then.outcome = "value"
    BY <1>1, <1>4 DEF PubSet, PubPlace, Outcome, PubOver
  <2>2. pub.roots = <<>>
    BY <1>8 DEF PubOK, Observing
  <2> HIDE DEF then
  <2>3. ASSUME exchange = "public.wait" => Confirmed(Observed)
        PROVE  AnswerTrue(then)
    <3> SUFFICES ASSUME NEW i \in DOMAIN Chains, Tip(Chains[i]) = pub.before
                 PROVE  /\ TrueOf(Observed, Chains[i])
                        /\ exchange = "public.wait" =>
                              /\ Observed.state = "mined"
                              /\ Len(Chains[i]) - Observed.height + 1 >= Confirmations
      BY <1>8, <2>1, <2>2 DEF AnswerTrue, Single, Observing
    <3>1. CASE Moved
      BY <1>6, <2>3, <3>1 DEF TrueOf, Confirmed
    <3>2. CASE ~Moved
      BY <1>3, <1>5, <1>8, <2>3, <3>2 DEF Here, Confirmed
    <3> QED
      BY <3>1, <3>2
  <2>4. CASE exchange = "public.status"
    <3>1. PubRead("again", then)
      BY <2>4 DEF SecondTip, then
    <3> QED
      BY <1>1, <1>7, <2>1, <2>3, <2>4, <3>1, ReadKeeps
  <2>5. CASE exchange = "public.wait" /\ Confirmed(Observed)
    <3>1. PubRead("again", then)
      BY <2>5 DEF SecondTip, then
    <3> QED
      BY <1>1, <1>7, <2>1, <2>3, <2>5, <3>1, ReadKeeps
  <2>6. CASE exchange = "public.wait" /\ ~Confirmed(Observed)
    <3> DEFINE poll == [pub EXCEPT !.at = "poll"]
    <3>1. /\ poll \in PubSet /\ poll.at = "poll" /\ poll.sent = 1 /\ poll.answer = None
          /\ poll.outcome = "none" /\ poll.before = pub.before /\ poll.roots = pub.roots
      BY <1>1 DEF PubSet, PubPlace
    <3>2. PubRead("again", poll)
      BY <2>6 DEF SecondTip
    <3> HIDE DEF poll
    <3>3. PubOK(poll, best)
      BY <1>1, <2>6, <3>1 DEF PubOK, Belongs, AnswerTrue, None, Single
    <3> QED
      BY <1>1, <3>2, <3>3, ReadKeeps
  <2> QED
    BY <1>8, <2>4, <2>5, <2>6 DEF Observing
<1>9. CASE exchange = "public.roots"
  <2> DEFINE then == PubOver(pub, IF Moved THEN "error" ELSE "value")
  <2>1. /\ then \in PubSet /\ then.at = "over" /\ then.before = pub.before
        /\ then.roots = pub.roots /\ then.answer = None /\ then.sent = 1
        /\ then.outcome = (IF Moved THEN "error" ELSE "value")
    BY <1>1 DEF PubSet, PubPlace, Outcome, PubOver
  <2>2. PubRead("again", then)
    BY <1>9 DEF SecondTip
  <2> HIDE DEF then
  <2>3. AnswerTrue(then)
    <3> SUFFICES ASSUME NEW i \in DOMAIN Chains, Tip(Chains[i]) = pub.before, ~Moved,
                        NEW k \in DOMAIN pub.roots
                 PROVE  Chains[i][pub.roots[k].height] = pub.roots[k].block
      BY <1>9, <2>1 DEF AnswerTrue, TrueOf, None, Single
    <3> QED
      BY <1>1, <1>3, <1>9 DEF PubOK, Here
  <2> QED
    BY <1>1, <1>7, <2>1, <2>2, <2>3, ReadKeeps
<1> QED
  BY <1>1, <1>8, <1>9 DEF Twice, Observing

\* A wait begins its next observation (Poll).
LEMMA PollKeeps == ASSUME PubOK(pub, best), Poll PROVE PubOK(pub', best)
<1> DEFINE tip == [pub EXCEPT !.at = "tip"]
<1>1. pub \in PubSet /\ pub.at = "poll" /\ exchange = "public.wait"
      /\ exchange \in PublicExchanges /\ exchange \in Twice
  BY DEF Poll, PubRead, PubOK, Belongs, Twice
<1>2. /\ tip \in PubSet /\ tip.at = "tip" /\ tip.sent = pub.sent /\ tip.answer = pub.answer
      /\ tip.outcome = pub.outcome /\ tip.before = pub.before /\ tip.roots = pub.roots
  BY <1>1 DEF PubSet, PubPlace
<1> HIDE DEF tip
<1>3. PubOK(tip, best)
  BY <1>1, <1>2 DEF PubOK, Belongs, AnswerTrue, None, Single
<1> QED
  BY <1>1, <1>3, ReadKeeps DEF Poll, tip

\* The time of a wait is over (WaitElapses).
LEMMA WaitElapsesKeeps == ASSUME PubOK(pub, best), WaitElapses PROVE PubOK(pub', best)
<1>1. pub \in PubSet /\ pub' = [pub EXCEPT !.late = TRUE]
  BY DEF WaitElapses, PubOK
<1>2. /\ pub' \in PubSet /\ pub'.at = pub.at /\ pub'.sent = pub.sent /\ pub'.answer = pub.answer
      /\ pub'.outcome = pub.outcome /\ pub'.before = pub.before /\ pub'.roots = pub.roots
      /\ pub'.found = pub.found /\ pub'.pinned = pub.pinned /\ pub'.header = pub.header
  BY <1>1 DEF PubSet
<1>3. AnswerTrue(pub')
  BY <1>2 DEF PubOK, AnswerTrue
<1>4. Belongs(pub')
  BY <1>2 DEF PubOK, Belongs
<1> QED
  BY <1>2, <1>3, <1>4 DEF PubOK

\* Every step of the public client and of its node.
LEMMA PubStepOK == ASSUME PubOK(pub, best), PubNext PROVE PubOK(pub', best')
<1>1. CASE PubStep
  <2>1. best' = best
    BY <1>1 DEF PubStep, PubRefused, PubOpen, PubReady, FirstTip, Utxos, Transaction, Block, Tree,
                Header, Roots, Root, RootsRead, SecondTip, Poll, WaitEnds, PubRead
  <2>2. CASE PubRefused \/ WaitEnds
    BY <2>1, <2>2, PubFails DEF PubRefused, WaitEnds, Waiting, Public, PublicExchanges
  <2> QED
    BY <1>1, <2>1, <2>2, OpensKeeps, ReadyKeeps, FirstTipKeeps, UtxosKeeps, TransactionKeeps,
       BlockKeeps, HeaderKeeps, RootsKeeps, SecondTipKeeps, PollKeeps DEF PubStep
<1>2. CASE PubReturned \/ ReadFails
  <2>1. exchange \in PublicExchanges
    BY <1>2 DEF PubReturned, ReadFails, PubOK, Belongs
  <2> QED
    BY <1>2, <2>1, PubFails DEF PubReturned, ReadFails
<1>3. CASE WaitElapses
  BY <1>3, WaitElapsesKeeps DEF WaitElapses
<1>4. CASE Reorganize
  <2>1. best \in DOMAIN Chains /\ best' \in DOMAIN Chains /\ best < best' /\ pub' = pub
    BY <1>4, ChainsAssumption DEF Reorganize, PubOK
  <2> QED
    BY <2>1, MoveKeeps
<1>5. CASE PubAbort
  BY <1>5 DEF PubAbort
<1> QED
  BY <1>1, <1>2, <1>3, <1>4, <1>5 DEF PubNext

\* A client that has made no call (PubInit).
LEMMA PubInitOK == ASSUME PubInit PROVE PubOK(pub, best)
<1>1. best \in DOMAIN Chains
  BY ChainsAssumption DEF PubInit
<1>2. None \in FoundSet /\ None \in TipSet \cup {None} /\ "none" \in Hash /\ <<>> \in Seq(TipSet)
  BY DEF None, FoundSet, Hash
<1>3. /\ pub \in PubSet /\ pub.at = "idle" /\ pub.sent = 0 /\ pub.answer = None
      /\ pub.outcome = "none" /\ pub.before = None /\ pub.roots = <<>>
  <2>1. PICK timed \in BOOLEAN :
           pub = [at |-> "idle", before |-> None, found |-> None, pinned |-> "none",
                  header |-> "none", roots |-> <<>>, listed |-> 0, timed |-> timed,
                  late |-> FALSE, sent |-> 0, answer |-> None, outcome |-> "none"]
    BY DEF PubInit
  <2> QED
    BY <1>2, <2>1 DEF PubSet, PubPlace, Outcome
<1>4. None.state = "none"
  BY DEF None
<1>5. \A i \in DOMAIN Chains : Tip(Chains[i]) # None
  BY ChainType
<1> QED
  BY <1>1, <1>3, <1>4, <1>5 DEF PubOK, Belongs, AnswerTrue, Twice

-----------------------------------------------------------------------------
(* The light client (LightReads) *)

\* What may be told of an exchange (EndpointCall).
Writing == exchange \in {"http.send", "rpc.send", "light.send"}
Truthful(o, sent) ==
    IF Writing
    THEN \/ o = "error" /\ sent = 0
         \/ o = "unknown"
         \/ o = "acknowledged" /\ served = "accepted"
         \/ o = "rejected" /\ served = "refused"
    ELSE o = "error" \/ (o = "value" /\ sent > 0)

\* Where a call of the light client may be, the objects of the transport and its records.
LightPlace ==
    {"idle", "identity", "genesis", "ready", "decode", "opening", "acquiring", "pull", "project",
     "item", "reply", "over"}
Objects == {"iterable", "iterator"}
Settled ==
    {"none", "good", "bad", "item", "end", "fault", "malformed", "acknowledged", "rejected",
     "value", "foreign", "notFound"}
LightSet ==
    [at : LightPlace, open : SUBSET Layers, stopped : BOOLEAN, settled : Settled,
     due : Blocks \cup {"none", "transaction"}, foreign : SUBSET Objects, alike : BOOLEAN,
     returns : Seq(Objects), blocks : Seq(Blocks), verified : BOOLEAN, sent : 0..1,
     outcome : Outcome]

\* Blocks of a range, without a gap and each on the one before.
Linked(blocks) ==
    /\ Len(blocks) <= To - From + 1
    /\ \A i \in DOMAIN blocks : blocks[i].height = From + i - 1
    /\ \A i \in DOMAIN blocks : i > 1 => blocks[i].previous = blocks[i - 1].id

\* The object that is owned was returned.
GivenOn(l) == l.foreign = {} \/ Owned(l) \in Range(l.returns)

\* Which calls are where, and what they have sent by then.
Unsent == {"idle", "identity", "genesis", "ready", "decode"}
LightBelongs(l) ==
    /\ l.at \in Unsent => l.sent = 0
    /\ l.at \in {"acquiring", "pull", "item", "project", "reply"} => l.sent = 1
    /\ l.at = "opening" /\ l.sent = 1 => exchange \in LightStreams
    /\ l.at \in {"acquiring", "pull", "item"} => exchange \in LightStreams
    /\ exchange = "light.send" /\ l.at \notin {"reply", "over"} => l.sent = 0
    /\ l.at = "project" => exchange # "light.send"
    /\ l.at = "decode" => exchange = "light.send"
    /\ l.at = "reply" => exchange \in LightUnary
    /\ l.at # "idle" => exchange \in LightStreams \cup LightUnary

\* The answer of the node to a transaction is what it did.
Replies(l) ==
    /\ l.at \in {"idle", "ready", "opening"} => l.settled = "none"
    /\ l.at = "pull" => l.settled \in {"none", "item", "end", "fault", "malformed"}
    /\ exchange = "light.send" /\ l.at = "reply" =>
        /\ l.settled \in {"none", "fault", "malformed", "acknowledged", "rejected"}
        /\ l.settled = "acknowledged" => served = "accepted"
        /\ l.settled = "rejected" => served = "refused"

\* What is known of a call of the light client: its blocks are linked from the first on, an
\* object of the transport is returned once, and what is over holds nothing and tells the
\* truth.
LightOK(l) ==
    /\ l \in LightSet
    /\ LightBelongs(l)
    /\ Linked(l.blocks)
    /\ l.at = "pull" /\ exchange = "light.blocks" /\ l.settled = "item" => l.due \in Blocks
    /\ l.at = "idle" => l.open = {}
    /\ l.at # "over" => l.outcome = "none"
    /\ l.outcome = "value" /\ exchange = "light.blocks" => Len(l.blocks) = To - From + 1
    /\ l.foreign \in {{}, {"iterable"}, Objects}
    /\ IsInjective(l.returns)
    /\ l.at = "over" => l.open = {} /\ GivenOn(l) /\ Truthful(l.outcome, l.sent)
    /\ Replies(l)
    /\ l.at = "acquiring" => "iterable" \in l.foreign

\* A release returns the object that is owned, once (Release).
LEMMA ReleaseGives ==
    ASSUME NEW l \in LightSet, IsInjective(l.returns)
    PROVE  /\ Release(l) = [l EXCEPT !.returns = Release(l).returns]
           /\ Release(l).returns \in Seq(Objects)
           /\ IsInjective(Release(l).returns)
           /\ l.foreign = {} \/ Owned(l) \in Range(Release(l).returns)
<1>1. Owned(l) \in Objects
  BY DEF Owned, Objects
<1>2. l.returns \in Seq(Objects)
  BY DEF LightSet
<1>3. CASE l.foreign = {} \/ Owned(l) \in Range(l.returns)
  <2>1. Release(l) = l
    BY <1>3 DEF Release
  <2>2. l = [l EXCEPT !.returns = l.returns]
    BY DEF LightSet
  <2> QED
    BY <1>2, <1>3, <2>1, <2>2
<1>4. CASE ~(l.foreign = {} \/ Owned(l) \in Range(l.returns))
  <2> DEFINE longer == Append(l.returns, Owned(l))
  <2>1. Release(l) = [l EXCEPT !.returns = longer]
    BY <1>4 DEF Release
  <2>2. longer \in Seq(Objects) /\ DOMAIN longer = 1..Len(l.returns) + 1
        /\ longer[Len(l.returns) + 1] = Owned(l)
        /\ \A i \in 1..Len(l.returns) : longer[i] = l.returns[i]
    BY <1>1, <1>2
  <2>3. DOMAIN l.returns = 1..Len(l.returns) /\ Len(l.returns) \in Nat
    BY <1>2
  <2>4. \A i \in 1..Len(l.returns) : l.returns[i] # Owned(l)
    BY <1>4, <2>3 DEF Range
  <2> HIDE DEF longer
  <2>5. IsInjective(longer)
    <3> SUFFICES ASSUME NEW a \in DOMAIN longer, NEW b \in DOMAIN longer, longer[a] = longer[b]
                 PROVE  a = b
      BY DEF IsInjective
    <3>1. CASE a \in 1..Len(l.returns) /\ b \in 1..Len(l.returns)
      BY <2>2, <2>3, <3>1 DEF IsInjective
    <3>2. CASE a = Len(l.returns) + 1 \/ b = Len(l.returns) + 1
      BY <2>2, <2>3, <2>4, <3>2
    <3> QED
      BY <2>2, <2>3, <3>1, <3>2
  <2>6. Owned(l) \in Range(longer)
    BY <2>2, <2>3 DEF Range
  <2>7. Release(l).returns = longer
    BY <2>1 DEF LightSet
  <2> QED
    BY <2>1, <2>2, <2>5, <2>6, <2>7
<1> QED
  BY <1>3, <1>4

\* close() or cancel() of all layers changes nothing but what is open and what is returned.
LEMMA ShutGives ==
    ASSUME NEW l \in LightSet, IsInjective(l.returns)
    PROVE  \E returns \in Seq(Objects) :
              /\ Shut(l, 1) = [l EXCEPT !.open = {}, !.returns = returns]
              /\ IsInjective(returns)
<1> DEFINE shut == [l EXCEPT !.open = {i \in @ : i < 1}]
<1>1. {i \in l.open : i < 1} = {}
  BY DEF LightSet, Layers
<1>2. shut = [l EXCEPT !.open = {}]
  BY <1>1
<1>3. shut \in LightSet /\ shut.returns = l.returns /\ shut.open = {}
  BY <1>2 DEF LightSet
<1>4. Shut(l, 1) = IF 3 \in l.open THEN Release(shut) ELSE shut
  BY DEF Shut
<1> HIDE DEF shut
<1>5. PICK returns \in Seq(Objects) :
        Shut(l, 1) = [shut EXCEPT !.returns = returns] /\ IsInjective(returns)
  <2>1. CASE 3 \in l.open
    BY <1>3, <1>4, <2>1, ReleaseGives
  <2>2. CASE 3 \notin l.open
    <3>1. shut = [shut EXCEPT !.returns = shut.returns] /\ shut.returns \in Seq(Objects)
      BY <1>3 DEF LightSet
    <3> QED
      BY <1>3, <1>4, <2>2, <3>1
  <2> QED
    BY <2>1, <2>2
<1>6. [shut EXCEPT !.returns = returns] = [l EXCEPT !.open = {}, !.returns = returns]
  BY <1>2
<1> QED
  BY <1>5, <1>6

\* The end of a call closes its layers and gives back what is owned (LightOver).
LEMMA OverGives ==
    ASSUME NEW l \in LightSet, IsInjective(l.returns), NEW o \in Outcome
    PROVE  \E returns \in Seq(Objects) :
              /\ LightOver(l, o) = [l EXCEPT !.open = {}, !.returns = returns, !.at = "over",
                                             !.outcome = o]
              /\ IsInjective(returns)
              /\ GivenOn(LightOver(l, o))
<1>1. PICK r \in Seq(Objects) :
        Shut(l, 1) = [l EXCEPT !.open = {}, !.returns = r] /\ IsInjective(r)
  BY ShutGives
<1> DEFINE shut == Shut(l, 1)
           q == LightOver(l, o)
           returns == Release(shut).returns
<1>2. shut \in LightSet /\ shut.returns = r /\ shut.foreign = l.foreign /\ shut.alike = l.alike
  BY <1>1 DEF LightSet
<1>3. /\ Release(shut) = [shut EXCEPT !.returns = returns] /\ returns \in Seq(Objects)
      /\ IsInjective(returns) /\ (shut.foreign = {} \/ Owned(shut) \in Range(returns))
  BY <1>1, <1>2, ReleaseGives
<1> HIDE DEF returns
<1>4. q = [l EXCEPT !.open = {}, !.returns = returns, !.at = "over", !.outcome = o]
  BY <1>1, <1>3 DEF LightOver, LightSet
<1>5. q.foreign = l.foreign /\ q.alike = l.alike /\ q.returns = returns
  BY <1>4 DEF LightSet
<1>6. GivenOn(q)
  BY <1>2, <1>3, <1>5 DEF GivenOn, Owned
<1> QED
  BY <1>3, <1>4, <1>6

\* The calls of the light client.
Lights == LightStreams \cup LightUnary

\* A call may end with what is true (LightOver).
LEMMA LightEnds ==
    ASSUME NEW l, LightOK(l), NEW o \in Outcome, exchange \in Lights,
           o = "value" /\ exchange = "light.blocks" => Len(l.blocks) = To - From + 1,
           Truthful(o, l.sent)
    PROVE  LightOK(LightOver(l, o))
<1> DEFINE q == LightOver(l, o)
<1>1. l \in LightSet /\ IsInjective(l.returns)
  BY DEF LightOK
<1>2. PICK returns \in Seq(Objects) :
        /\ q = [l EXCEPT !.open = {}, !.returns = returns, !.at = "over", !.outcome = o]
        /\ IsInjective(returns) /\ GivenOn(q)
  BY <1>1, OverGives
<1> HIDE DEF q
<1>3. /\ q \in LightSet /\ q.open = {} /\ q.returns = returns /\ q.at = "over" /\ q.outcome = o
      /\ q.blocks = l.blocks /\ q.foreign = l.foreign /\ q.sent = l.sent
  BY <1>1, <1>2 DEF LightSet, LightPlace
<1>4. LightBelongs(q)
  BY <1>3 DEF LightBelongs, Lights, Unsent
<1> QED
  BY <1>2, <1>3, <1>4 DEF LightOK, q, Replies

\* An error is what may be told of a call that is not the reply to a transaction.
LEMMA LightFails ==
    ASSUME NEW l, LightOK(l), exchange \in Lights, exchange = "light.send" => l.sent = 0
    PROVE  LightOK(LightOver(l, "error"))
<1>1. Truthful("error", l.sent)
  BY DEF Truthful, Writing, Lights, LightStreams, LightUnary
<1> QED
  BY <1>1, LightEnds DEF Outcome

\* A check of the signal ends the call or lets it go on (LightChecked).
LEMMA CheckedKeeps ==
    ASSUME NEW l, NEW then, LightOK(l), LightOK(then), exchange \in Lights,
           exchange = "light.send" => l.sent = 0
    PROVE  LightOK(LightChecked(l, then))
BY LightFails DEF LightChecked

\* An abort or a return() closes the first layer, and the wait goes on stopped (Cancel).
LEMMA CancelKeeps ==
    ASSUME NEW l, LightOK(l), l.at \notin {"over"}
    PROVE  LightOK(Cancel(l))
<1> DEFINE q == Cancel(l)
<1>1. l \in LightSet /\ IsInjective(l.returns)
  BY DEF LightOK
<1>2. PICK returns \in Seq(Objects) :
        Shut(l, 1) = [l EXCEPT !.open = {}, !.returns = returns] /\ IsInjective(returns)
  BY <1>1, ShutGives
<1>3. /\ q \in LightSet /\ q.open = {} /\ q.returns = returns /\ q.at = l.at
      /\ q.outcome = l.outcome /\ q.blocks = l.blocks /\ q.foreign = l.foreign /\ q.sent = l.sent
      /\ q.due = l.due /\ q.settled = l.settled
  BY <1>1, <1>2 DEF LightSet, Cancel
<1> HIDE DEF q
<1>4. LightBelongs(q)
  BY <1>3 DEF LightOK, LightBelongs
<1> QED
  BY <1>2, <1>3, <1>4 DEF LightOK, q, Replies

\* A step that leaves alone what was given on and what was handed out.
LEMMA LightGoes ==
    ASSUME NEW l, LightOK(l), NEW q \in LightSet, LightBelongs(q), q.blocks = l.blocks,
           q.foreign = l.foreign, q.returns = l.returns, q.outcome = l.outcome,
           l.at # "over", q.at \notin {"idle", "over", "acquiring"},
           q.at = "pull" /\ exchange = "light.blocks" /\ q.settled = "item" => q.due \in Blocks,
           Replies(q)
    PROVE  LightOK(q)
BY DEF LightOK

\* What an await of the operation makes of the call.
LEMMA AwaitedKeeps ==
    ASSUME NEW at, NEW then, LightOK(light), Awaited(at, then), at \notin {"idle", "over"},
           exchange = "light.send" => at # "reply", LightOK(then)
    PROVE  LightOK(light')
<1>1. exchange \in Lights /\ (exchange = "light.send" => light.sent = 0)
  BY DEF LightOK, LightBelongs, Awaited, Lights
<1>2. LightOK(LightOver(light, "error"))
  BY <1>1, LightFails
<1> QED
  BY <1>1, <1>2, CheckedKeeps DEF Awaited

\* The steps before the transport is called.
LEMMA LightOpens ==
    ASSUME LightOK(light),
           LightRefused \/ LightOpen \/ Identity \/ Genesis \/ Verified \/ DecodeTransaction
    PROVE  LightOK(light')
<1>1. light \in LightSet /\ light.at \in {"idle"} \cup Unsent
  BY DEF LightOK, LightRefused, LightOpen, Identity, Genesis, Verified, DecodeTransaction, Awaited,
         Unsent
<1>2. exchange \in Lights /\ light.sent = 0
  BY DEF LightOK, LightBelongs, LightRefused, LightOpen, Identity, Genesis, Verified,
         DecodeTransaction, Awaited, Lights, Unsent
<1>3. CASE LightRefused
  BY <1>2, <1>3, LightFails DEF LightRefused
<1>4. ASSUME NEW open \in SUBSET Layers, NEW verified \in BOOLEAN,
             NEW at \in {"ready", "identity", "genesis", "decode", "opening"},
             NEW settled \in Settled, at \in {"ready", "opening"} => settled = "none",
             at = "decode" <=> (exchange = "light.send" /\ light.at = "ready")
      PROVE  LightOK([light EXCEPT !.open = open, !.verified = verified, !.at = at,
                                   !.settled = settled])
  <2> DEFINE then == [light EXCEPT !.open = open, !.verified = verified, !.at = at,
                                   !.settled = settled]
  <2>1. /\ then \in LightSet /\ then.at = at /\ then.sent = light.sent
        /\ then.blocks = light.blocks /\ then.foreign = light.foreign
        /\ then.returns = light.returns /\ then.outcome = light.outcome
        /\ then.settled = settled
    BY <1>1 DEF LightSet, LightPlace
  <2> HIDE DEF then
  <2>2. LightBelongs(then) /\ Replies(then)
    BY <1>2, <1>4, <2>1 DEF LightBelongs, Unsent, Lights, Replies
  <2>3. LightOK(then)
    BY <1>1, <1>4, <2>1, <2>2, LightGoes DEF Unsent
  <2> QED
    BY <2>3 DEF then
<1>5. {1} \in SUBSET Layers /\ {1, 2} \in SUBSET Layers /\ light.open \in SUBSET Layers
      /\ light.verified \in BOOLEAN /\ light.settled \in Settled /\ "none" \in Settled
  BY <1>1 DEF Layers, LightSet, Settled
<1>6. CASE LightOpen
  <2> DEFINE at == IF light.verified THEN "ready" ELSE "identity"
  <2>1. at \in {"ready", "identity"} /\ light.at = "idle"
    BY <1>6 DEF LightOpen
  <2>9. light.settled = "none"
    BY <2>1 DEF LightOK, Replies
  <2>2. [light EXCEPT !.open = {1}, !.verified = light.verified, !.at = at,
                      !.settled = light.settled] = [light EXCEPT !.open = {1}, !.at = at]
    BY <1>1 DEF LightSet
  <2> HIDE DEF at
  <2>3. LightOK([light EXCEPT !.open = {1}, !.at = at])
    <3>1. LightOK([light EXCEPT !.open = {1}, !.verified = light.verified, !.at = at,
                                !.settled = light.settled])
      BY <1>4, <1>5, <2>1, <2>9
    <3> QED
      BY <2>2, <3>1
  <2> QED
    BY <1>2, <1>6, <2>3, CheckedKeeps DEF LightOpen, at
<1>7. CASE Identity
  <2>1. [light EXCEPT !.open = light.open, !.verified = light.verified, !.at = "genesis",
                      !.settled = "none"] = [light EXCEPT !.at = "genesis", !.settled = "none"]
    BY <1>1 DEF LightSet
  <2>2. light.at = "identity"
    BY <1>7 DEF Identity, Awaited
  <2>3. LightOK([light EXCEPT !.at = "genesis", !.settled = "none"])
    BY <1>4, <1>5, <2>1, <2>2
  <2> QED
    BY <1>7, <2>3, AwaitedKeeps DEF Identity
<1>8. CASE Genesis
  <2>1. [light EXCEPT !.open = light.open, !.verified = TRUE, !.at = "ready", !.settled = "none"]
          = [light EXCEPT !.at = "ready", !.settled = "none", !.verified = TRUE]
    BY <1>1 DEF LightSet
  <2>2. light.at = "genesis"
    BY <1>8 DEF Genesis, Awaited
  <2>3. LightOK([light EXCEPT !.at = "ready", !.settled = "none", !.verified = TRUE])
    BY <1>4, <1>5, <2>1, <2>2
  <2> QED
    BY <1>8, <2>3, AwaitedKeeps DEF Genesis
<1>9. CASE Verified
  <2> DEFINE at == IF exchange = "light.send" THEN "decode" ELSE "opening"
  <2>1. at \in {"decode", "opening"} /\ light.at = "ready"
        /\ (at = "decode" <=> exchange = "light.send")
    BY <1>9 DEF Verified
  <2>9. light.settled = "none"
    BY <2>1 DEF LightOK, Replies
  <2>2. [light EXCEPT !.open = {1, 2}, !.verified = light.verified, !.at = at,
                      !.settled = light.settled] = [light EXCEPT !.open = {1, 2}, !.at = at]
    BY <1>1 DEF LightSet
  <2> HIDE DEF at
  <2>3. LightOK([light EXCEPT !.open = {1, 2}, !.at = at])
    <3>1. LightOK([light EXCEPT !.open = {1, 2}, !.verified = light.verified, !.at = at,
                                !.settled = light.settled])
      BY <1>4, <1>5, <2>1, <2>9
    <3> QED
      BY <2>2, <3>1
  <2> QED
    BY <1>2, <1>9, <2>3, CheckedKeeps DEF Verified, at
<1>10. CASE DecodeTransaction
  <2>1. [light EXCEPT !.open = light.open, !.verified = light.verified, !.at = "opening",
                      !.settled = "none"] = [light EXCEPT !.at = "opening", !.settled = "none"]
    BY <1>1 DEF LightSet
  <2>2. light.at = "decode"
    BY <1>10 DEF DecodeTransaction, Awaited
  <2>3. LightOK([light EXCEPT !.at = "opening", !.settled = "none"])
    BY <1>4, <1>5, <2>1, <2>2
  <2> QED
    BY <1>10, <2>3, AwaitedKeeps DEF DecodeTransaction
<1> QED
  BY <1>3, <1>6, <1>7, <1>8, <1>9, <1>10

\* The transport is called, and what it hands out is remembered before anything is checked.
LEMMA LightCalls ==
    ASSUME LightOK(light), CallTransport \/ Iterable \/ Iterator
    PROVE  LightOK(light')
<1>1. light \in LightSet /\ light.at \in {"opening", "acquiring"}
  BY DEF LightOK, CallTransport, Iterable, Iterator
<1>2. exchange \in Lights /\ (exchange = "light.send" => light.sent = 0)
  BY <1>1 DEF LightOK, LightBelongs, Lights
<1>3. LightOK(LightOver(light, "error"))
  BY <1>2, LightFails
<1>4. CASE CallTransport
  <2> DEFINE at == IF LightStream THEN "opening" ELSE "reply"
             then == [light EXCEPT !.open = Layers, !.sent = @ + 1, !.at = at]
  <2>1. at \in {"opening", "reply"} /\ light.sent = 0 /\ (at = "opening" <=> exchange \in LightStreams)
    BY <1>4 DEF CallTransport, LightStream
  <2> HIDE DEF at
  <2>0. Layers \in SUBSET Layers /\ at \in LightPlace /\ 1 \in 0..1
        /\ then = [light EXCEPT !.open = Layers, !.sent = 1, !.at = at]
    BY <2>1 DEF LightPlace
  <2>2. /\ then \in LightSet /\ then.at = at /\ then.sent = 1
        /\ then.blocks = light.blocks /\ then.foreign = light.foreign
        /\ then.returns = light.returns /\ then.outcome = light.outcome
        /\ then.settled = light.settled
    <3> HIDE DEF then
    <3> QED
      BY <1>1, <2>0 DEF LightSet
  <2> HIDE DEF then
  <2>3. LightBelongs(then)
    BY <1>2, <2>1, <2>2 DEF LightBelongs, Unsent, Lights, LightStreams, LightUnary
  <2>4. light.settled = "none"
    BY <1>4 DEF LightOK, CallTransport, Replies
  <2>5. LightOK(then)
    BY <1>1, <2>1, <2>2, <2>3, <2>4, LightGoes DEF Replies
  <2> QED
    BY <1>2, <1>4, <2>5, CheckedKeeps DEF CallTransport, then, at
<1>5. CASE Iterable
  <2>1. PICK threw \in BOOLEAN :
          light' = IF threw THEN LightOver(light, "error")
                   ELSE LET got == [light EXCEPT !.foreign = {"iterable"}, !.at = "acquiring"]
                        IN  LightChecked(got, got)
    BY <1>5 DEF Iterable
  <2> DEFINE got == [light EXCEPT !.foreign = {"iterable"}, !.at = "acquiring"]
  <2>2. got \in LightSet /\ got.at = "acquiring" /\ got.foreign = {"iterable"}
        /\ got.sent = light.sent /\ got.blocks = light.blocks /\ got.returns = light.returns
        /\ got.outcome = light.outcome
    BY <1>1 DEF LightSet, LightPlace, Objects
  <2>3. light.at = "opening" /\ light.sent = 1
    BY <1>1, <1>5 DEF Iterable, LightSet
  <2> HIDE DEF got
  <2>4. LightBelongs(got)
    BY <1>2, <2>2, <2>3 DEF LightOK, LightBelongs, Unsent, Lights, LightStreams
  <2>5. LightOK(got)
    BY <2>2, <2>3, <2>4 DEF LightOK, Replies
  <2>6. LightOK(LightChecked(got, got))
    BY <1>2, <2>2, <2>5, CheckedKeeps
  <2> QED
    BY <1>3, <2>1, <2>6 DEF got
<1>6. CASE Iterator
  <2>1. PICK threw \in BOOLEAN :
          light' = IF threw THEN LightOver(light, "error")
                   ELSE LET got == [light EXCEPT !.foreign = @ \cup {"iterator"}, !.at = "pull",
                                                 !.settled = "none"]
                        IN  LightChecked(got, got)
    BY <1>6 DEF Iterator
  <2> DEFINE foreign == light.foreign \cup {"iterator"}
             got == [light EXCEPT !.foreign = foreign, !.at = "pull", !.settled = "none"]
  <2>2. light.at = "acquiring" /\ light.foreign \in {{"iterable"}, Objects}
    BY <1>6 DEF Iterator, LightOK, Replies
  <2>3. foreign = Objects
    BY <2>2 DEF Objects
  <2> HIDE DEF foreign
  <2>4. got \in LightSet /\ got.at = "pull" /\ got.foreign = Objects /\ got.settled = "none"
        /\ got.sent = light.sent /\ got.blocks = light.blocks /\ got.returns = light.returns
        /\ got.outcome = light.outcome
    BY <1>1, <2>3 DEF LightSet, LightPlace, Objects, Settled
  <2> HIDE DEF got
  <2>5. LightBelongs(got)
    BY <1>2, <2>2, <2>4 DEF LightOK, LightBelongs, Unsent, Lights, LightStreams
  <2>6. LightOK(got)
    BY <2>2, <2>4, <2>5 DEF LightOK, Replies
  <2>7. LightOK(LightChecked(got, got))
    BY <1>2, <2>4, <2>6, CheckedKeeps
  <2>8. light' = IF threw THEN LightOver(light, "error") ELSE LightChecked(got, got)
    BY <2>1 DEF got, foreign
  <2> QED
    BY <1>3, <2>7, <2>8
<1> QED
  BY <1>4, <1>5, <1>6

\* A block that fits is the next one of the range.
LEMMA FittingLinks ==
    ASSUME LightOK(light), light.due \in Blocks, Fits(light.due)
    PROVE  Append(light.blocks, light.due) \in Seq(Blocks)
           /\ Linked(Append(light.blocks, light.due))
<1> DEFINE longer == Append(light.blocks, light.due)
           n == Len(light.blocks)
<1>1. light.blocks \in Seq(Blocks) /\ Linked(light.blocks)
  BY DEF LightOK, LightSet
<1>2. n \in Nat /\ DOMAIN light.blocks = 1..n /\ From \in Nat /\ To \in Nat
  BY <1>1, RangeAssumption
<1>3. /\ longer \in Seq(Blocks) /\ Len(longer) = n + 1 /\ DOMAIN longer = 1..n + 1
      /\ longer[n + 1] = light.due /\ \A i \in 1..n : longer[i] = light.blocks[i]
  BY <1>1
<1>4. light.due.height = From + n /\ From + n <= To
      /\ (n > 0 => light.due.previous = light.blocks[n].id)
  BY <1>1, <1>2 DEF Fits, Links, Due, Last
<1> HIDE DEF longer, n
<1>5. Len(longer) <= To - From + 1
  BY <1>2, <1>3, <1>4
<1>6. ASSUME NEW i \in DOMAIN longer
      PROVE  longer[i].height = From + i - 1 /\ (i > 1 => longer[i].previous = longer[i - 1].id)
  <2>1. CASE i = n + 1
    <3>1. i > 1 => i - 1 = n /\ n > 0 /\ n \in 1..n
      BY <1>2, <2>1
    <3>2. longer[i] = light.due /\ light.due.height = From + i - 1
      BY <1>2, <1>3, <1>4, <2>1
    <3> QED
      BY <1>3, <1>4, <3>1, <3>2
  <2>2. CASE i \in 1..n
    <3>1. light.blocks[i].height = From + i - 1
          /\ (i > 1 => light.blocks[i].previous = light.blocks[i - 1].id)
      BY <1>1, <1>2, <2>2 DEF Linked
    <3>2. i > 1 => i - 1 \in 1..n
      BY <1>2, <2>2
    <3> QED
      BY <1>3, <2>2, <3>1, <3>2
  <2> QED
    BY <1>2, <1>3, <1>6, <2>1, <2>2
<1> QED
  BY <1>3, <1>5, <1>6 DEF Linked, longer

\* An item is given on only if it is linked to the one before, and the end of a range comes
\* after its last block (Pulled).
LEMMA PulledKeeps == ASSUME LightOK(light), Pulled PROVE LightOK(light')
<1>1. light \in LightSet /\ light.at = "pull" /\ exchange \in LightStreams /\ exchange \in Lights
      /\ exchange # "light.send" /\ light.sent = 1
  BY DEF LightOK, Pulled, LightBelongs, LightStreams, Lights
<1>2. LightOK(LightOver(light, "error"))
  BY <1>1, LightFails
<1>3. CASE cut \/ light.stopped
  BY <1>2, <1>3 DEF Pulled, LightChecked
<1>4. CASE ~(cut \/ light.stopped)
  <2>1. light.settled \in {"item", "end", "fault", "malformed"}
    BY <1>1, <1>4 DEF Pulled, LightOK, Replies
  <2>2. CASE light.settled = "end"
    <3>1. light' = LightOver(light, IF Complete THEN "value" ELSE "error")
      BY <1>4, <2>2 DEF Pulled, LightChecked
    <3>2. CASE Complete
      <4>1. Truthful("value", light.sent)
        BY <1>1 DEF Truthful, Writing, LightStreams
      <4>2. exchange = "light.blocks" => Len(light.blocks) = To - From + 1
        <5>1. Len(light.blocks) \in Nat
          BY <1>1 DEF LightSet
        <5> QED
          BY <3>2, <5>1, RangeAssumption DEF Complete, Due
      <4> QED
        BY <1>1, <3>1, <3>2, <4>1, <4>2, LightEnds DEF Outcome
    <3> QED
      BY <1>2, <3>1, <3>2
  <2>3. CASE light.settled \in {"fault", "malformed"}
    BY <1>2, <1>4, <2>3 DEF Pulled, LightChecked
  <2>4. CASE light.settled = "item" /\ exchange = "light.transactions"
    <3> DEFINE then == [light EXCEPT !.at = "project", !.settled = "none"]
    <3>1. /\ then \in LightSet /\ then.at = "project" /\ then.sent = light.sent
          /\ then.blocks = light.blocks /\ then.foreign = light.foreign
          /\ then.returns = light.returns /\ then.outcome = light.outcome
      BY <1>1 DEF LightSet, LightPlace, Settled
    <3>2. light' = then
      BY <1>4, <2>4 DEF Pulled, LightChecked
    <3> HIDE DEF then
    <3>3. LightBelongs(then) /\ Replies(then)
      BY <1>1, <3>1 DEF LightBelongs, Unsent, Replies
    <3> QED
      BY <1>1, <3>1, <3>2, <3>3, LightGoes
  <2>5. CASE light.settled = "item" /\ exchange = "light.blocks"
    <3>1. light.due \in Blocks
      BY <1>1, <2>5 DEF LightOK
    <3>2. CASE ~Fits(light.due)
      <4>1. light' = LightOver(light, "error")
        BY <1>4, <2>5, <3>2 DEF Pulled, LightChecked
      <4> QED
        BY <1>2, <4>1
    <3>3. CASE Fits(light.due)
      <4> DEFINE longer == Append(light.blocks, light.due)
                 then == [light EXCEPT !.at = "item", !.blocks = longer, !.due = "none"]
      <4>1. longer \in Seq(Blocks) /\ Linked(longer)
        BY <3>1, <3>3, FittingLinks
      <4>2. light' = then
        BY <1>4, <2>5, <3>3 DEF Pulled, LightChecked
      <4> HIDE DEF longer
      <4>3. /\ then \in LightSet /\ then.at = "item" /\ then.sent = light.sent
            /\ then.blocks = longer /\ then.foreign = light.foreign
            /\ then.returns = light.returns /\ then.outcome = light.outcome
        BY <1>1, <4>1 DEF LightSet, LightPlace
      <4> HIDE DEF then
      <4>4. LightBelongs(then) /\ Replies(then)
        BY <1>1, <4>3 DEF LightBelongs, Unsent, Replies
      <4>5. light.outcome = "none"
        BY <1>1 DEF LightOK
      <4>6. LightOK(then)
        BY <1>1, <4>1, <4>3, <4>4, <4>5 DEF LightOK
      <4> QED
        BY <4>2, <4>6
    <3> QED
      BY <3>2, <3>3
  <2> QED
    BY <1>1, <2>1, <2>2, <2>3, <2>4, <2>5 DEF LightStreams
<1> QED
  BY <1>3, <1>4

\* A call that is neither a range of blocks nor a transaction is told a value.
LEMMA LightValue ==
    ASSUME LightOK(light), light.at \in {"reply", "project"}, exchange \notin {"light.send"},
           light.at = "project" => ~LightStream
    PROVE  LightOK(LightOver(light, "value")) /\ LightOK(LightOver(light, "error"))
<1>1. exchange \in Lights /\ light.sent = 1
  BY DEF LightOK, LightBelongs, Lights
<1>2. Truthful("value", light.sent)
  BY <1>1 DEF Truthful, Writing, Lights, LightStreams, LightUnary
<1>3. exchange # "light.blocks"
  BY DEF LightOK, LightBelongs, LightStream, LightStreams, LightUnary
<1> QED
  BY <1>1, <1>2, <1>3, LightEnds, LightFails DEF Outcome

\* A decoded item, and the answers to the reads.
LEMMA RepliesKeep ==
    ASSUME LightOK(light), Project \/ TipReply \/ TreeReply \/ UtxosReply \/ TransactionReply
    PROVE  LightOK(light')
<1>1. light \in LightSet /\ light.at \in {"reply", "project"} /\ exchange # "light.send"
      /\ exchange \in Lights /\ light.sent = 1
  BY DEF LightOK, LightBelongs, Project, TipReply, TreeReply, UtxosReply, TransactionReply,
         ReadReply, Awaited, Lights
<1>2. CASE Project
  <2>1. light.at = "project"
    BY <1>2 DEF Project, Awaited
  <2>2. CASE LightStream
    <3> DEFINE then == [light EXCEPT !.at = "item"]
    <3>1. /\ then \in LightSet /\ then.at = "item" /\ then.sent = light.sent
          /\ then.blocks = light.blocks /\ then.foreign = light.foreign
          /\ then.returns = light.returns /\ then.outcome = light.outcome
      BY <1>1 DEF LightSet, LightPlace
    <3> HIDE DEF then
    <3>2. LightBelongs(then) /\ Replies(then)
      BY <1>1, <2>2, <3>1 DEF LightBelongs, Unsent, Replies, LightStream
    <3>3. LightOK(then)
      BY <2>1, <3>1, <3>2, LightGoes
    <3> QED
      BY <1>1, <1>2, <2>2, <3>3, AwaitedKeeps DEF Project, then
  <2>3. CASE ~LightStream
    <3>1. LightOK(LightOver(light, "value"))
      BY <1>1, <2>1, <2>3, LightValue
    <3> QED
      BY <1>1, <1>2, <2>3, <3>1, AwaitedKeeps DEF Project
  <2> QED
    BY <2>2, <2>3
<1>3. CASE TipReply \/ TreeReply \/ UtxosReply \/ TransactionReply
  <2>1. light.at = "reply"
    BY <1>3 DEF TipReply, TreeReply, UtxosReply, TransactionReply, ReadReply, Awaited
  <2>2. LightOK(LightOver(light, "value")) /\ LightOK(LightOver(light, "error"))
    BY <1>1, <2>1, LightValue
  <2>3. CASE TipReply \/ TreeReply \/ UtxosReply
    <3>1. LightOK(Asked)
      BY <2>2 DEF Asked
    <3> QED
      BY <1>1, <2>2, <2>3, <3>1, AwaitedKeeps DEF TipReply, TreeReply, UtxosReply, ReadReply
  <2>4. CASE TransactionReply
    <3> DEFINE then == [light EXCEPT !.at = "project", !.settled = "none"]
    <3>1. /\ then \in LightSet /\ then.at = "project" /\ then.sent = light.sent
          /\ then.blocks = light.blocks /\ then.foreign = light.foreign
          /\ then.returns = light.returns /\ then.outcome = light.outcome
      BY <1>1 DEF LightSet, LightPlace, Settled
    <3> HIDE DEF then
    <3>2. LightBelongs(then) /\ Replies(then)
      BY <1>1, <2>1, <3>1 DEF LightBelongs, Unsent, Replies, LightStream, Lights
    <3>3. LightOK(then)
      BY <2>1, <3>1, <3>2, LightGoes
    <3> DEFINE told == CASE light.settled = "notFound" -> LightOver(light, "value")
                         [] light.settled = "foreign" -> LightOver(light, "error")
                         [] OTHER -> [light EXCEPT !.at = "project", !.settled = "none"]
    <3>4. LightOK(told)
      BY <2>2, <3>3 DEF then
    <3>5. ReadReply("light.transaction", told)
      BY <2>4 DEF TransactionReply
    <3> HIDE DEF told
    <3> QED
      BY <1>1, <2>2, <3>4, <3>5, AwaitedKeeps DEF ReadReply
  <2> QED
    BY <1>3, <2>3, <2>4
<1> QED
  BY <1>2, <1>3

\* The answer to a transaction is what the node did, or unknown (SendReply).
LEMMA SendReplyKeeps == ASSUME LightOK(light), SendReply PROVE LightOK(light')
<1> DEFINE o == IF light.stopped \/ cut \/ light.settled \in {"fault", "malformed"}
                THEN "unknown" ELSE light.settled
<1>1. exchange = "light.send" /\ light.at = "reply" /\ light' = LightOver(light, o)
      /\ (light.settled # "none" \/ light.stopped)
  BY DEF SendReply
<1>2. o \in Outcome /\ Truthful(o, light.sent)
  BY <1>1 DEF LightOK, Replies, Outcome, Truthful, Writing
<1> HIDE DEF o
<1>3. exchange \in Lights /\ exchange # "light.blocks"
  BY <1>1 DEF Lights, LightUnary
<1> QED
  BY <1>1, <1>2, <1>3, LightEnds

\* The application, the transport and the signal.
LEMMA LightOutside ==
    ASSUME LightOK(light),
           LightPull \/ LightReturn \/ Prepared \/ Pushed \/ LightReplied \/ LightAbort
    PROVE  LightOK(light')
<1>1. light \in LightSet
  BY DEF LightOK
<1>2. CASE LightPull
  <2> DEFINE then == [light EXCEPT !.at = "pull", !.settled = "none"]
  <2>1. /\ then \in LightSet /\ then.at = "pull" /\ then.sent = light.sent
        /\ then.blocks = light.blocks /\ then.foreign = light.foreign /\ then.settled = "none"
        /\ then.returns = light.returns /\ then.outcome = light.outcome
    BY <1>1 DEF LightSet, LightPlace, Settled
  <2>2. light.at = "item" /\ exchange \in LightStreams /\ exchange \in Lights
        /\ exchange # "light.send"
    BY <1>2 DEF LightPull, LightOK, LightBelongs, LightStreams, Lights
  <2> HIDE DEF then
  <2>3. LightBelongs(then) /\ Replies(then)
    BY <2>1, <2>2 DEF LightOK, LightBelongs, Unsent, Replies
  <2>4. LightOK(then)
    BY <2>1, <2>2, <2>3, LightGoes
  <2> QED
    BY <1>2, <2>2, <2>4, CheckedKeeps DEF LightPull, then
<1>3. CASE LightReturn
  <2>1. exchange \in Lights /\ exchange # "light.send" /\ light.at # "over"
    BY <1>3 DEF LightReturn, LightStream, LightStreams, Lights
  <2> QED
    BY <1>3, <2>1, LightFails, CancelKeeps DEF LightReturn
<1>4. ASSUME NEW s \in Settled, NEW due \in Blocks \cup {"none", "transaction"},
             light' = [light EXCEPT !.settled = s, !.due = due],
             light.at \in {"identity", "genesis", "decode", "project", "pull", "reply"},
             light.at = "pull" => s \in {"item", "end", "fault", "malformed"},
             light.at = "pull" /\ exchange = "light.blocks" /\ s = "item" => due \in Blocks,
             light.at = "reply" /\ exchange = "light.send" =>
                 /\ s \in {"none", "fault", "malformed", "acknowledged", "rejected"}
                 /\ s = "acknowledged" => served = "accepted"
                 /\ s = "rejected" => served = "refused"
      PROVE  LightOK(light')
  <2>1. /\ light' \in LightSet /\ light'.at = light.at /\ light'.sent = light.sent
        /\ light'.blocks = light.blocks /\ light'.foreign = light.foreign
        /\ light'.returns = light.returns /\ light'.outcome = light.outcome
        /\ light'.settled = s /\ light'.due = due
    BY <1>1, <1>4 DEF LightSet
  <2>2. LightBelongs(light') /\ Replies(light')
    BY <1>4, <2>1 DEF LightOK, LightBelongs, Replies
  <2> QED
    BY <1>4, <2>1, <2>2, LightGoes
<1>5. light.due \in Blocks \cup {"none", "transaction"} /\ "good" \in Settled /\ "bad" \in Settled
      /\ {"item", "end", "fault", "malformed", "acknowledged", "rejected", "value", "foreign",
          "notFound"} \subseteq Settled
  BY <1>1 DEF LightSet, Settled
<1>6. ASSUME NEW s
      PROVE  [light EXCEPT !.settled = s, !.due = light.due] = [light EXCEPT !.settled = s]
  BY <1>1 DEF LightSet
<1>7. CASE Prepared
  <2>1. PICK s \in {"good", "bad"} :
          /\ light.at \in {"identity", "genesis", "decode", "project"}
          /\ light' = [light EXCEPT !.settled = s]
    BY <1>7 DEF Prepared
  <2>2. light' = [light EXCEPT !.settled = s, !.due = light.due]
    BY <1>6, <2>1
  <2> QED
    BY <1>4, <1>5, <2>1, <2>2
<1>8. CASE Pushed
  <2>1. PICK s \in {"item", "end", "fault", "malformed"}, item \in Yielded :
          /\ light.at = "pull"
          /\ light' = [light EXCEPT !.settled = s, !.due = IF s = "item" THEN item ELSE "none"]
    BY <1>8 DEF Pushed
  <2> DEFINE due == IF s = "item" THEN item ELSE "none"
  <2>2. due \in Blocks \cup {"none", "transaction"}
        /\ (exchange = "light.blocks" /\ s = "item" => due \in Blocks)
    BY DEF Yielded
  <2>3. light' = [light EXCEPT !.settled = s, !.due = due]
    BY <2>1
  <2> HIDE DEF due
  <2> QED
    BY <1>4, <1>5, <2>1, <2>2, <2>3
<1>9. CASE LightReplied
  <2>1. PICK s \in LightAnswers \cup {"fault", "malformed"} :
          light.at = "reply" /\ light' = [light EXCEPT !.settled = s]
    BY <1>9 DEF LightReplied
  <2>2. s \in {"fault", "malformed", "acknowledged", "rejected", "value", "foreign", "notFound"}
        /\ (exchange = "light.send" =>
              /\ s \in {"none", "fault", "malformed", "acknowledged", "rejected"}
              /\ s = "acknowledged" => served = "accepted"
              /\ s = "rejected" => served = "refused")
    BY <2>1 DEF LightAnswers
  <2>3. light' = [light EXCEPT !.settled = s, !.due = light.due]
    BY <1>6, <2>1
  <2>4. s \in Settled
    BY <1>5, <2>2
  <2>5. light.at = "reply" /\ light.due \in Blocks \cup {"none", "transaction"}
    BY <1>5, <2>1
  <2>6. light.at \in {"identity", "genesis", "decode", "project", "pull", "reply"}
        /\ light.at # "pull"
    BY <2>5
  <2> QED
    BY ONLY <1>4, <2>2, <2>3, <2>4, <2>5, <2>6
<1>10. CASE LightAbort
  BY <1>10, CancelKeeps DEF LightAbort
<1> QED
  BY <1>2, <1>3, <1>7, <1>8, <1>9, <1>10

\* What the server makes of the transaction later contradicts nothing that was told.
LEMMA LightServed == ASSUME LightOK(light), LightServe PROVE LightOK(light)'
<1>1. light' = light /\ exchange' = exchange /\ served = "none"
  BY DEF LightServe, Serve
<1>2. /\ LightBelongs(light)' /\ Linked(light.blocks)' /\ GivenOn(light)' = GivenOn(light)
      /\ Replies(light)' /\ (light.at = "over" => Truthful(light.outcome, light.sent)')
  BY <1>1 DEF LightOK, LightBelongs, Linked, GivenOn, Owned, Replies, Truthful, Writing
<1> QED
  BY <1>1, <1>2 DEF LightOK

\* No step of a call of the light client leaves what is known of it (LightNext).
LEMMA LightStepOK == ASSUME LightOK(light), LightNext PROVE LightOK(light)'
<1>1. CASE LightServe
  BY <1>1, LightServed
<1>2. CASE ~LightServe
  <2>1. exchange' = exchange /\ served' = served
    BY <1>2 DEF LightNext, LightStep, LightPull, LightReturn, Prepared, Pushed, LightReplied,
       LightAbort, caller, LightRefused, LightOpen, Identity, Genesis, Verified, DecodeTransaction,
       CallTransport, Iterable, Iterator, Pulled, Project, TipReply, TreeReply, UtxosReply,
       TransactionReply, SendReply, ReadReply, Awaited
  <2>2. LightOK(light')
    BY <1>2, LightOpens, LightCalls, PulledKeeps, RepliesKeep, SendReplyKeeps, LightOutside
       DEF LightNext, LightStep
  <2> QED
    BY <2>1, <2>2 DEF LightOK, LightBelongs, Linked, GivenOn, Owned, Replies, Truthful, Writing
<1> QED
  BY <1>1, <1>2

\* A client that has made no call (LightInit).
LEMMA LightInitOK == ASSUME LightInit PROVE LightOK(light)
<1>1. PICK alike \in BOOLEAN, verified \in BOOLEAN :
        light = [at |-> "idle", open |-> {}, stopped |-> FALSE, settled |-> "none",
                 due |-> "none", foreign |-> {}, alike |-> alike, returns |-> <<>>, blocks |-> <<>>,
                 verified |-> verified, sent |-> 0, outcome |-> "none"]
  BY DEF LightInit
<1>2. <<>> \in Seq(Objects) /\ <<>> \in Seq(Blocks) /\ Len(<<>>) = 0 /\ DOMAIN <<>> = {}
  OBVIOUS
<1>3. light \in LightSet
  BY <1>1, <1>2 DEF LightSet, LightPlace, Settled, Outcome, Layers, Objects
<1>4. Linked(light.blocks) /\ IsInjective(light.returns)
  BY <1>1, <1>2, RangeAssumption DEF Linked, IsInjective
<1> QED
  BY <1>1, <1>3, <1>4 DEF LightOK, LightBelongs, Replies, Unsent

\* The two properties about the light client follow.
LEMMA LightExact == ASSUME LightOK(light) PROVE BlocksLinked /\ IteratorsGivenBack
<1>1. BlocksLinked
  BY DEF LightOK, BlocksLinked, Linked
<1>2. IteratorsGivenBack
  BY DEF LightOK, IteratorsGivenBack, GivenOn, Owned
<1> QED
  BY <1>1, <1>2

-----------------------------------------------------------------------------
(* The artifacts of the runtime (ArtifactLoad) *)

\* Where an acquisition may be, the awaits at which its owner may abort it, those of the
\* start, and what it may keep.
ArtPlace ==
    {"idle", "fetch", "body", "digest", "modules", "staged", "starting", "over"}
Acquiring == {"fetch", "body", "digest"}
Starts == {"modules", "staged", "starting"}
Kept == {"startup", "timer", "listener", "body", "bytes", "directory"}
ArtSettled == {"none", "good", "bad", "pinned", "other", "done"}
ArtSet ==
    [at : ArtPlace, inventory : Inventories, item : Nat, size : Nat, altered : BOOLEAN,
     settled : ArtSettled, late : BOOLEAN, orphans : Nat, sent : Nat, stopped : BOOLEAN,
     expired : BOOLEAN, kept : SUBSET Nat, held : SUBSET Kept, staged : BOOLEAN,
     outcome : Outcome]

\* The bytes that were read last are the pinned ones.
GenuineOf(a) ==
    ~a.altered /\ a.size = (IF a.item = 0 THEN 1 ELSE a.inventory.files[a.item].bytes)

\* The files are read in their order, and what is held and kept says how far.
ArtPart(a) ==
    /\ a.at = "idle" => a.item = 0 /\ a.sent = 0 /\ a.held = {} /\ a.kept = {} /\ ~a.staged
    /\ a.at \in Acquiring =>
          /\ a.sent = a.item + 1 /\ {"startup", "timer", "listener"} \subseteq a.held
          /\ "directory" \notin a.held /\ ~a.staged /\ (cut => a.stopped)
          /\ a.at = "digest" => "body" \notin a.held /\ a.kept = 0..a.item
          /\ a.at # "digest" => a.kept = 0..a.item - 1
    /\ a.at \in Starts =>
          /\ a.item = Len(a.inventory.files) /\ a.sent = a.item + 1 /\ a.kept = 0..a.item
          /\ a.held \subseteq {"startup", "bytes", "directory"}
          /\ Reviewed(a.inventory) /\ GenuineOf(a)
          /\ a.at = "modules" => "directory" \notin a.held /\ ~a.staged
    /\ a.at = "over" =>
          /\ a.held = {} /\ a.kept = {}
          /\ a.outcome = "error" \/ (a.outcome = "value" /\ a.sent > 0)
    /\ a.at # "over" => a.outcome = "none"

\* What is known of an acquisition: the files up to the one in work are the declared ones,
\* and what is staged was reviewed and verified as a whole.
ArtOK(a) ==
    /\ a \in ArtSet
    /\ a.at # "idle" => Loading
    /\ ArtPart(a)
    /\ a.item <= Len(a.inventory.files)
    /\ a.item > 0 => Admissible(a.inventory)
    /\ a.staged => Reviewed(a.inventory) /\ GenuineOf(a)

\* The files of a manifest are a sequence, and have sizes (Inventories).
LEMMA FilesType ==
    ASSUME NEW inventory \in Inventories
    PROVE  /\ Len(inventory.files) \in Nat
           /\ DOMAIN inventory.files = 1..Len(inventory.files)
           /\ inventory.files # <<>> => Len(inventory.files) > 0
           /\ \A i \in DOMAIN inventory.files : inventory.files[i].bytes \in Nat
<1> DEFINE Entry == [url : STRING, kind : STRING, bytes : Nat, confined : BOOLEAN,
                    reviewed : BOOLEAN]
           files == inventory.files
<1>1. files \in Seq(Entry)
  BY InventoriesAssumption
<1>2. \A file \in Entry : file.bytes \in Nat
  OBVIOUS
<1> HIDE DEF Entry, files
<1>3. Len(files) \in Nat /\ DOMAIN files = 1..Len(files) /\ (files # <<>> => Len(files) > 0)
      /\ \A i \in DOMAIN files : files[i] \in Entry
  BY <1>1
<1> QED
  BY <1>2, <1>3 DEF files

-----------------------------------------------------------------------------

\* The sums of the sizes of the files S, by recursion over the set.
SumsOf(files, S, g) ==
    g = [s \in SUBSET S |-> IF s = {} THEN 0
                            ELSE LET x == CHOOSE x \in s : TRUE
                                 IN  files[x].bytes + g[s \ {x}]]
FileBytes(files, S) == (CHOOSE g : SumsOf(files, S, g))[S]

\* The sizes of a policy bound every part of the files (SizesFit).
LEMMA FitsBytes ==
    ASSUME NEW files, SizesFit(files), NEW i \in DOMAIN files
    PROVE  FileBytes(files, 1..i) <= MaxTotalBytes
BY DEF SizesFit, MapThenSumSet, MapThenFoldSet, FileBytes, SumsOf

\* What the manifest declares is that sum (DeclaredBytes).
LEMMA DeclaredSum ==
    ASSUME NEW S
    PROVE  MapThenSumSet(DeclaredBytes, S) = FileBytes(Files, S)
BY DEF MapThenSumSet, MapThenFoldSet, FileBytes, SumsOf, DeclaredBytes

\* No file has no bytes.
LEMMA NoBytes == ASSUME NEW files PROVE FileBytes(files, {}) = 0
<1> DEFINE h == [s \in SUBSET {} |-> 0]
           g == CHOOSE g : SumsOf(files, {}, g)
<1>1. SumsOf(files, {}, h)
  BY DEF SumsOf
<1>2. SumsOf(files, {}, g)
  BY <1>1
<1> HIDE DEF g
<1>3. g[{}] = 0
  BY <1>2 DEF SumsOf
<1> QED
  BY <1>3 DEF FileBytes, g

\* What is known of an acquisition gives its property: nothing is used before all of it is
\* verified.
LEMMA ArtExact == ASSUME ArtOK(art) PROVE ArtifactsVerified
<1>1. art \in ArtSet /\ art.inventory \in Inventories /\ art.item \in Nat
  BY DEF ArtOK, ArtSet
<1>2. Genuine <=> GenuineOf(art)
  BY DEF Genuine, GenuineOf, DeclaredBytes, Files
<1>3. MapThenSumSet(DeclaredBytes, art.kept \ {0}) <= MaxTotalBytes
  <2>1. SUFFICES FileBytes(Files, art.kept \ {0}) <= MaxTotalBytes
    BY DeclaredSum
  <2>2. CASE art.kept \ {0} = {}
    BY <2>2, NoBytes, PolicyAssumption
  <2>3. ASSUME NEW m \in 1..art.item, art.kept = 0..m
        PROVE  FileBytes(Files, art.kept \ {0}) <= MaxTotalBytes
    <3>1. art.kept \ {0} = 1..m
      BY <1>1, <2>3
    <3>2. SizesFit(Files)
      BY <1>1, <2>3 DEF ArtOK, Admissible, Files
    <3>3. m \in DOMAIN Files
      BY <1>1, <2>3, FilesType DEF ArtOK, Files
    <3> QED
      BY <3>1, <3>2, <3>3, FitsBytes
  <2>4. art.kept = {} \/ art.kept = 0..art.item \/ art.kept = 0..art.item - 1
    BY <1>1 DEF ArtOK, ArtPart, ArtSet, ArtPlace, Acquiring, Starts
  <2>5. CASE art.kept = 0..art.item /\ art.item > 0
    <3>1. art.item \in 1..art.item
      BY <1>1, <2>5
    <3> QED
      BY <2>3, <2>5, <3>1
  <2>6. CASE art.kept = 0..art.item - 1 /\ art.item > 1
    <3>1. art.item - 1 \in 1..art.item
      BY <1>1, <2>6
    <3> QED
      BY <2>3, <2>6, <3>1
  <2>7. CASE (art.kept = 0..art.item /\ art.item = 0) \/ (art.kept = 0..art.item - 1 /\ art.item <= 1)
             \/ art.kept = {}
    <3>1. art.kept \ {0} = {}
      BY <1>1, <2>7
    <3> QED
      BY <2>2, <3>1
  <2> QED
    BY <1>1, <2>4, <2>5, <2>6, <2>7
<1> QED
  BY <1>2, <1>3 DEF ArtOK, ArtPart, ArtifactsVerified, Starts, Files

-----------------------------------------------------------------------------

\* A failure gives up whatever is kept, at any place but one where the directory is kept
\* (Fail).
LEMMA ArtFails ==
    ASSUME NEW a, ArtOK(a), Loading, "directory" \in a.held => a.at = "starting"
    PROVE  ArtOK(Fail(a))
<1> DEFINE q == Fail(a)
<1>1. a \in ArtSet
  BY DEF ArtOK
<1>2. /\ q = [a EXCEPT !.at = "over", !.outcome = "error", !.staged = FALSE, !.kept = {},
                       !.held = q.held]
      /\ q.held = {}
  <2>1. /\ Unread(a) \in ArtSet /\ Unread(a) = [a EXCEPT !.held = a.held \ {"body"}]
        /\ Unread(a).held = a.held \ {"body"} /\ Unread(a).at = a.at
    BY <1>1 DEF Unread, ArtSet
  <2> DEFINE quiet == Quieted(Unread(a))
  <2>2. /\ quiet = [a EXCEPT !.held = a.held \ {"body", "timer", "listener"}] /\ quiet \in ArtSet
        /\ quiet.held = a.held \ {"body", "timer", "listener"} /\ quiet.at = a.at
    <3>1. (a.held \ {"body"}) \ {"timer", "listener"} = a.held \ {"body", "timer", "listener"}
      OBVIOUS
    <3>2. quiet = [Unread(a) EXCEPT !.held = a.held \ {"body", "timer", "listener"}]
      BY <2>1, <3>1 DEF Quieted
    <3>3. quiet = [a EXCEPT !.held = a.held \ {"body", "timer", "listener"}]
      BY <1>1, <2>1, <3>2 DEF ArtSet
    <3>4. a.held \ {"body", "timer", "listener"} \in SUBSET Kept
      BY <1>1 DEF ArtSet
    <3> HIDE DEF quiet
    <3> QED
      BY <1>1, <3>3, <3>4 DEF ArtSet
  <2> HIDE DEF quiet
  <2> DEFINE thrown == Discarded(quiet)
  <2>3. /\ thrown = [a EXCEPT !.held = a.held \ {"body", "timer", "listener", "bytes"}, !.kept = {}]
        /\ thrown.held = a.held \ {"body", "timer", "listener", "bytes"} /\ thrown \in ArtSet
    <3>1. (a.held \ {"body", "timer", "listener"}) \ {"bytes"}
            = a.held \ {"body", "timer", "listener", "bytes"}
      OBVIOUS
    <3>2. thrown = [quiet EXCEPT !.held = a.held \ {"body", "timer", "listener", "bytes"}, !.kept = {}]
      BY <2>2, <3>1 DEF Discarded
    <3>3. thrown = [a EXCEPT !.held = a.held \ {"body", "timer", "listener", "bytes"}, !.kept = {}]
      BY <1>1, <2>2, <3>2 DEF ArtSet
    <3>4. a.held \ {"body", "timer", "listener", "bytes"} \in SUBSET Kept /\ {} \in SUBSET Nat
      BY <1>1 DEF ArtSet
    <3> HIDE DEF thrown
    <3> QED
      BY <1>1, <3>3, <3>4 DEF ArtSet
  <2>4. q = [thrown EXCEPT !.at = "over", !.outcome = "error", !.staged = @ /\ FALSE,
                           !.held = @ \ ({"startup"} \cup IF a.at = "starting" THEN {"directory"}
                                                          ELSE {})]
    BY <2>2 DEF Fail, StartEnds, quiet
  <2> HIDE DEF thrown, q
  <2>5. thrown.held \ ({"startup"} \cup IF a.at = "starting" THEN {"directory"} ELSE {}) = {}
    BY <1>1, <2>3 DEF ArtSet, Kept
  <2>6. q = [thrown EXCEPT !.at = "over", !.outcome = "error", !.staged = FALSE, !.held = {}]
    BY <2>3, <2>4, <2>5 DEF ArtSet
  <2>7. q.held = {}
    BY <2>3, <2>6 DEF ArtSet
  <2> QED
    BY <1>1, <2>3, <2>6, <2>7 DEF ArtSet
<1> HIDE DEF q
<1>3. /\ q \in ArtSet /\ q.at = "over" /\ q.outcome = "error" /\ q.staged = FALSE /\ q.kept = {}
      /\ q.held = {} /\ q.inventory = a.inventory /\ q.item = a.item
  BY <1>1, <1>2 DEF ArtSet, ArtPlace, Outcome
<1>4. ArtPart(q)
  BY <1>3 DEF ArtPart, Acquiring, Starts
<1> QED
  BY <1>3, <1>4 DEF ArtOK, q

\* The next file is asked for: those before it are kept.
LEMMA FileIsRead ==
    ASSUME NEW a \in ArtSet, Loading, NEW i \in Nat, a.sent = i, i <= Len(a.inventory.files),
           i > 0 => Admissible(a.inventory), a.kept = 0..i - 1, "directory" \notin a.held,
           {"startup", "timer", "listener"} \subseteq a.held, ~a.staged, cut => a.stopped,
           a.outcome = "none"
    PROVE  ArtOK(ReadFile(a, i))
<1> DEFINE q == ReadFile(a, i)
<1>1. /\ q \in ArtSet /\ q.at = "fetch" /\ q.item = i /\ q.sent = i + 1 /\ q.kept = a.kept
      /\ q.held = a.held /\ q.inventory = a.inventory /\ q.staged = a.staged
      /\ q.stopped = a.stopped /\ q.outcome = a.outcome
  <2>1. "fetch" \in ArtPlace /\ "none" \in ArtSettled /\ 0 \in Nat /\ a.sent + 1 \in Nat
        /\ a.sent + 1 = i + 1
    BY DEF ArtPlace, ArtSettled
  <2> QED
    BY <2>1 DEF ArtSet, ReadFile
<1> HIDE DEF q
<1>2. ArtPart(q)
  BY <1>1 DEF ArtPart, Acquiring, Starts
<1> QED
  BY <1>1, <1>2 DEF ArtOK, q

\* What an await of the acquisition makes of it, unless it was stopped.
LEMMA ArtAwaitedKeeps ==
    ASSUME NEW at \in Acquiring, NEW then, ArtOK(art), ArtAwaited(at, then),
           ~art.stopped => ArtOK(then)
    PROVE  ArtOK(art')
<1>1. art \in ArtSet /\ art.at = at /\ Loading /\ "directory" \notin art.held
  BY DEF ArtOK, ArtPart, ArtAwaited, Acquiring
<1>2. ArtOK(Fail(art))
  BY <1>1, ArtFails
<1> DEFINE left == [art EXCEPT !.orphans = @ + 1]
<1>3. /\ left \in ArtSet /\ left.at = art.at /\ left.item = art.item /\ left.sent = art.sent
      /\ left.kept = art.kept /\ left.held = art.held /\ left.inventory = art.inventory
      /\ left.staged = art.staged /\ left.stopped = art.stopped /\ left.outcome = art.outcome
      /\ left.size = art.size /\ left.altered = art.altered
  BY <1>1 DEF ArtSet
<1> HIDE DEF left
<1>4. ArtPart(left)
  BY <1>3 DEF ArtOK, ArtPart, GenuineOf
<1>5. ArtOK(left)
  BY <1>3, <1>4 DEF ArtOK, GenuineOf
<1>6. ArtOK(Fail(left))
  BY <1>1, <1>3, <1>5, ArtFails
<1> QED
  BY <1>2, <1>6 DEF ArtAwaited, left

\* A file is asked for, answered and read.
LEMMA ArtReads ==
    ASSUME ArtOK(art), ArtRefused \/ ArtRequest \/ ArtFetched \/ ArtRead
    PROVE  ArtOK(art')
<1>1. art \in ArtSet
  BY DEF ArtOK
<1>2. CASE ArtRefused
  <2>1. ArtOK(Fail(art))
    BY <1>2, ArtFails DEF ArtRefused, ArtOK, ArtPart
  <2> QED
    BY <1>2, <2>1 DEF ArtRefused
<1>3. CASE ArtRequest
  <2>1. Loading /\ art.at = "idle" /\ ArtOK(Fail(art))
    BY <1>3, ArtFails DEF ArtRequest, ArtOK, ArtPart
  <2> DEFINE a == [art EXCEPT !.held = {"startup", "timer", "listener"}]
  <2>2. /\ a \in ArtSet /\ a.sent = art.sent /\ a.kept = art.kept /\ a.inventory = art.inventory
        /\ a.held = {"startup", "timer", "listener"} /\ a.staged = art.staged
        /\ a.outcome = art.outcome
    <3>1. {"startup", "timer", "listener"} \in SUBSET Kept
      BY DEF Kept
    <3> QED
      BY <1>1, <3>1 DEF ArtSet
  <2>3. a.sent = 0 /\ a.kept = 0..0 - 1 /\ 0 <= Len(a.inventory.files) /\ ~a.staged
        /\ a.outcome = "none"
    BY <1>1, <2>1, <2>2, FilesType DEF ArtOK, ArtPart, ArtSet
  <2> HIDE DEF a
  <2>4. CASE ~cut
    <3>1. /\ ArtOK(ReadFile(a, 0))
      <4>1. "directory" \notin a.held /\ {"startup", "timer", "listener"} \subseteq a.held
            /\ (0 > 0 => Admissible(a.inventory)) /\ 0 \in Nat
        BY <2>2
      <4> QED
        BY <2>1, <2>2, <2>3, <2>4, <4>1, FileIsRead
    <3> QED
      BY <1>3, <2>4, <3>1 DEF ArtRequest, a
  <2> QED
    BY <1>3, <2>1, <2>4 DEF ArtRequest
<1>4. CASE ArtFetched
  <2> DEFINE held == art.held \cup {"bytes"}
             q == [art EXCEPT !.at = "body", !.settled = "none", !.held = held]
  <2>1. art.at = "fetch" /\ held \in SUBSET Kept
    BY <1>1, <1>4 DEF ArtFetched, ArtAwaited, ArtSet, Kept
  <2>2. /\ q \in ArtSet /\ q.at = "body" /\ q.item = art.item /\ q.sent = art.sent
        /\ q.kept = art.kept /\ q.held = held /\ q.inventory = art.inventory
        /\ q.staged = art.staged /\ q.stopped = art.stopped /\ q.outcome = art.outcome
    <3> HIDE DEF held
    <3> QED
      BY <1>1, <2>1 DEF ArtSet, ArtPlace, ArtSettled
  <2> HIDE DEF q
  <2>3. ArtOK(q)
    BY <2>1, <2>2 DEF ArtOK, ArtPart, Acquiring, Starts
  <2>4. ArtAwaited("fetch", q) /\ "fetch" \in Acquiring
    BY <1>4 DEF ArtFetched, q, Acquiring
  <2> QED
    BY <2>3, <2>4, ArtAwaitedKeeps
<1>5. CASE ArtRead
  <2> DEFINE read == [Unread(art) EXCEPT !.at = "digest", !.settled = "none",
                                         !.kept = @ \cup {art.item}]
             more == [art EXCEPT !.size = @ + 1, !.settled = "none",
                                 !.altered = @ \/ art.settled = "other"]
             then == IF art.settled = "done"
                     THEN IF art.item > 0 /\ art.size # Room THEN Fail(art) ELSE read
                     ELSE IF art.size + 1 > Room THEN Fail(art) ELSE more
  <2>1. art.at = "body" /\ Loading /\ ArtOK(Fail(art))
    BY <1>5, ArtFails DEF ArtRead, ArtAwaited, ArtOK, ArtPart, Acquiring
  <2>2. ArtOK(more)
    <3>1. /\ more \in ArtSet /\ more.at = "body" /\ more.item = art.item /\ more.sent = art.sent
          /\ more.kept = art.kept /\ more.held = art.held /\ more.inventory = art.inventory
          /\ more.staged = art.staged /\ more.stopped = art.stopped /\ more.outcome = art.outcome
      <4>1. art.size + 1 \in Nat /\ (art.altered \/ art.settled = "other") \in BOOLEAN
        BY <1>1 DEF ArtSet
      <4> QED
        BY <1>1, <2>1, <4>1 DEF ArtSet, ArtSettled
    <3> HIDE DEF more
    <3> QED
      BY <2>1, <3>1 DEF ArtOK, ArtPart, Acquiring, Starts
  <2>3. ArtOK(read)
    <3> DEFINE held == art.held \ {"body"}
               kept == art.kept \cup {art.item}
    <3>1. held \in SUBSET Kept /\ kept \in SUBSET Nat
      BY <1>1 DEF ArtSet
    <3>2. read = [art EXCEPT !.at = "digest", !.settled = "none", !.kept = kept, !.held = held]
      BY <1>1 DEF ArtSet, Unread
    <3>3. kept = 0..art.item
      BY <1>1, <2>1 DEF ArtOK, ArtPart, Acquiring, ArtSet
    <3>4. held = art.held \ {"body"}
      OBVIOUS
    <3> HIDE DEF held, kept, read
    <3>5. /\ read \in ArtSet /\ read.at = "digest" /\ read.item = art.item /\ read.sent = art.sent
          /\ read.kept = kept /\ read.held = held /\ read.inventory = art.inventory
          /\ read.staged = art.staged /\ read.stopped = art.stopped /\ read.outcome = art.outcome
      BY <1>1, <3>1, <3>2 DEF ArtSet, ArtPlace, ArtSettled
    <3> QED
      BY <2>1, <3>3, <3>4, <3>5 DEF ArtOK, ArtPart, Acquiring, Starts
  <2>4. ArtOK(then)
    BY <2>1, <2>2, <2>3
  <2>5. ArtAwaited("body", then) /\ "body" \in Acquiring
    BY <1>5 DEF ArtRead, Acquiring
  <2> HIDE DEF then
  <2> QED
    BY <2>4, <2>5, ArtAwaitedKeeps
<1> QED
  BY <1>2, <1>3, <1>4, <1>5

\* A file has been verified: the next one, or the start with all of them.
LEMMA ArtDigestedKeeps == ASSUME ArtOK(art), ArtDigested PROVE ArtOK(art')
<1> DEFINE then ==
        CASE ~Genuine -> Fail(art)
          [] Genuine /\ art.item = 0 ->
                IF Admissible(art.inventory) THEN ReadFile(art, 1) ELSE Fail(art)
          [] Genuine /\ art.item \in 1..(Len(Files) - 1) -> ReadFile(art, art.item + 1)
          [] OTHER -> Acquired(art)
<1>1. /\ art \in ArtSet /\ art.at = "digest" /\ Loading /\ art.inventory \in Inventories
      /\ art.item \in Nat /\ "digest" \in Acquiring
  BY DEF ArtOK, ArtDigested, ArtAwaited, ArtSet, Acquiring
<1>2. ArtOK(Fail(art))
  BY <1>1, ArtFails DEF ArtOK, ArtPart, Acquiring
<1>3. Len(Files) \in Nat /\ (Files # <<>> => Len(Files) > 0) /\ art.item <= Len(Files)
  BY <1>1, FilesType DEF Files, ArtOK
<1>4. ASSUME Admissible(art.inventory), art.item + 1 <= Len(Files)
      PROVE  ArtOK(ReadFile(art, art.item + 1))
  <2>1. art.sent = art.item + 1 /\ art.kept = 0..(art.item + 1) - 1 /\ art.item + 1 \in Nat
    BY <1>1 DEF ArtOK, ArtPart, Acquiring
  <2>2. /\ "directory" \notin art.held /\ {"startup", "timer", "listener"} \subseteq art.held
        /\ ~art.staged /\ (cut => art.stopped) /\ art.outcome = "none"
    BY <1>1 DEF ArtOK, ArtPart, Acquiring
  <2> QED
    BY <1>1, <1>4, <2>1, <2>2, FileIsRead DEF Files
<1>5. CASE ~Genuine
  BY <1>1, <1>2, <1>5, ArtAwaitedKeeps DEF ArtDigested
<1>6. CASE Genuine /\ art.item = 0
  <2>1. then = IF Admissible(art.inventory) THEN ReadFile(art, 1) ELSE Fail(art)
    BY <1>6
  <2>2. Admissible(art.inventory) => ArtOK(ReadFile(art, 1))
    BY <1>3, <1>4, <1>6 DEF Admissible, WellFormed, Files
  <2> HIDE DEF then
  <2>3. ArtOK(then)
    BY <1>2, <2>1, <2>2
  <2> QED
    BY <1>1, <2>3, ArtAwaitedKeeps DEF ArtDigested, then
<1>7. CASE Genuine /\ art.item \in 1..(Len(Files) - 1)
  <2>1. then = ReadFile(art, art.item + 1) /\ art.item > 0
    BY <1>7
  <2>2. ArtOK(ReadFile(art, art.item + 1))
    BY <1>1, <1>3, <1>4, <1>7, <2>1 DEF ArtOK
  <2> HIDE DEF then
  <2> QED
    BY <1>1, <2>1, <2>2, ArtAwaitedKeeps DEF ArtDigested, then
<1>8. CASE Genuine /\ art.item # 0 /\ art.item \notin 1..(Len(Files) - 1)
  <2>1. then = Acquired(art) /\ art.item = Len(Files)
    BY <1>1, <1>3, <1>8
  <2> DEFINE q == [Quieted(art) EXCEPT !.at = "modules", !.settled = "none"]
             held == art.held \ {"timer", "listener"}
  <2>2. ASSUME Reviewed(art.inventory)
        PROVE  ArtOK(q)
    <3>1. held \in SUBSET Kept /\ held \subseteq {"startup", "bytes", "directory"}
          /\ "directory" \notin held
      BY <1>1 DEF ArtSet, Kept, ArtOK, ArtPart, Acquiring
    <3>2. q = [art EXCEPT !.at = "modules", !.settled = "none", !.held = held]
      BY <1>1 DEF ArtSet, Quieted
    <3> HIDE DEF q, held
    <3>3. /\ q \in ArtSet /\ q.at = "modules" /\ q.item = art.item /\ q.sent = art.sent
          /\ q.kept = art.kept /\ q.held = held /\ q.inventory = art.inventory
          /\ q.staged = art.staged /\ q.outcome = art.outcome
          /\ q.size = art.size /\ q.altered = art.altered
      BY <1>1, <3>1, <3>2 DEF ArtSet, ArtPlace, ArtSettled
    <3>4. GenuineOf(q)
      BY <1>8, <3>3 DEF Genuine, GenuineOf, DeclaredBytes, Files
    <3>5. art.sent = art.item + 1 /\ art.kept = 0..art.item /\ ~art.staged
          /\ art.outcome = "none"
      BY <1>1 DEF ArtOK, ArtPart, Acquiring
    <3>6. ArtPart(q)
      BY <2>1, <2>2, <3>1, <3>3, <3>4, <3>5 DEF ArtPart, Acquiring, Starts, Files
    <3> QED
      BY <1>1, <3>3, <3>5, <3>6 DEF ArtOK
  <2>3. ArtOK(Acquired(art))
    BY <1>2, <2>2 DEF Acquired
  <2> HIDE DEF then
  <2> QED
    BY <1>1, <2>1, <2>3, ArtAwaitedKeeps DEF ArtDigested, then
<1> QED
  BY <1>5, <1>6, <1>7, <1>8

\* The workers are staged and spawned, or the start is over.
LEMMA ArtStarts ==
    ASSUME ArtOK(art), Stages \/ Spawns \/ StartStopped \/ WorkerAnswers
    PROVE  ArtOK(art')
<1>1. /\ art \in ArtSet /\ Loading /\ art.at \in Starts
      /\ art.item = Len(art.inventory.files) /\ art.sent = art.item + 1 /\ art.kept = 0..art.item
      /\ art.held \subseteq {"startup", "bytes", "directory"}
      /\ Reviewed(art.inventory) /\ GenuineOf(art) /\ art.outcome = "none"
      /\ art.item \in Nat
  BY DEF ArtOK, ArtPart, Stages, Spawns, StartStopped, WorkerAnswers, Starts, ArtSet
<1>2. ASSUME NEW q \in ArtSet, q.item = art.item, q.sent = art.sent, q.inventory = art.inventory,
             q.kept = art.kept, q.size = art.size, q.altered = art.altered, q.outcome = "none",
             q.at \in {"staged", "starting"}, q.held \subseteq {"startup", "bytes", "directory"}
      PROVE  ArtOK(q)
  <2>1. GenuineOf(q)
    BY <1>1, <1>2 DEF GenuineOf
  <2>2. ArtPart(q)
    BY <1>1, <1>2, <2>1 DEF ArtPart, Starts, Acquiring
  <2> QED
    BY <1>1, <1>2, <2>1, <2>2 DEF ArtOK
<1>3. CASE Stages
  <2>1. art.at = "modules" /\ "directory" \notin art.held
    BY <1>3 DEF Stages, ArtOK, ArtPart, Starts
  <2>2. ArtOK(Fail(art))
    BY <1>1, <2>1, ArtFails
  <2> DEFINE held == art.held \cup {"directory"}
             q == [art EXCEPT !.at = "staged", !.held = held, !.staged = TRUE]
  <2>3. held \in SUBSET Kept /\ held \subseteq {"startup", "bytes", "directory"}
    BY <1>1 DEF Kept
  <2> HIDE DEF held
  <2>4. /\ q \in ArtSet /\ q.item = art.item /\ q.sent = art.sent /\ q.inventory = art.inventory
        /\ q.kept = art.kept /\ q.size = art.size /\ q.altered = art.altered
        /\ q.outcome = art.outcome /\ q.at = "staged" /\ q.held = held
    BY <1>1, <2>3 DEF ArtSet, ArtPlace
  <2> HIDE DEF q
  <2>5. ArtOK(q)
    BY <1>1, <1>2, <2>3, <2>4
  <2> QED
    BY <1>3, <2>2, <2>5 DEF Stages, q, held
<1>4. CASE Spawns
  <2>1. art.at = "staged"
    BY <1>4 DEF Spawns
  <2> DEFINE held == art.held \ {"directory"}
             bare == [art EXCEPT !.held = held]
             q == [art EXCEPT !.at = "starting"]
  <2>2. held \in SUBSET Kept /\ held \subseteq {"startup", "bytes", "directory"}
        /\ "directory" \notin held
    BY <1>1 DEF Kept
  <2> HIDE DEF held
  <2>3. /\ bare \in ArtSet /\ bare.item = art.item /\ bare.sent = art.sent
        /\ bare.inventory = art.inventory /\ bare.kept = art.kept /\ bare.size = art.size
        /\ bare.altered = art.altered /\ bare.outcome = art.outcome /\ bare.at = "staged"
        /\ bare.held = held
    BY <1>1, <2>1, <2>2 DEF ArtSet, ArtPlace
  <2>4. /\ q \in ArtSet /\ q.item = art.item /\ q.sent = art.sent /\ q.inventory = art.inventory
        /\ q.kept = art.kept /\ q.size = art.size /\ q.altered = art.altered
        /\ q.outcome = art.outcome /\ q.at = "starting" /\ q.held = art.held
    BY <1>1 DEF ArtSet, ArtPlace
  <2> HIDE DEF q, bare
  <2>5. ArtOK(q)
    BY <1>1, <1>2, <2>4
  <2>6. ArtOK(bare)
    BY <1>1, <1>2, <2>2, <2>3
  <2>7. ArtOK(Fail(bare))
    BY <1>1, <2>2, <2>3, <2>6, ArtFails
  <2> QED
    BY <1>4, <2>5, <2>7 DEF Spawns, q, bare, held
<1>5. CASE StartStopped
  BY <1>1, <1>5, ArtFails DEF StartStopped
<1>6. CASE WorkerAnswers
  <2>1. art.at = "starting" /\ ArtOK(Fail(art))
    BY <1>1, <1>6, ArtFails DEF WorkerAnswers
  <2> DEFINE q == StartEnds(art, "value")
             held == (art.held \ {"bytes"}) \ ({"startup"} \cup IF art.at = "starting"
                                                               THEN {"directory"} ELSE {})
  <2>2. held = {}
    BY <1>1, <2>1
  <2>3. Discarded(art) = [art EXCEPT !.held = art.held \ {"bytes"}, !.kept = {}]
    BY DEF Discarded
  <2>4. q = [art EXCEPT !.at = "over", !.outcome = "value", !.staged = art.staged, !.kept = {},
                        !.held = held]
    BY <1>1, <2>3 DEF StartEnds, ArtSet
  <2> HIDE DEF held, q
  <2>5. /\ q \in ArtSet /\ q.at = "over" /\ q.outcome = "value" /\ q.staged = art.staged
        /\ q.kept = {} /\ q.held = {} /\ q.item = art.item /\ q.sent = art.sent
        /\ q.inventory = art.inventory /\ q.size = art.size /\ q.altered = art.altered
    <3>1. {} \in SUBSET Kept /\ {} \in SUBSET Nat /\ art.staged \in BOOLEAN
      BY <1>1 DEF ArtSet
    <3> QED
      BY <1>1, <2>2, <2>4, <3>1 DEF ArtSet, ArtPlace, Outcome
  <2>6. GenuineOf(q)
    BY <1>1, <2>5 DEF GenuineOf
  <2>7. ArtPart(q)
    BY <1>1, <2>5 DEF ArtPart, Starts, Acquiring
  <2>8. ArtOK(q)
    BY <1>1, <2>5, <2>6, <2>7 DEF ArtOK
  <2> QED
    BY <1>6, <2>1, <2>8 DEF WorkerAnswers, q
<1> QED
  BY <1>3, <1>4, <1>5, <1>6

\* The servers and the clocks, which disturb nothing that is kept.
LEMMA ArtGoes ==
    ASSUME ArtOK(art), NEW q \in ArtSet, q.at = art.at, q.item = art.item, q.sent = art.sent,
           q.inventory = art.inventory, q.kept = art.kept, q.size = art.size,
           q.altered = art.altered, q.outcome = art.outcome, q.staged = art.staged,
           q.held = art.held \/ (q.held = art.held \cup {"body"} /\ art.at \in {"fetch", "body"}),
           art.stopped => q.stopped
    PROVE  ArtOK(q)
<1>1. GenuineOf(art) => GenuineOf(q)
  BY DEF GenuineOf
<1>2. ArtPart(q)
  BY <1>1 DEF ArtOK, ArtPart, Starts, Acquiring
<1> QED
  BY <1>1, <1>2 DEF ArtOK

\* The servers and the clocks.
LEMMA ArtOutside ==
    ASSUME ArtOK(art), ArtResponds \/ ArtChunk \/ ArtDigests \/ ArtRespondsLate
                       \/ ArtElapse \/ ArtTimer \/ StartupTimer
    PROVE  ArtOK(art')
<1>1. art \in ArtSet
  BY DEF ArtOK
<1>2. CASE ArtResponds \/ ArtChunk \/ ArtDigests
  <2>1. PICK s \in ArtSettled, at \in Acquiring :
          /\ art.at = at
          /\ art' = [art EXCEPT !.settled = s, !.held = @ \cup IF at = "fetch" THEN {"body"} ELSE {}]
    BY <1>2 DEF ArtResponds, ArtChunk, ArtDigests, Settle, ArtSettled, Acquiring
  <2> DEFINE held == art.held \cup IF at = "fetch" THEN {"body"} ELSE {}
  <2>2. held \in SUBSET Kept /\ (held = art.held \/ (held = art.held \cup {"body"} /\ at = "fetch"))
    BY <1>1 DEF ArtSet, Kept
  <2>3. art' = [art EXCEPT !.settled = s, !.held = held]
    BY <2>1
  <2> HIDE DEF held
  <2>4. /\ art' \in ArtSet /\ art'.at = art.at /\ art'.item = art.item /\ art'.sent = art.sent
        /\ art'.inventory = art.inventory /\ art'.kept = art.kept /\ art'.size = art.size
        /\ art'.altered = art.altered /\ art'.outcome = art.outcome /\ art'.staged = art.staged
        /\ art'.held = held /\ art'.stopped = art.stopped
    BY <1>1, <2>2, <2>3 DEF ArtSet
  <2> QED
    BY <2>1, <2>2, <2>4, ArtGoes
<1>3. CASE ArtRespondsLate \/ ArtElapse \/ ArtTimer \/ StartupTimer
  <2>1. /\ art' \in ArtSet /\ art'.at = art.at /\ art'.item = art.item /\ art'.sent = art.sent
        /\ art'.inventory = art.inventory /\ art'.kept = art.kept /\ art'.size = art.size
        /\ art'.altered = art.altered /\ art'.outcome = art.outcome /\ art'.staged = art.staged
        /\ art'.held = art.held /\ (art.stopped => art'.stopped)
    <3>1. art.orphans > 0 => art.orphans - 1 \in Nat
      BY <1>1 DEF ArtSet
    <3>2. CASE ArtRespondsLate
      BY <1>1, <3>1, <3>2 DEF ArtSet, ArtRespondsLate
    <3>3. CASE ArtElapse
      BY <1>1, <3>3 DEF ArtSet, ArtElapse
    <3>4. CASE ArtTimer
      BY <1>1, <3>4 DEF ArtSet, ArtTimer
    <3>5. CASE StartupTimer
      BY <1>1, <3>5 DEF ArtSet, StartupTimer
    <3> QED
      BY <1>3, <3>2, <3>3, <3>4, <3>5
  <2> QED
    BY <2>1, ArtGoes
<1> QED
  BY <1>2, <1>3

\* The owner aborts (ArtAbort).
LEMMA ArtAborted == ASSUME ArtOK(art), ArtAbort PROVE ArtOK(art)'
<1>1. art \in ArtSet /\ Loading /\ Loading'
  BY DEF ArtOK, ArtAbort, Loading
<1> DEFINE stopped == art.stopped \/ "listener" \in art.held
<1>2. art' = [art EXCEPT !.stopped = stopped] /\ stopped \in BOOLEAN
  BY <1>1 DEF ArtAbort, ArtSet
<1>3. art.at \in Acquiring => stopped
  BY DEF ArtOK, ArtPart, Acquiring
<1> HIDE DEF stopped
<1>4. /\ art' \in ArtSet /\ art'.at = art.at /\ art'.item = art.item /\ art'.sent = art.sent
      /\ art'.inventory = art.inventory /\ art'.kept = art.kept /\ art'.size = art.size
      /\ art'.altered = art.altered /\ art'.outcome = art.outcome /\ art'.staged = art.staged
      /\ art'.held = art.held /\ art'.stopped = stopped
  BY <1>1, <1>2 DEF ArtSet
<1>5. GenuineOf(art)' <=> GenuineOf(art)
  BY <1>4 DEF GenuineOf
<1>6. ArtPart(art)'
  BY <1>3, <1>4, <1>5 DEF ArtOK, ArtPart, Acquiring, Starts, Reviewed
<1> QED
  BY <1>1, <1>4, <1>5, <1>6 DEF ArtOK, Admissible, Reviewed

\* No step of an acquisition leaves what is known of it (ArtNext).
LEMMA ArtStepOK == ASSUME ArtOK(art), ArtNext PROVE ArtOK(art)'
<1>1. CASE ArtAbort
  BY <1>1, ArtAborted
<1>2. CASE ~ArtAbort
  <2>1. exchange' = exchange /\ cut' = cut
    BY <1>2 DEF ArtNext, ArtStep, WorkerAnswers, ArtRefused, ArtRequest, ArtFetched, ArtRead,
       ArtDigested, ArtAwaited, Stages, Spawns, StartStopped, ArtResponds, ArtChunk, ArtDigests,
       Settle, ArtRespondsLate, ArtElapse, ArtTimer, StartupTimer, caller
  <2>2. ArtOK(art')
    BY <1>2, ArtReads, ArtDigestedKeeps, ArtStarts, ArtOutside DEF ArtNext, ArtStep
  <2> QED
    BY <2>1, <2>2 DEF ArtOK, ArtPart, Loading, GenuineOf, Reviewed
<1> QED
  BY <1>1, <1>2

\* An acquisition that has not begun (ArtInit).
LEMMA ArtInitOK == ASSUME ArtInit PROVE ArtOK(art)
<1>1. PICK inventory \in Inventories :
        art = [at |-> "idle", inventory |-> inventory, item |-> 0, size |-> 0,
               altered |-> FALSE, settled |-> "none", late |-> FALSE, orphans |-> 0, sent |-> 0,
               stopped |-> FALSE, expired |-> FALSE, kept |-> {}, held |-> {}, staged |-> FALSE,
               outcome |-> "none"]
  BY DEF ArtInit
<1>2. art \in ArtSet
  <2>1. {} \in SUBSET Kept /\ {} \in SUBSET Nat
    OBVIOUS
  <2> QED
    BY <1>1, <2>1 DEF ArtSet, ArtPlace, ArtSettled, Outcome
<1>3. 0 <= Len(inventory.files)
  BY FilesType
<1> QED
  BY <1>1, <1>2, <1>3 DEF ArtOK, ArtPart, Acquiring, Starts

-----------------------------------------------------------------------------
(* The proving assets (AssetCache) *)

\* The awaits of a load: those of the cache, and all of them; the bytes, loaders and handles
\* it may have.
Storing == {"open", "read", "shut", "directory", "put", "write", "rename", "unlink"}
Working == Storing \cup {"digest", "ask", "verify"}
Contents == {"none", "whole", "altered", "short", "long", "failed", "absent"}
LoaderSet == [at : {"none", "head", "body", "asked"}, size : Nat, altered : BOOLEAN]
Handles == {"signals", "file", "temporary"}
ProveSet ==
    [at : Working \cup {"idle", "over"}, options : Options, asset : 0..2, value : Contents,
     memory : SUBSET Asset, disk : [Asset -> {"absent", "whole", "altered", "short"}],
     damaged : SUBSET Asset, temporary : {"none", "part", "whole"}, given : Seq({"whole"}),
     loader : LoaderSet, life : {"open", "closing", "closed"}, sent : 0..2,
     held : SUBSET Handles, outcome : Outcome]

\* What is held at an await.
HeldAt(at) ==
    CASE at \in {"idle", "over"} -> {}
      [] at \in {"read", "shut"} -> {"signals", "file"}
      [] at \in {"write", "rename", "unlink"} -> {"signals", "temporary"}
      [] OTHER -> {"signals"}

\* An asset is where the next load finds it.
Saved(p, i) ==
    IF p.options.cache # "memory" THEN p.disk[i] = "whole" ELSE i \in p.memory \/ p.life = "closed"

\* What the bytes in work are at an await.
Needs(p) ==
    /\ p.at \in {"open", "read"} => p.value = "none"
    /\ p.at \in {"directory", "put", "write", "rename"} => p.value = "whole"
    /\ p.at = "unlink" => p.value \in {"none", "whole"}
    /\ p.at \in {"shut", "digest", "unlink"} /\ p.value = "whole" => Saved(p, p.asset)
    /\ p.at \in Storing => p.options.cache # "memory"

\* What is known of a load of the proving assets, but for its handles: each asset collected
\* is whole and stored, and an undamaged cache stays so.
ProveBody(p) ==
    /\ p \in ProveSet
    /\ p.at # "idle" => Proving
    /\ p.at = "idle" => p.asset = 0 /\ p.sent = 0 /\ p.given = <<>>
    /\ p.at \in Working =>
          p.asset \in Asset /\ p.sent = p.asset /\ Len(p.given) = p.asset - 1 /\ p.life # "closed"
    /\ p.at = "over" => p.outcome = "error" \/ (p.outcome = "value" /\ p.sent > 0)
    /\ p.at # "over" => p.outcome = "none"
    /\ Needs(p)
    /\ \A i \in 1..Len(p.given) : i \in Asset /\ Saved(p, i)
    /\ p.options.cache # "memory" \/ p.life = "closed" => p.memory = {}
    /\ \A i \in Asset \ p.damaged : p.disk[i] \in {"absent", "whole"}
    /\ p.outcome = "value" => Len(p.given) = 2

\* With the handles: they are those of the await it is in.
ProveOK(p) == ProveBody(p) /\ p.held = HeldAt(p.at)

\* What is known of a load gives its properties: the prover gets whole assets, and a closed
\* wallet has none.
LEMMA AssetExact == ASSUME ProveOK(prove) PROVE AssetsWhole /\ AssetsGivenBack
<1>1. prove \in ProveSet
  BY DEF ProveOK, ProveBody
<1>2. \A i \in DOMAIN prove.given : prove.given[i] = "whole"
  BY <1>1 DEF ProveSet
<1>3. ASSUME prove.outcome = "value", NEW i \in Asset
      PROVE  Saved(prove, i)
  <2>1. i \in 1..Len(prove.given)
    BY <1>3 DEF ProveOK, ProveBody, Asset
  <2> QED
    BY <2>1 DEF ProveOK, ProveBody
<1>4. AssetsWhole
  BY <1>2, <1>3 DEF AssetsWhole, ProveOK, ProveBody, Saved, Persistent
<1>5. AssetsGivenBack
  <2>1. ASSUME prove.life = "closed" PROVE prove.at \in {"idle", "over"}
    BY <1>1, <2>1 DEF ProveOK, ProveBody, ProveSet
  <2> QED
    BY <2>1 DEF AssetsGivenBack, ProveOK, ProveBody, HeldAt
<1> QED
  BY <1>4, <1>5

-----------------------------------------------------------------------------

\* The load is over, and gives back the signals.
LEMMA ProveFailsKeep ==
    ASSUME NEW p, ProveBody(p), p.held \subseteq {"signals"}, Proving
    PROVE  ProveOK(ProveFails(p))
<1> DEFINE held == p.held \ {"signals"}
           q == [p EXCEPT !.at = "over", !.held = held, !.outcome = "error"]
<1>1. ProveFails(p) = q /\ p \in ProveSet /\ held = {}
  BY DEF ProveFails, ProveEnds, ProveBody
<1> HIDE DEF held
<1>2. /\ q \in ProveSet /\ q.at = "over" /\ q.held = {} /\ q.outcome = "error"
      /\ q.options = p.options /\ q.asset = p.asset /\ q.value = p.value /\ q.memory = p.memory
      /\ q.disk = p.disk /\ q.damaged = p.damaged /\ q.given = p.given /\ q.life = p.life
      /\ q.sent = p.sent
  <2>1. {} \in SUBSET Handles
    OBVIOUS
  <2> QED
    BY <1>1, <2>1 DEF ProveSet, Outcome
<1> HIDE DEF q
<1>3. Needs(q) /\ q.at \notin Working
  BY <1>2 DEF Needs, Storing, Working
<1>4. \A i \in 1..Len(q.given) : i \in Asset /\ Saved(q, i)
  BY <1>2 DEF ProveBody, Saved
<1>5. ProveBody(q)
  BY <1>2, <1>3, <1>4 DEF ProveBody
<1> QED
  BY <1>1, <1>2, <1>5 DEF ProveOK, HeldAt

\* From one await to the next.
LEMMA ProveMoves ==
    ASSUME NEW p, ProveBody(p), p.at \in Working, NEW q \in ProveSet, q.at \in Working,
           q.options = p.options, q.asset = p.asset, q.memory = p.memory, q.disk = p.disk,
           q.damaged = p.damaged, q.given = p.given, q.life = p.life, q.sent = p.sent,
           q.outcome = p.outcome, Needs(q)
    PROVE  ProveBody(q)
<1>1. q.at # "idle" /\ q.at # "over" /\ p.at # "idle" /\ p.at # "over"
  BY DEF Working, Storing
<1>2. \A i \in 1..Len(q.given) : i \in Asset /\ Saved(q, i)
  BY DEF ProveBody, Saved
<1> QED
  BY <1>1, <1>2 DEF ProveBody

\* The next asset is begun.
LEMMA ProceedKeeps ==
    ASSUME NEW p \in ProveSet, Proving, p.held = {"signals"}, p.options = prove.options,
           p.asset + 1 \in Asset, p.sent = p.asset, Len(p.given) = p.asset, p.life # "closed",
           p.outcome = "none", \A i \in 1..Len(p.given) : i \in Asset /\ Saved(p, i),
           p.options.cache # "memory" => p.memory = {},
           \A i \in Asset \ p.damaged : p.disk[i] \in {"absent", "whole"}
    PROVE  ProveOK(Proceed(p)) /\ Proceed(p).at \in Working /\ Proceed(p).sent = p.sent + 1
<1> DEFINE next == [p EXCEPT !.asset = @ + 1, !.sent = @ + 1, !.value = "none"]
           q == Proceed(p)
<1>1. /\ next \in ProveSet /\ next.asset = p.asset + 1 /\ next.sent = p.asset + 1
      /\ next.held = p.held /\ next.options = p.options /\ next.given = p.given
      /\ next.life = p.life /\ next.outcome = p.outcome /\ next.memory = p.memory
      /\ next.disk = p.disk /\ next.damaged = p.damaged /\ next.at = p.at
      /\ next.value = "none"
  <2>1. p.asset + 1 \in 0..2 /\ p.sent + 1 \in 0..2 /\ "none" \in Contents
    BY DEF Asset, Contents
  <2> QED
    BY <2>1 DEF ProveSet
<1>2. ASSUME NEW m \in ProveSet, m.asset = next.asset, m.sent = next.sent, m.held = next.held,
             m.options = next.options, m.given = next.given, m.life = next.life,
             m.outcome = next.outcome, m.memory = next.memory, m.disk = next.disk,
             m.damaged = next.damaged, m.at \in {"digest", "open", "ask"}, Needs(m)
      PROVE  ProveOK(m) /\ m.at \in Working
  <2>1. m.at \in Working /\ m.held = HeldAt(m.at)
    BY <1>1, <1>2 DEF Working, Storing, HeldAt
  <2>2. \A i \in 1..Len(m.given) : i \in Asset /\ Saved(m, i)
    BY <1>1, <1>2 DEF Saved
  <2>3. p.asset \in Nat
    BY DEF ProveSet
  <2> HIDE DEF next
  <2>4. ProveBody(m)
    BY <1>1, <1>2, <2>1, <2>2, <2>3 DEF ProveBody
  <2> QED
    BY <2>1, <2>4 DEF ProveOK
<1> HIDE DEF next
<1>3. CASE next.asset \in p.memory
  <2> DEFINE m == [next EXCEPT !.at = "digest", !.value = "whole"]
  <2>1. /\ m \in ProveSet /\ m.asset = next.asset /\ m.sent = next.sent /\ m.held = next.held
        /\ m.options = next.options /\ m.given = next.given /\ m.life = next.life
        /\ m.outcome = next.outcome /\ m.memory = next.memory /\ m.disk = next.disk
        /\ m.damaged = next.damaged /\ m.at = "digest" /\ m.value = "whole"
    BY <1>1 DEF ProveSet, Working, Contents
  <2>2. q = m
    BY <1>3 DEF Proceed, next
  <2> HIDE DEF m, q
  <2>3. Needs(m)
    BY <1>1, <1>3, <2>1 DEF Needs, Saved, Storing
  <2> QED
    BY <1>1, <1>2, <2>1, <2>2, <2>3 DEF q
<1>4. CASE next.asset \notin p.memory /\ Persistent
  <2> DEFINE m == [next EXCEPT !.at = "open"]
  <2>1. /\ m \in ProveSet /\ m.asset = next.asset /\ m.sent = next.sent /\ m.held = next.held
        /\ m.options = next.options /\ m.given = next.given /\ m.life = next.life
        /\ m.outcome = next.outcome /\ m.memory = next.memory /\ m.disk = next.disk
        /\ m.damaged = next.damaged /\ m.at = "open" /\ m.value = next.value
    BY <1>1 DEF ProveSet, Working, Storing
  <2>2. q = m
    BY <1>4 DEF Proceed, next
  <2> HIDE DEF m, q
  <2>3. Needs(m)
    BY <1>1, <1>4, <2>1 DEF Needs, Persistent
  <2> QED
    BY <1>1, <1>2, <2>1, <2>2, <2>3 DEF q
<1>5. CASE next.asset \notin p.memory /\ ~Persistent
  <2> DEFINE at == IF next.options.loader = "package" THEN "head" ELSE "asked"
             loader == [Silent EXCEPT !.at = at]
             m == [next EXCEPT !.at = "ask", !.loader = loader]
  <2>0. loader \in LoaderSet
    BY DEF Silent, LoaderSet
  <2>2. q = m
    BY <1>5 DEF Proceed, next, Ask
  <2> HIDE DEF loader
  <2>1. /\ m \in ProveSet /\ m.asset = next.asset /\ m.sent = next.sent /\ m.held = next.held
        /\ m.options = next.options /\ m.given = next.given /\ m.life = next.life
        /\ m.outcome = next.outcome /\ m.memory = next.memory /\ m.disk = next.disk
        /\ m.damaged = next.damaged /\ m.at = "ask"
    BY <1>1, <2>0 DEF ProveSet, Working
  <2> HIDE DEF m, q
  <2>3. Needs(m)
    BY <2>1 DEF Needs, Storing
  <2> QED
    BY <1>1, <1>2, <2>1, <2>2, <2>3 DEF q
<1> QED
  BY <1>3, <1>4, <1>5

\* An asset whose bytes are the pinned ones is one the prover gets, unless the load is stopped.
LEMMA CollectKeeps ==
    ASSUME NEW p, ProveBody(p), p.at \in Working, p.held = {"signals"}, p.value = "whole",
           Saved(p, p.asset), p.options = prove.options
    PROVE  ProveOK(Collect(p))
<1> DEFINE given == Append(p.given, p.value)
           q == [p EXCEPT !.given = given]
<1>1. p \in ProveSet /\ p.asset \in Asset /\ p.sent = p.asset /\ Len(p.given) = p.asset - 1
      /\ p.life # "closed" /\ Proving /\ p.outcome = "none"
  BY DEF ProveBody, Working, Storing
<1>2. CASE Stopped
  BY <1>1, <1>2, ProveFailsKeep DEF Collect
<1>3. CASE ~Stopped
  <2>1. given \in Seq({"whole"}) /\ Len(given) = p.asset
    BY <1>1 DEF ProveSet, Asset
  <2> HIDE DEF given
  <2>2. /\ q \in ProveSet /\ q.given = given /\ q.asset = p.asset /\ q.sent = p.sent
        /\ q.held = p.held /\ q.options = p.options /\ q.life = p.life /\ q.outcome = p.outcome
        /\ q.memory = p.memory /\ q.disk = p.disk /\ q.damaged = p.damaged /\ q.at = p.at
        /\ q.value = p.value
    BY <1>1, <2>1 DEF ProveSet
  <2> HIDE DEF q
  <2>3. \A i \in 1..Len(q.given) : i \in Asset /\ Saved(q, i)
    <3> SUFFICES ASSUME NEW i \in 1..p.asset PROVE i \in Asset /\ Saved(q, i)
      BY <2>1, <2>2
    <3>1. i = p.asset \/ i \in 1..Len(p.given)
      BY <1>1 DEF Asset
    <3> QED
      BY <1>1, <2>2, <3>1 DEF ProveBody, Saved
  <2>4. p.options.cache # "memory" => p.memory = {}
    BY DEF ProveBody
  <2>5. \A i \in Asset \ q.damaged : q.disk[i] \in {"absent", "whole"}
    BY <2>2 DEF ProveBody
  <2>6. CASE p.asset = 1
    <3>1. Collect(p) = Proceed(q) /\ q.asset + 1 \in Asset
      BY <1>3, <2>2, <2>6 DEF Collect, Asset, q, given
    <3>2. ProveOK(Proceed(q))
      BY <1>1, <2>1, <2>2, <2>3, <2>4, <2>5, <3>1, ProceedKeeps
    <3> QED
      BY <3>1, <3>2
  <2>7. CASE p.asset = 2
    <3> DEFINE held == q.held \ {"signals"}
               e == [q EXCEPT !.at = "over", !.held = held, !.outcome = "value"]
    <3>1. Collect(p) = e /\ held = {}
      BY <1>3, <2>2, <2>7 DEF Collect, Asset, ProveEnds, q, given
    <3> HIDE DEF held
    <3>2. /\ e \in ProveSet /\ e.given = given /\ e.asset = p.asset /\ e.sent = p.sent
          /\ e.held = {} /\ e.options = p.options /\ e.life = p.life /\ e.outcome = "value"
          /\ e.memory = p.memory /\ e.disk = p.disk /\ e.damaged = p.damaged /\ e.at = "over"
          /\ e.value = p.value
      <4>1. {} \in SUBSET Handles
        OBVIOUS
      <4> QED
        BY <2>2, <3>1, <4>1 DEF ProveSet, Outcome
    <3> HIDE DEF e
    <3>3. Needs(e) /\ e.at \notin Working /\ \A i \in 1..Len(e.given) : i \in Asset /\ Saved(e, i)
      BY <2>2, <2>3, <3>2 DEF Needs, Working, Storing, Saved
    <3>4. ProveBody(e)
      BY <1>1, <2>1, <2>2, <2>4, <2>5, <2>7, <3>2, <3>3 DEF ProveBody
    <3> QED
      BY <3>1, <3>2, <3>4 DEF ProveOK, HeldAt
  <2> QED
    BY <1>1, <2>6, <2>7 DEF Asset
<1> QED
  BY <1>2, <1>3

\* A change of the place, the value, the temporary file, the loader and what is held.
Changed(q, at, value, temporary, loader, held) ==
    /\ at \in Working /\ value \in Contents /\ temporary \in {"none", "part", "whole"}
    /\ loader \in LoaderSet /\ held \in SUBSET Handles
    /\ at \in {"open", "read"} => value = "none"
    /\ at \in {"directory", "put", "write", "rename"} => value = "whole"
    /\ at = "unlink" => value \in {"none", "whole"}
    /\ at \in {"shut", "digest", "unlink"} /\ value = "whole" => Saved(prove, prove.asset)
    /\ at \in Storing => prove.options.cache # "memory"
    /\ q = [prove EXCEPT !.at = at, !.value = value, !.temporary = temporary,
                         !.loader = loader, !.held = held]

\* A load that goes on inside the turn of one asset (Changed).
LEMMA ProveGoes ==
    ASSUME ProveOK(prove), prove.at \in Working, NEW q, NEW at, NEW value, NEW temporary,
           NEW loader, NEW held, Changed(q, at, value, temporary, loader, held)
    PROVE  ProveBody(q) /\ q.held = held /\ q.at = at /\ q.value = value /\ q.options = prove.options
           /\ q.asset = prove.asset /\ q.life = prove.life
           /\ (Saved(prove, prove.asset) <=> Saved(q, q.asset)) /\ (held = HeldAt(at) => ProveOK(q))
<1> USE DEF Changed
<1>1. prove \in ProveSet /\ ProveBody(prove)
  BY DEF ProveOK, ProveBody
<1>2. /\ q \in ProveSet /\ q.at = at /\ q.value = value /\ q.held = held /\ q.asset = prove.asset
      /\ q.options = prove.options /\ q.memory = prove.memory /\ q.disk = prove.disk
      /\ q.damaged = prove.damaged /\ q.given = prove.given /\ q.life = prove.life
      /\ q.sent = prove.sent /\ q.outcome = prove.outcome
  BY <1>1 DEF ProveSet
<1>3. \A i : Saved(prove, i) <=> Saved(q, i)
  BY <1>2 DEF Saved
<1>4. Needs(q)
  BY <1>2, <1>3 DEF Needs
<1>5. ProveBody(q)
  BY <1>1, <1>2, <1>4, ProveMoves
<1> QED
  BY <1>2, <1>3, <1>5 DEF ProveOK

\* The types of a load.
LEMMA ProveType ==
    ASSUME ProveOK(prove)
    PROVE  /\ prove \in ProveSet /\ ProveBody(prove) /\ prove.held = HeldAt(prove.at)
           /\ prove.value \in Contents /\ prove.temporary \in {"none", "part", "whole"}
           /\ prove.loader \in LoaderSet /\ prove.held \in SUBSET Handles
           /\ prove = [prove EXCEPT !.at = prove.at, !.value = prove.value,
                                    !.temporary = prove.temporary, !.loader = prove.loader,
                                    !.held = prove.held]
<1>1. prove \in ProveSet /\ ProveBody(prove) /\ prove.held = HeldAt(prove.at)
  BY DEF ProveOK, ProveBody
<1> QED
  BY <1>1 DEF ProveSet

\* A load is refused, or begins with the first asset (ProveRefused, ProveStart).
LEMMA ProveBegins == ASSUME ProveOK(prove), ProveRefused \/ ProveStart PROVE ProveOK(prove')
<1>1. prove \in ProveSet /\ ProveBody(prove) /\ prove.held = {} /\ prove.at = "idle" /\ Proving
  BY ProveType DEF ProveRefused, ProveStart, HeldAt
<1>2. CASE ProveRefused
  <2>1. ProveOK(ProveFails(prove))
    BY <1>1, ProveFailsKeep
  <2> QED
    BY <1>2, <2>1 DEF ProveRefused
<1>3. CASE ProveStart
  <2> DEFINE p == [prove EXCEPT !.held = {"signals"}]
  <2>1. {"signals"} \in SUBSET Handles
    BY DEF Handles
  <2>2. /\ p \in ProveSet /\ p.held = {"signals"} /\ p.options = prove.options
        /\ p.asset = prove.asset /\ p.sent = prove.sent /\ p.given = prove.given
        /\ p.life = prove.life /\ p.outcome = prove.outcome /\ p.memory = prove.memory
        /\ p.disk = prove.disk /\ p.damaged = prove.damaged
    BY <1>1, <2>1 DEF ProveSet
  <2> HIDE DEF p
  <2>3. /\ p.asset = 0 /\ p.sent = 0 /\ p.given = <<>> /\ Len(p.given) = 0 /\ p.outcome = "none"
        /\ p.asset + 1 \in Asset /\ p.life = "open"
    BY <1>1, <1>3, <2>2 DEF ProveBody, Asset, ProveStart, Stopped
  <2>4. /\ p.options.cache # "memory" => p.memory = {}
        /\ \A i \in Asset \ p.damaged : p.disk[i] \in {"absent", "whole"}
        /\ \A i \in 1..Len(p.given) : i \in Asset /\ Saved(p, i)
    BY <1>1, <2>2, <2>3 DEF ProveBody
  <2>5. ProveOK(Proceed(p))
    BY <1>1, <2>2, <2>3, <2>4, ProceedKeeps
  <2> QED
    BY <1>3, <2>5 DEF ProveStart, p
<1> QED
  BY <1>2, <1>3

\* The application's or the package's loader is asked.
LEMMA AskKeeps == ASSUME ProveOK(prove), prove.at \in Working, Proving, prove.held = {"signals"}
                  PROVE ProveOK(Ask(prove))
<1> DEFINE loader == [Silent EXCEPT !.at = IF prove.options.loader = "package" THEN "head"
                                            ELSE "asked"]
           q == Ask(prove)
<1>1. loader \in LoaderSet
  BY DEF Silent, LoaderSet
<1>2. q = [prove EXCEPT !.at = "ask", !.loader = loader]
  BY DEF Ask
<1> HIDE DEF loader, q
<1>3. q = [prove EXCEPT !.at = "ask", !.value = prove.value, !.temporary = prove.temporary,
                        !.loader = loader, !.held = prove.held]
  BY <1>2, ProveType DEF ProveSet
<1>4. "ask" \in Working /\ "ask" \notin Storing /\ HeldAt("ask") = {"signals"}
  BY DEF Working, Storing, HeldAt
<1>5. Changed(q, "ask", prove.value, prove.temporary, loader, prove.held)
  BY <1>1, <1>3, <1>4, ProveType DEF Changed
<1>6. ProveOK(q)
  BY <1>4, <1>5, ProveGoes
<1> QED
  BY <1>6 DEF q

\* read(): a cached asset is one that is saved.
LEMMA CacheKeeps ==
    ASSUME ProveOK(prove), CacheOpened \/ CacheRead \/ CacheShut \/ CacheDigest
    PROVE  ProveOK(prove')
<1>1. /\ prove \in ProveSet /\ ProveBody(prove) /\ prove.held = HeldAt(prove.at)
      /\ prove.at \in {"open", "read", "shut", "digest"} /\ prove.at \in Working /\ Proving
      /\ prove.asset \in Asset
  BY ProveType DEF CacheOpened, CacheRead, CacheShut, CacheDigest, ProveAwaited, ProveBody,
                   Working, Storing
<1>2. prove.held = {"signals"} => ProveOK(ProveFails(prove))
  BY <1>1, ProveFailsKeep
<1>3. CASE CacheOpened
  <2>1. prove.at = "open" /\ prove.held = {"signals"} /\ prove.value = "none"
        /\ prove.options.cache # "memory"
    BY <1>1, <1>3 DEF CacheOpened, ProveAwaited, HeldAt, ProveBody, Needs, Storing
  <2> DEFINE held == prove.held \cup {"file"}
             q == [prove EXCEPT !.at = "read", !.held = held]
  <2>2. held \in SUBSET Handles /\ held = HeldAt("read") /\ "read" \in Working
    BY <2>1 DEF Handles, HeldAt, Working, Storing
  <2> HIDE DEF held
  <2>3. q = [prove EXCEPT !.at = "read", !.value = prove.value, !.temporary = prove.temporary,
                          !.loader = prove.loader, !.held = held]
    BY <1>1 DEF ProveSet
  <2> HIDE DEF q
  <2>6. Changed(q, "read", prove.value, prove.temporary, prove.loader, held)
    BY <2>1, <2>2, <2>3, ProveType DEF Changed
  <2>4. ProveOK(q)
    BY <1>1, <2>2, <2>6, ProveGoes
  <2>5. ProveOK(Ask(prove))
    BY <1>1, <2>1, AskKeeps
  <2> QED
    BY <1>2, <1>3, <2>1, <2>4, <2>5 DEF CacheOpened, ProveAwaited, q, held
<1>4. CASE CacheRead
  <2>1. prove.at = "read" /\ prove.value = "none" /\ prove.options.cache # "memory"
    BY <1>1, <1>4 DEF CacheRead, ProveAwaited, ProveBody, Needs, Storing
  <2>2. PICK value \in {"none", IF OnDisk = "short" THEN "none" ELSE OnDisk} :
          prove' = [prove EXCEPT !.at = "shut", !.value = value]
    <3>1. [prove EXCEPT !.at = "shut"] = [prove EXCEPT !.at = "shut", !.value = "none"]
      BY <1>1, <2>1 DEF ProveSet
    <3> QED
      BY <1>4, <3>1 DEF CacheRead, ProveAwaited
  <2>3. value \in Contents /\ (value = "whole" => Saved(prove, prove.asset))
    BY <1>1, <2>1, <2>2 DEF OnDisk, ProveSet, Contents, Saved
  <2>4. "shut" \in Working /\ HeldAt("shut") = HeldAt("read")
    BY DEF Working, Storing, HeldAt
  <2>5. prove' = [prove EXCEPT !.at = "shut", !.value = value, !.temporary = prove.temporary,
                               !.loader = prove.loader, !.held = prove.held]
    BY <1>1, <2>2 DEF ProveSet
  <2>6. Changed(prove', "shut", value, prove.temporary, prove.loader, prove.held)
    BY <2>1, <2>3, <2>4, <2>5, ProveType DEF Changed
  <2> QED
    BY <1>1, <2>1, <2>4, <2>6, ProveGoes
<1>5. CASE CacheShut
  <2>1. prove.at = "shut" /\ prove.options.cache # "memory"
        /\ (prove.value = "whole" => Saved(prove, prove.asset))
    BY <1>1, <1>5 DEF CacheShut, ProveAwaited, ProveBody, Needs, Storing
  <2> DEFINE held == prove.held \ {"file"}
             shut == [prove EXCEPT !.held = held]
             q == [shut EXCEPT !.at = "digest"]
  <2>2. held \in SUBSET Handles /\ held = {"signals"} /\ HeldAt("digest") = {"signals"}
        /\ "digest" \in Working /\ "digest" \notin Storing
    BY <1>1, <2>1 DEF Handles, HeldAt, Working, Storing
  <2> HIDE DEF held
  <2>3. /\ shut = [prove EXCEPT !.at = prove.at, !.value = prove.value,
                                !.temporary = prove.temporary, !.loader = prove.loader,
                                !.held = held]
        /\ q = [prove EXCEPT !.at = "digest", !.value = prove.value, !.temporary = prove.temporary,
                             !.loader = prove.loader, !.held = held]
        /\ shut.value = prove.value
    BY <1>1 DEF ProveSet
  <2>4. prove' \in {ProveFails(shut), IF shut.value = "none" THEN ProveFails(shut) ELSE q}
    BY <1>5 DEF CacheShut, ProveAwaited, held
  <2> HIDE DEF q, shut
  <2>8. Changed(q, "digest", prove.value, prove.temporary, prove.loader, held)
        /\ Changed(shut, prove.at, prove.value, prove.temporary, prove.loader, held)
    BY <1>1, <2>1, <2>2, <2>3, ProveType DEF Changed
  <2>5. ProveOK(q)
    BY <1>1, <2>2, <2>8, ProveGoes
  <2>6. ProveBody(shut) /\ shut.held = held
    BY <1>1, <2>8, ProveGoes
  <2>7. ProveOK(ProveFails(shut))
    BY <1>1, <2>2, <2>6, ProveFailsKeep
  <2> QED
    BY <2>4, <2>5, <2>7
<1>6. CASE CacheDigest
  <2>1. prove.at = "digest" /\ prove.held = {"signals"}
        /\ (prove.value = "whole" => Saved(prove, prove.asset))
    BY <1>1, <1>6 DEF CacheDigest, ProveAwaited, ProveBody, Needs, HeldAt
  <2>2. prove.value = "whole" => ProveOK(Collect(prove))
    BY <1>1, <2>1, CollectKeeps
  <2> QED
    BY <1>2, <1>6, <2>1, <2>2 DEF CacheDigest, ProveAwaited
<1> QED
  BY <1>3, <1>4, <1>5, <1>6

\* A loader goes on, also when nothing waits for it.
LEMMA LoaderKeeps ==
    ASSUME ProveOK(prove), NEW loader \in LoaderSet
    PROVE  ProveOK([prove EXCEPT !.loader = loader])
<1> DEFINE q == [prove EXCEPT !.loader = loader]
<1>1. prove \in ProveSet /\ ProveBody(prove) /\ prove.held = HeldAt(prove.at)
  BY ProveType
<1>2. /\ q \in ProveSet /\ q.at = prove.at /\ q.value = prove.value /\ q.held = prove.held
      /\ q.asset = prove.asset /\ q.options = prove.options /\ q.memory = prove.memory
      /\ q.disk = prove.disk /\ q.damaged = prove.damaged /\ q.given = prove.given
      /\ q.life = prove.life /\ q.sent = prove.sent /\ q.outcome = prove.outcome
  BY <1>1 DEF ProveSet
<1> HIDE DEF q
<1>3. \A i : Saved(prove, i) <=> Saved(q, i)
  BY <1>2 DEF Saved
<1>4. Needs(q)
  BY <1>1, <1>2, <1>3 DEF ProveBody, Needs
<1>5. ProveBody(q)
  BY <1>1, <1>2, <1>3, <1>4 DEF ProveBody
<1> QED
  BY <1>1, <1>2, <1>5 DEF ProveOK, q

\* What a loader answers.
LEMMA DeliverKeeps ==
    ASSUME ProveOK(prove), NEW content \in Contents
    PROVE  ProveOK(Deliver(prove, content))
<1> DEFINE answered == [prove EXCEPT !.loader = Silent]
<1>1. Silent \in LoaderSet
  BY DEF Silent, LoaderSet
<1>2. ProveOK(answered)
  BY <1>1, LoaderKeeps
<1>3. CASE prove.at # "ask"
  BY <1>2, <1>3 DEF Deliver
<1>4. CASE prove.at = "ask"
  <2>1. /\ prove \in ProveSet /\ Proving /\ prove.at \in Working /\ prove.held = {"signals"}
        /\ answered.held = prove.held
    BY <1>4, ProveType DEF ProveBody, Working, HeldAt, ProveSet
  <2> DEFINE q == [answered EXCEPT !.at = "verify", !.value = content]
  <2>2. q = [prove EXCEPT !.at = "verify", !.value = content, !.temporary = prove.temporary,
                          !.loader = Silent, !.held = prove.held]
    BY <2>1 DEF ProveSet
  <2>3. Deliver(prove, content) = ProveFails(answered) \/ Deliver(prove, content) = q
    BY <1>4 DEF Deliver
  <2> HIDE DEF q, answered
  <2>4. Changed(q, "verify", content, prove.temporary, Silent, prove.held)
    BY <1>1, <2>2, ProveType DEF Changed, Working, Storing
  <2>5. ProveOK(q)
    BY <2>1, <2>4, ProveGoes DEF HeldAt
  <2>6. ProveOK(ProveFails(answered))
    BY <1>2, <2>1, ProveFailsKeep DEF ProveOK
  <2> QED
    BY <2>3, <2>5, <2>6
<1> QED
  BY <1>3, <1>4

\* The loader, of the application or of the package, answers, fails or is stopped.
LEMMA LoaderStepKeeps ==
    ASSUME ProveOK(prove),
           ProveStopped \/ PackageCut \/ PackageOpened \/ PackageChunk \/ ApplicationAnswers
    PROVE  ProveOK(prove')
<1>1. prove \in ProveSet /\ prove.loader \in LoaderSet
  BY ProveType
<1>2. \A content \in {"whole", "altered", "short", "long", "failed"} :
          ProveOK(Deliver(prove, content))
  BY DeliverKeeps DEF Contents
<1>3. CASE ProveStopped
  <2>1. prove.at = "ask" /\ prove' = ProveFails(prove)
    BY <1>3 DEF ProveStopped
  <2>2. Proving /\ prove.held = {"signals"} /\ ProveBody(prove)
    BY <2>1, ProveType DEF ProveBody, HeldAt
  <2> QED
    BY <2>1, <2>2, ProveFailsKeep
<1>4. CASE PackageCut
  BY <1>2, <1>4 DEF PackageCut
<1>5. CASE ApplicationAnswers
  BY <1>2, <1>5 DEF ApplicationAnswers
<1>6. CASE PackageOpened
  <2> DEFINE loader == [prove.loader EXCEPT !.at = "body"]
  <2>1. loader \in LoaderSet
    BY <1>1 DEF LoaderSet
  <2>2. [prove EXCEPT !.loader.at = "body"] = [prove EXCEPT !.loader = loader]
    BY <1>1 DEF ProveSet
  <2> HIDE DEF loader
  <2>3. ProveOK([prove EXCEPT !.loader.at = "body"])
    BY <2>1, <2>2, LoaderKeeps
  <2> QED
    BY <1>2, <1>6, <2>3 DEF PackageOpened
<1>7. CASE PackageChunk
  <2>1. ASSUME NEW altered \in BOOLEAN
        PROVE  ProveOK([prove EXCEPT !.loader.size = @ + 1, !.loader.altered = @ \/ altered])
    <3> DEFINE worse == prove.loader.altered \/ altered
               size == prove.loader.size + 1
               loader == [prove.loader EXCEPT !.size = size, !.altered = worse]
    <3>1. worse \in BOOLEAN /\ size \in Nat
      BY <1>1 DEF LoaderSet
    <3>2. [prove EXCEPT !.loader.size = @ + 1, !.loader.altered = @ \/ altered]
            = [prove EXCEPT !.loader = loader]
      BY <1>1 DEF ProveSet, LoaderSet
    <3> HIDE DEF worse, size
    <3>3. loader \in LoaderSet
      BY <1>1, <3>1 DEF LoaderSet
    <3> HIDE DEF loader
    <3> QED
      BY <3>2, <3>3, LoaderKeeps
  <2> QED
    BY <1>2, <1>7, <2>1 DEF PackageChunk
<1> QED
  BY <1>3, <1>4, <1>5, <1>6, <1>7

\* An asset is put under its name as a whole.
LEMMA StoreKeeps ==
    ASSUME ProveOK(prove), prove.at \in {"put", "rename"}
    PROVE  /\ Store(prove) \in ProveSet /\ ProveBody(Store(prove))
           /\ Store(prove).at = prove.at /\ Store(prove).held = prove.held
           /\ Store(prove).value = "whole" /\ Store(prove).options = prove.options
           /\ Store(prove).asset = prove.asset
           /\ Saved(Store(prove), prove.asset)
<1> DEFINE disk == [prove.disk EXCEPT ![prove.asset] = "whole"]
           q == Store(prove)
<1>1. /\ prove \in ProveSet /\ ProveBody(prove) /\ prove.asset \in Asset
      /\ prove.options.cache # "memory" /\ prove.value = "whole"
  BY ProveType DEF ProveBody, Needs, Storing, Working
<1>2. q = [prove EXCEPT !.disk = disk]
  BY <1>1 DEF Store, ProveSet
<1>3. /\ disk \in [Asset -> {"absent", "whole", "altered", "short"}]
      /\ disk[prove.asset] = "whole"
      /\ \A i \in Asset : disk[i] = "whole" \/ disk[i] = prove.disk[i]
  BY <1>1 DEF ProveSet
<1> HIDE DEF disk, q
<1>4. /\ q \in ProveSet /\ q.at = prove.at /\ q.value = prove.value /\ q.held = prove.held
      /\ q.asset = prove.asset /\ q.options = prove.options /\ q.memory = prove.memory
      /\ q.disk = disk /\ q.damaged = prove.damaged /\ q.given = prove.given
      /\ q.life = prove.life /\ q.sent = prove.sent /\ q.outcome = prove.outcome
  BY <1>1, <1>2, <1>3 DEF ProveSet
<1>5. \A i \in Asset : Saved(prove, i) => Saved(q, i)
  BY <1>3, <1>4 DEF Saved
<1>6. Needs(q) /\ Saved(q, prove.asset)
  BY <1>1, <1>3, <1>4 DEF ProveBody, Needs, Saved
<1>7. \A i \in 1..Len(q.given) : i \in Asset /\ Saved(q, i)
  BY <1>1, <1>4, <1>5 DEF ProveBody
<1>8. \A i \in Asset \ q.damaged : q.disk[i] \in {"absent", "whole"}
  BY <1>1, <1>3, <1>4 DEF ProveBody
<1>9. ProveBody(q)
  BY <1>1, <1>4, <1>6, <1>7, <1>8 DEF ProveBody
<1> QED
  BY <1>1, <1>4, <1>6, <1>9 DEF q

\* What was loaded is kept in memory, or written.
LEMMA LoadDigestKeeps == ASSUME ProveOK(prove), LoadDigest PROVE ProveOK(prove')
<1>1. /\ prove \in ProveSet /\ ProveBody(prove) /\ prove.at = "verify" /\ prove.at \in Working
      /\ prove.held = {"signals"} /\ Proving /\ prove.asset \in Asset /\ prove.life # "closed"
  BY ProveType DEF LoadDigest, ProveAwaited, ProveBody, Working, HeldAt
<1>2. ProveOK(ProveFails(prove))
  BY <1>1, ProveFailsKeep
<1>3. CASE prove.value # "whole" \/ Stopped
  BY <1>2, <1>3 DEF LoadDigest, ProveAwaited
<1>4. CASE prove.value = "whole" /\ ~Stopped /\ Persistent
  <2> DEFINE q == [prove EXCEPT !.at = "directory"]
  <2>1. q = [prove EXCEPT !.at = "directory", !.value = prove.value, !.temporary = prove.temporary,
                          !.loader = prove.loader, !.held = prove.held]
    BY <1>1 DEF ProveSet
  <2>2. prove' = q
    BY <1>4 DEF LoadDigest, ProveAwaited
  <2> HIDE DEF q
  <2>3. Changed(q, "directory", prove.value, prove.temporary, prove.loader, prove.held)
    BY <1>4, <2>1, ProveType DEF Changed, Working, Storing, Persistent
  <2> QED
    BY <1>1, <2>2, <2>3, ProveGoes DEF HeldAt
<1>5. CASE prove.value = "whole" /\ ~Stopped /\ ~Persistent
  <2> DEFINE memory == prove.memory \cup {prove.asset}
             q == [prove EXCEPT !.memory = memory]
  <2>1. memory \in SUBSET Asset /\ prove.asset \in memory /\ prove.memory \subseteq memory
    BY <1>1 DEF ProveSet
  <2>2. prove' = Collect(q)
    BY <1>5 DEF LoadDigest, ProveAwaited
  <2> HIDE DEF memory
  <2>3. /\ q \in ProveSet /\ q.at = prove.at /\ q.value = prove.value /\ q.held = prove.held
        /\ q.asset = prove.asset /\ q.options = prove.options /\ q.memory = memory
        /\ q.disk = prove.disk /\ q.damaged = prove.damaged /\ q.given = prove.given
        /\ q.life = prove.life /\ q.sent = prove.sent /\ q.outcome = prove.outcome
    BY <1>1, <2>1 DEF ProveSet
  <2> HIDE DEF q
  <2>4. \A i : Saved(prove, i) => Saved(q, i)
    BY <2>1, <2>3 DEF Saved
  <2>5. Needs(q) /\ Saved(q, q.asset)
    BY <1>1, <1>5, <2>1, <2>3 DEF Needs, Storing, Saved, Persistent
  <2>6. \A i \in 1..Len(q.given) : i \in Asset /\ Saved(q, i)
    BY <1>1, <2>3, <2>4 DEF ProveBody
  <2>7. ProveBody(q)
    BY <1>1, <1>5, <2>3, <2>5, <2>6 DEF ProveBody, Persistent
  <2> QED
    BY <1>1, <1>5, <2>2, <2>3, <2>5, <2>7, CollectKeeps
<1> QED
  BY <1>3, <1>4, <1>5

\* A write that has failed removes its temporary file (Tidy).
LEMMA TidyKeeps ==
    ASSUME ProveOK(prove), prove.at \in {"write", "rename"}, NEW temporary \in {"none", "part", "whole"}
    PROVE  ProveOK([prove EXCEPT !.at = "unlink", !.value = "none", !.temporary = temporary])
<1> DEFINE q == [prove EXCEPT !.at = "unlink", !.value = "none", !.temporary = temporary]
<1>1. prove \in ProveSet /\ prove.at \in Working /\ prove.options.cache # "memory"
      /\ HeldAt("unlink") = prove.held
  BY ProveType DEF ProveBody, Needs, Storing, Working, HeldAt
<1>2. q = [prove EXCEPT !.at = "unlink", !.value = "none", !.temporary = temporary,
                        !.loader = prove.loader, !.held = prove.held]
  BY <1>1 DEF ProveSet
<1> HIDE DEF q
<1>3. Changed(q, "unlink", "none", temporary, prove.loader, prove.held)
  BY <1>1, <1>2, ProveType DEF Changed, Working, Storing, Contents
<1> QED
  BY <1>1, <1>3, ProveGoes DEF q

\* The steps of a write to the cache.
LEMMA WriteKeeps ==
    ASSUME ProveOK(prove), DirectoryMade \/ EntryPut \/ TemporaryWritten \/ Renamed \/ Unlinked
    PROVE  ProveOK(prove')
<1>1. /\ prove \in ProveSet /\ ProveBody(prove) /\ prove.at \in Storing /\ prove.at \in Working
      /\ prove.held = HeldAt(prove.at) /\ Proving /\ prove.asset \in Asset
      /\ prove.options.cache # "memory" /\ prove.at \notin {"open", "read", "shut"}
      /\ (prove.at # "unlink" => prove.value = "whole")
  BY ProveType DEF DirectoryMade, EntryPut, TemporaryWritten, Renamed, Unlinked, ProveAwaited,
                   ProveBody, Needs, Storing, Working
<1>2. prove.held = {"signals"} => ProveOK(ProveFails(prove))
  BY <1>1, ProveFailsKeep
<1>3. CASE DirectoryMade
  <2>1. prove.at = "directory" /\ prove.held = {"signals"}
    BY <1>1, <1>3 DEF DirectoryMade, ProveAwaited, HeldAt
  <2> DEFINE held == prove.held \cup {"temporary"}
             write == [prove EXCEPT !.at = "write", !.held = held, !.temporary = "part"]
             put == [prove EXCEPT !.at = "put"]
  <2>2. held \in SUBSET Handles /\ held = HeldAt("write") /\ HeldAt("put") = {"signals"}
    BY <2>1 DEF Handles, HeldAt
  <2>3. prove' \in {ProveFails(prove), write, put}
    BY <1>3 DEF DirectoryMade, ProveAwaited
  <2> HIDE DEF held
  <2>4. write = [prove EXCEPT !.at = "write", !.value = prove.value, !.temporary = "part",
                              !.loader = prove.loader, !.held = held]
        /\ put = [prove EXCEPT !.at = "put", !.value = prove.value, !.temporary = prove.temporary,
                               !.loader = prove.loader, !.held = prove.held]
    BY <1>1 DEF ProveSet
  <2> HIDE DEF write, put
  <2>5. Changed(write, "write", prove.value, "part", prove.loader, held)
        /\ Changed(put, "put", prove.value, prove.temporary, prove.loader, prove.held)
    BY <1>1, <2>1, <2>2, <2>4, ProveType DEF Changed, Working, Storing
  <2>6. ProveOK(write) /\ ProveOK(put)
    BY <1>1, <2>1, <2>2, <2>5, ProveGoes
  <2> QED
    BY <1>2, <2>1, <2>3, <2>6
<1>4. CASE EntryPut
  <2>1. prove.at = "put" /\ prove.held = {"signals"}
    BY <1>1, <1>4 DEF EntryPut, ProveAwaited, HeldAt
  <2>2. ProveOK(Collect(Store(prove)))
    <3>1. Store(prove).at \in Working
      BY <1>1, <2>1, StoreKeeps
    <3> QED
      BY <1>1, <2>1, <3>1, StoreKeeps, CollectKeeps
  <2> QED
    BY <1>2, <1>4, <2>1, <2>2 DEF EntryPut, ProveAwaited
<1>5. CASE TemporaryWritten
  <2>1. prove.at = "write"
    BY <1>5 DEF TemporaryWritten, ProveAwaited
  <2> DEFINE first == [prove EXCEPT !.at = "unlink", !.value = "none", !.temporary = prove.temporary]
             second == [prove EXCEPT !.at = "unlink", !.value = "none", !.temporary = "whole"]
             q == [prove EXCEPT !.at = "rename", !.temporary = "whole"]
  <2>2. Tidy(prove, "none") = first /\ Tidy([prove EXCEPT !.temporary = "whole"], "none") = second
    BY <1>1 DEF Tidy, ProveSet
  <2>3. prove' \in {first, second, q}
    BY <1>5, <2>2 DEF TemporaryWritten, ProveAwaited
  <2>4. q = [prove EXCEPT !.at = "rename", !.value = prove.value, !.temporary = "whole",
                          !.loader = prove.loader, !.held = prove.held]
    BY <1>1 DEF ProveSet
  <2>5. ProveOK(first) /\ ProveOK(second)
    BY <2>1, ProveType, TidyKeeps
  <2> HIDE DEF q, first, second
  <2>6. Changed(q, "rename", prove.value, "whole", prove.loader, prove.held)
    BY <1>1, <2>1, <2>4, ProveType DEF Changed, Working, Storing
  <2>7. ProveOK(q)
    BY <1>1, <2>1, <2>6, ProveGoes DEF HeldAt
  <2> QED
    BY <2>3, <2>5, <2>7
<1>6. CASE Renamed
  <2>1. prove.at = "rename"
    BY <1>6 DEF Renamed, ProveAwaited
  <2> DEFINE first == [prove EXCEPT !.at = "unlink", !.value = "none", !.temporary = prove.temporary]
             p == Store(prove)
             q == [p EXCEPT !.temporary = "none", !.at = "unlink", !.value = "whole"]
  <2>2. p \in ProveSet /\ ProveBody(p) /\ p.at = prove.at /\ p.held = prove.held
        /\ p.value = "whole" /\ p.options = prove.options /\ p.asset = prove.asset
        /\ Saved(p, prove.asset)
    BY <2>1, StoreKeeps
  <2>3. Tidy(prove, "none") = first
    BY <1>1 DEF Tidy, ProveSet
  <2>4. prove' \in {first, q}
    BY <1>6, <2>3 DEF Renamed, ProveAwaited, Tidy
  <2>5. ProveOK(first)
    BY <2>1, ProveType, TidyKeeps
  <2> HIDE DEF p
  <2>6. /\ q \in ProveSet /\ q.at = "unlink" /\ q.options = p.options /\ q.asset = p.asset
        /\ q.memory = p.memory /\ q.disk = p.disk /\ q.damaged = p.damaged /\ q.given = p.given
        /\ q.life = p.life /\ q.sent = p.sent /\ q.outcome = p.outcome /\ q.value = "whole"
        /\ q.held = p.held
    BY <2>2 DEF ProveSet, Working, Storing, Contents
  <2> HIDE DEF q, first
  <2>7. Needs(q) /\ q.at \in Working /\ p.at \in Working
    BY <1>1, <2>2, <2>6 DEF Needs, Saved, Working, Storing
  <2>8. ProveBody(q)
    BY <2>2, <2>6, <2>7, ProveMoves
  <2>9. ProveOK(q)
    BY <1>1, <2>1, <2>2, <2>6, <2>8 DEF ProveOK, HeldAt
  <2> QED
    BY <2>4, <2>5, <2>9
<1>7. CASE Unlinked
  <2>1. prove.at = "unlink" /\ prove.value \in {"none", "whole"}
        /\ (prove.value = "whole" => Saved(prove, prove.asset))
    BY <1>1, <1>7 DEF Unlinked, ProveAwaited, ProveBody, Needs
  <2> DEFINE held == prove.held \ {"temporary"}
             tidy == [prove EXCEPT !.held = held]
             gone == [tidy EXCEPT !.temporary = "none"]
             Emptied(p) == IF p.value = "none" THEN ProveFails(p) ELSE Collect(p)
  <2>2. held = {"signals"} /\ held \in SUBSET Handles
    BY <1>1, <2>1 DEF HeldAt, Handles
  <2>3. prove' \in {Emptied(tidy), Emptied(gone)}
    BY <1>7 DEF Unlinked, ProveAwaited
  <2> HIDE DEF held
  <2>4. tidy = [prove EXCEPT !.at = prove.at, !.value = prove.value, !.temporary = prove.temporary,
                             !.loader = prove.loader, !.held = held]
        /\ gone = [prove EXCEPT !.at = prove.at, !.value = prove.value, !.temporary = "none",
                                !.loader = prove.loader, !.held = held]
    BY <1>1 DEF ProveSet
  <2> HIDE DEF tidy, gone
  <2>5. Changed(tidy, prove.at, prove.value, prove.temporary, prove.loader, held)
        /\ Changed(gone, prove.at, prove.value, "none", prove.loader, held)
    BY <1>1, <2>1, <2>2, <2>4, ProveType DEF Changed
  <2>6. ASSUME NEW p \in {tidy, gone} PROVE ProveOK(Emptied(p))
    <3>1. ProveBody(p) /\ p.held = {"signals"} /\ p.at = prove.at /\ p.value = prove.value
          /\ p.options = prove.options /\ p.asset = prove.asset
          /\ (Saved(prove, prove.asset) <=> Saved(p, p.asset))
      BY <1>1, <2>2, <2>5, <2>6, ProveGoes
    <3>2. CASE p.value = "none"
      BY <1>1, <3>1, <3>2, ProveFailsKeep
    <3>3. CASE p.value = "whole"
      BY <1>1, <2>1, <3>1, <3>3, CollectKeeps
    <3> QED
      BY <2>1, <3>1, <3>2, <3>3
  <2> QED
    BY <2>3, <2>6
<1> QED
  BY <1>3, <1>4, <1>5, <1>6, <1>7

\* close(), and the other processes, which fill the directory with whole files.
LEMMA ProveLifeKeeps ==
    ASSUME ProveOK(prove), AssetsClosed \/ CloseAssets \/ OtherStores
    PROVE  ProveOK(prove')
<1>1. prove \in ProveSet /\ ProveBody(prove) /\ prove.held = HeldAt(prove.at)
  BY ProveType
<1>2. ASSUME NEW life \in {"open", "closing", "closed"}, NEW memory \in SUBSET Asset,
             NEW disk \in [Asset -> {"absent", "whole", "altered", "short"}],
             life = "closed" => prove.at \in {"idle", "over"} /\ memory = {},
             prove.life = "closed" => life = "closed",
             memory = prove.memory \/ life = "closed",
             \A i \in Asset : disk[i] = prove.disk[i]
                              \/ (prove.disk[i] = "absent" /\ disk[i] = "whole"),
             prove' = [prove EXCEPT !.life = life, !.memory = memory, !.disk = disk]
      PROVE  ProveOK(prove')
  <2> DEFINE q == prove'
  <2>1. /\ q \in ProveSet /\ q.at = prove.at /\ q.value = prove.value /\ q.held = prove.held
        /\ q.asset = prove.asset /\ q.options = prove.options /\ q.memory = memory
        /\ q.disk = disk /\ q.damaged = prove.damaged /\ q.given = prove.given
        /\ q.life = life /\ q.sent = prove.sent /\ q.outcome = prove.outcome
    BY <1>1, <1>2 DEF ProveSet
  <2> HIDE DEF q
  <2>2. \A i \in Asset : Saved(prove, i) => Saved(q, i)
    BY <1>2, <2>1 DEF Saved
  <2>3. prove.at \in Working => prove.asset \in Asset
    BY <1>1 DEF ProveBody
  <2>4. Needs(q)
    BY <1>1, <2>1, <2>2, <2>3 DEF ProveBody, Needs, Working, Storing
  <2>5. \A i \in 1..Len(q.given) : i \in Asset /\ Saved(q, i)
    BY <1>1, <2>1, <2>2 DEF ProveBody
  <2>6. q.options.cache # "memory" \/ q.life = "closed" => q.memory = {}
    BY <1>1, <1>2, <2>1 DEF ProveBody
  <2>7. \A i \in Asset \ q.damaged : q.disk[i] \in {"absent", "whole"}
    BY <1>1, <1>2, <2>1 DEF ProveBody
  <2>8. q.at \in Working => q.life # "closed"
    BY <1>2, <2>1 DEF Working, Storing
  <2>9. ProveBody(q)
    BY <1>1, <2>1, <2>4, <2>5, <2>6, <2>7, <2>8 DEF ProveBody
  <2> QED
    BY <1>1, <2>1, <2>9 DEF ProveOK, q
<1>3. prove.life \in {"open", "closing", "closed"} /\ prove.memory \in SUBSET Asset
      /\ prove.disk \in [Asset -> {"absent", "whole", "altered", "short"}]
  BY <1>1 DEF ProveSet
<1>4. CASE AssetsClosed
  <2>1. prove' = [prove EXCEPT !.life = "closed", !.memory = {}, !.disk = prove.disk]
    BY <1>1, <1>4 DEF AssetsClosed, ProveSet
  <2> QED
    BY <1>2, <1>3, <1>4, <2>1 DEF AssetsClosed
<1>5. CASE CloseAssets
  <2>1. prove' = [prove EXCEPT !.life = "closing", !.memory = prove.memory, !.disk = prove.disk]
    BY <1>1, <1>5 DEF CloseAssets, ProveSet
  <2> QED
    BY <1>2, <1>3, <1>5, <2>1 DEF CloseAssets
<1>6. CASE OtherStores
  <2>1. PICK i \in Asset : prove.disk[i] = "absent" /\ prove' = [prove EXCEPT !.disk[i] = "whole"]
    BY <1>6 DEF OtherStores
  <2> DEFINE disk == [prove.disk EXCEPT ![i] = "whole"]
  <2>2. prove' = [prove EXCEPT !.life = prove.life, !.memory = prove.memory, !.disk = disk]
    BY <1>1, <2>1 DEF ProveSet
  <2>3. disk \in [Asset -> {"absent", "whole", "altered", "short"}]
        /\ \A j \in Asset : disk[j] = prove.disk[j]
                            \/ (prove.disk[j] = "absent" /\ disk[j] = "whole")
    BY <1>3, <2>1
  <2> HIDE DEF disk
  <2>4. prove.life = "closed" => prove.at \in {"idle", "over"} /\ prove.memory = {}
    BY <1>1 DEF ProveBody, ProveSet
  <2> QED
    BY <1>2, <1>3, <2>2, <2>3, <2>4
<1> QED
  BY <1>4, <1>5, <1>6

\* No step of a load leaves what is known of it (ProveNext).
LEMMA ProveStepOK == ASSUME ProveOK(prove), ProveNext PROVE ProveOK(prove)'
<1>1. exchange' = exchange
  BY DEF ProveNext, ProveStep, ProveRefused, ProveStart, ProveStopped, PackageCut, AssetsClosed,
     CacheOpened, CacheRead, CacheShut, CacheDigest, LoadDigest, DirectoryMade, EntryPut,
     TemporaryWritten, Renamed, Unlinked, ProveAwaited, PackageOpened, PackageChunk,
     ApplicationAnswers, CloseAssets, ProveAbort, OtherStores, caller
<1>2. ProveAbort => prove' = prove
  BY DEF ProveAbort
<1>3. ProveOK(prove')
  BY <1>2, ProveBegins, CacheKeeps, LoaderStepKeeps, LoadDigestKeeps, WriteKeeps, ProveLifeKeeps
     DEF ProveNext, ProveStep
<1> QED
  BY <1>1, <1>3 DEF ProveOK, ProveBody, Proving

\* A load that has not begun, on a cache as others left it (ProveInit).
LEMMA ProveInitOK == ASSUME ProveInit PROVE ProveOK(prove)
<1>1. PICK options \in Options, memory \in SUBSET Asset,
           disk \in [Asset -> {"absent", "whole", "altered", "short"}] :
        /\ options.cache # "memory" => memory = {}
        /\ prove = [at |-> "idle", options |-> options, asset |-> 0, value |-> "none",
                    memory |-> memory, disk |-> disk,
                    damaged |-> {i \in Asset : disk[i] \in {"altered", "short"}},
                    temporary |-> "none", given |-> <<>>, loader |-> Silent, life |-> "open",
                    sent |-> 0, held |-> {}, outcome |-> "none"]
  BY DEF ProveInit
<1>2. prove \in ProveSet
  <2>1. {} \in SUBSET Handles /\ <<>> \in Seq({"whole"}) /\ Silent \in LoaderSet
        /\ {i \in Asset : disk[i] \in {"altered", "short"}} \in SUBSET Asset
    BY DEF Silent, LoaderSet
  <2> QED
    BY <1>1, <2>1 DEF ProveSet, Contents, Outcome
<1>3. Len(<<>>) = 0
  OBVIOUS
<1>4. Needs(prove) /\ prove.at \notin Working
  BY <1>1 DEF Needs, Working, Storing
<1> QED
  BY <1>1, <1>2, <1>3, <1>4 DEF ProveOK, ProveBody, HeldAt

-----------------------------------------------------------------------------
(* The bytes of a body (GrpcWeb) *)

\* Every set of natural numbers has a least member: induction, with which what a recursive
\* function computes can be shown.
LEMMA LeastMember ==
    ASSUME NEW S \in SUBSET Nat, S # {}
    PROVE  \E n \in S : \A m \in S : n <= m
<1> DEFINE Segments == {0..n : n \in S}
<1>1. Segments \subseteq FiniteSubsetsOf(Nat)
  <2>1. \A n \in S : IsFiniteSet(0..n) /\ 0..n \in SUBSET Nat
    BY FS_Interval
  <2> QED
    BY <2>1 DEF FiniteSubsetsOf
<1>2. IsWellFoundedOn(StrictSubsetOrdering(Nat), FiniteSubsetsOf(Nat))
  BY FS_StrictSubsetOrderingWellFounded
<1>6. Segments # {}
  OBVIOUS
<1> HIDE DEF Segments
<1>3. \E x \in Segments : \A y \in Segments : ~(<<y, x>> \in StrictSubsetOrdering(Nat))
  BY <1>1, <1>2, <1>6, WFMin
<1> USE DEF Segments
<1>4. PICK n \in S : \A m \in S : ~(<<0..m, 0..n>> \in StrictSubsetOrdering(Nat))
  BY <1>3
<1>5. ASSUME NEW m \in S, m < n PROVE FALSE
  <2>1. /\ 0..m \in SUBSET Nat /\ 0..n \in SUBSET Nat
        /\ 0..m \subseteq 0..n /\ n \in 0..n /\ n \notin 0..m
    BY <1>5
  <2> QED
    BY <1>4, <2>1 DEF StrictSubsetOrdering
<1> QED
  BY <1>5

-----------------------------------------------------------------------------

\* The frames of a body, and its bytes: each is that of a frame, at a position.
FrameSet == [kind : {"data", "trailer", "unknown"}, length : Nat, ok : BOOLEAN]
Byte == Nat \X Nat

\* off[i] bytes precede frame i.
Offsets(body, off) ==
    /\ off \in [1..Len(body) + 1 -> Nat]
    /\ off[1] = 0
    /\ \A i \in 1..Len(body) : off[i + 1] = off[i] + HeaderBytes + body[i].length

\* The bytes of the first n frames, one frame after the other.
Laid(bytes, body, n, off) ==
    /\ bytes \in Seq(Byte)
    /\ Len(bytes) = off[n + 1]
    /\ \A i \in 1..n : \A p \in 1..HeaderBytes + body[i].length : bytes[off[i] + p] = <<i, p>>

\* A function that FlattenSeq may choose, up to frame n, and what it computes.
Flat(body, n, f, off) ==
    /\ f \in [1..n -> Seq(Byte)]
    /\ \A i \in 1..n : f[i] = IF i = 1 THEN FrameBytes(i, body[i].length)
                              ELSE f[i - 1] \o FrameBytes(i, body[i].length)
    /\ \A i \in 1..n : Laid(f[i], body, i, off)

\* A body has offsets: where each of its frames begins.
LEMMA OffsetsExist == ASSUME NEW body \in Seq(FrameSet) PROVE \E off : Offsets(body, off)
<1> DEFINE N == Len(body)
           Upto(n, off) == /\ off \in [1..n + 1 -> Nat]
                           /\ off[1] = 0
                           /\ \A i \in 1..n : off[i + 1] = off[i] + HeaderBytes + body[i].length
           Bad == {n \in 0..N : ~\E off : Upto(n, off)}
<1>1. CASE Bad = {}
  <2>1. N \in 0..N
    OBVIOUS
  <2> QED
    BY <1>1, <2>1 DEF Offsets
<1>2. CASE Bad # {}
  <2>0. Bad \in SUBSET Nat /\ N \in Nat
    OBVIOUS
  <2> HIDE DEF Upto
  <2>1. PICK n \in Bad : \A m \in Bad : n <= m
    <3> HIDE DEF Bad
    <3> QED
      BY <1>2, <2>0, LeastMember
  <2>7. n \in 0..N /\ ~\E off : Upto(n, off)
    BY <2>1
  <2>2. n # 0
    <3>1. Upto(0, [i \in 1..1 |-> 0])
      BY DEF Upto
    <3> QED
      BY <2>7, <3>1
  <2>3. PICK off : Upto(n - 1, off)
    <3>1. n - 1 \in 0..N /\ n - 1 \notin Bad
      <4>1. n - 1 \in 0..N /\ n - 1 < n
        BY <2>2, <2>7
      <4> HIDE DEF Bad
      <4> QED
        BY <2>0, <2>1, <4>1
    <3> QED
      BY <3>1
  <2>4. HeaderBytes + body[n].length \in Nat
    <3>1. n \in 1..N
      BY <2>2, <2>7
    <3>2. body[n] \in FrameSet
      BY <3>1
    <3> QED
      BY <3>2, HeaderAssumption DEF FrameSet
  <2> USE DEF Upto
  <2> DEFINE next == [i \in 1..n + 1 |-> IF i <= n THEN off[i] ELSE off[n] + HeaderBytes + body[n].length]
  <2>5. Upto(n, next)
    <3>1. next \in [1..n + 1 -> Nat]
      <4>1. \A i \in 1..n : off[i] \in Nat
        BY <2>2, <2>3, <2>7
      <4>2. n \in 1..n /\ off[n] + HeaderBytes + body[n].length \in Nat
        <5>1. n \in 1..n /\ off[n] \in Nat
          BY <2>2, <2>7, <4>1
        <5>2. body[n] \in FrameSet
          BY <2>2, <2>7
        <5> QED
          BY <5>1, <5>2, HeaderAssumption DEF FrameSet
      <4> QED
        BY <2>7, <4>1, <4>2
    <3>2. next[1] = 0
      BY <2>2, <2>3, <2>7
    <3>3. ASSUME NEW i \in 1..n PROVE next[i + 1] = next[i] + HeaderBytes + body[i].length
      BY <2>2, <2>3, <2>7
    <3> QED
      BY <3>1, <3>2, <3>3
  <2> QED
    BY <2>5, <2>7
<1> QED
  BY <1>1, <1>2

\* The offsets grow.
LEMMA OffsetsGrow ==
    ASSUME NEW body \in Seq(FrameSet), NEW off, Offsets(body, off),
           NEW i \in 1..Len(body) + 1, NEW j \in 1..Len(body) + 1, i <= j
    PROVE  off[i] <= off[j]
<1> DEFINE Bad == {k \in 1..Len(body) + 1 : i <= k /\ off[k] < off[i]}
<1>1. SUFFICES ASSUME Bad # {} PROVE FALSE
  <2>1. off[i] \in Nat /\ off[j] \in Nat
    BY DEF Offsets
  <2>2. j \notin Bad
    BY <1>1
  <2> QED
    BY <2>1, <2>2
<1>2. PICK k \in Bad : \A m \in Bad : k <= m
  <2>1. Bad \in SUBSET Nat
    OBVIOUS
  <2> HIDE DEF Bad
  <2> QED
    BY <1>1, <2>1, LeastMember
<1>3. k \in 1..Len(body) + 1 /\ i <= k /\ off[k] < off[i] /\ Len(body) \in Nat
  BY <1>2
<1>4. off[i] \in Nat /\ off[k] \in Nat
  BY <1>3 DEF Offsets
<1>5. k - 1 \in 1..Len(body) /\ i <= k - 1
  BY <1>3, <1>4
<1>6. off[k - 1] \in Nat /\ off[k] = off[k - 1] + HeaderBytes + body[k - 1].length
  <2>1. (k - 1) + 1 = k /\ k - 1 \in 1..Len(body) + 1
    BY <1>3, <1>5
  <2>2. off[(k - 1) + 1] = off[k - 1] + HeaderBytes + body[k - 1].length
    BY <1>5 DEF Offsets
  <2>3. off[k - 1] \in Nat
    BY <2>1 DEF Offsets
  <2> QED
    BY <2>1, <2>2, <2>3
<1>7. body[k - 1].length \in Nat
  <2>1. body[k - 1] \in FrameSet
    BY <1>5
  <2> QED
    BY <2>1 DEF FrameSet
<1>8. off[k - 1] < off[i]
  <2>1. off[k] \in Nat /\ off[i] \in Nat /\ off[k] < off[i]
    BY <1>3, <1>4
  <2>2. HeaderBytes \in Nat
    BY HeaderAssumption
  <2>3. off[k - 1] \in Nat /\ off[k - 1] <= off[k]
    BY <1>6, <1>7, <2>2
  <2> QED
    BY <2>1, <2>3
<1>9. k - 1 \in Bad
  BY <1>3, <1>5, <1>8
<1>10. k - 1 < k
  BY <1>3
<1> HIDE DEF Bad
<1> QED
  BY <1>2, <1>3, <1>9, <1>10

\* The bytes of a frame are those of its header and of its payload, in order (FrameBytes).
LEMMA FrameLaid ==
    ASSUME NEW i \in Nat, NEW length \in Nat
    PROVE  /\ FrameBytes(i, length) \in Seq(Byte)
           /\ Len(FrameBytes(i, length)) = HeaderBytes + length
           /\ \A p \in 1..HeaderBytes + length : FrameBytes(i, length)[p] = <<i, p>>
<1>1. HeaderBytes + length \in Nat
  BY HeaderAssumption
<1>2. \A p \in 1..HeaderBytes + length : <<i, p>> \in Byte
  BY <1>1 DEF Byte
<1> QED
  BY <1>1, <1>2 DEF FrameBytes

\* One more frame after n of them.
LEMMA LaidNext ==
    ASSUME NEW body \in Seq(FrameSet), NEW off, Offsets(body, off),
           NEW n \in 0..Len(body) - 1, NEW bytes, Laid(bytes, body, n, off)
    PROVE  Laid(bytes \o FrameBytes(n + 1, body[n + 1].length), body, n + 1, off)
<1> DEFINE length == body[n + 1].length
           next == FrameBytes(n + 1, length)
           both == bytes \o next
<1>0. Len(body) \in Nat /\ n \in Nat /\ n + 1 \in Nat /\ n + 1 \in 1..Len(body)
  OBVIOUS
<1>1. body[n + 1] \in FrameSet
  BY <1>0
<1>2. length \in Nat
  BY <1>1 DEF FrameSet
<1>3. off[n + 1] \in Nat /\ off[n + 2] = off[n + 1] + HeaderBytes + length
  BY <1>0 DEF Offsets
<1> HIDE DEF length
<1>4. next \in Seq(Byte) /\ Len(next) = HeaderBytes + length
      /\ \A p \in 1..HeaderBytes + length : next[p] = <<n + 1, p>>
  BY <1>0, <1>2, FrameLaid
<1>5. bytes \in Seq(Byte) /\ Len(bytes) = off[n + 1]
  BY DEF Laid
<1> HIDE DEF next
<1>6. both \in Seq(Byte) /\ Len(both) = off[n + 2]
  <2>0. bytes \in Seq(Byte) /\ next \in Seq(Byte)
    BY <1>4, <1>5
  <2>1. both \in Seq(Byte) /\ Len(both) = Len(bytes) + Len(next)
    BY <2>0
  <2> HIDE DEF both
  <2> QED
    BY <1>2, <1>3, <1>4, <1>5, <2>1, HeaderAssumption
<1>7. ASSUME NEW i \in 1..n + 1, NEW p \in 1..HeaderBytes + body[i].length
      PROVE  both[off[i] + p] = <<i, p>>
  <2>1. CASE i = n + 1
    <3>1. p \in 1..HeaderBytes + length /\ off[i] = Len(bytes)
      BY <1>5, <1>7, <2>1 DEF length
    <3>2. both[Len(bytes) + p] = next[p]
      <4>1. bytes \in Seq(Byte) /\ next \in Seq(Byte) /\ p \in 1..Len(next)
        BY <1>4, <1>5, <3>1
      <4> QED
        BY <4>1
    <3> QED
      BY <1>4, <2>1, <3>1, <3>2
  <2>2. CASE i # n + 1
    <3>1. i \in 1..n /\ i \in 1..Len(body) /\ i + 1 \in 1..Len(body) + 1
      BY <1>0, <1>7, <2>2
    <3>2. bytes[off[i] + p] = <<i, p>>
      BY <1>7, <3>1 DEF Laid
    <3>3. off[i + 1] <= off[n + 1]
      BY <1>0, <3>1, OffsetsGrow
    <3>4. off[i] \in Nat /\ off[i + 1] = off[i] + HeaderBytes + body[i].length
          /\ body[i] \in FrameSet
      BY <3>1 DEF Offsets
    <3>5. off[i] + p \in 1..Len(bytes)
      <4>1. body[i].length \in Nat
        BY <3>4 DEF FrameSet
      <4>2. p \in Nat /\ p >= 1 /\ p <= HeaderBytes + body[i].length
        BY <1>7, <4>1, HeaderAssumption
      <4> HIDE DEF both
      <4>3. HeaderBytes + body[i].length \in Nat
        BY <4>1, HeaderAssumption
      <4>4. off[i + 1] = off[i] + (HeaderBytes + body[i].length)
        BY <3>4, <4>1, HeaderAssumption
      <4>5. off[i] + p <= off[i + 1]
        BY <3>4, <4>2, <4>3, <4>4
      <4> QED
        <5>1. off[i + 1] \in Nat /\ off[i] + p \in Nat /\ off[i] + p >= 1
          BY <3>4, <4>2, <4>3, <4>4
        <5>2. off[i] + p <= off[n + 1]
          BY <1>3, <3>3, <4>5, <5>1
        <5> QED
          BY <1>3, <1>5, <5>1, <5>2
    <3> QED
      BY <1>4, <1>5, <3>2, <3>5
  <2> QED
    BY <2>1, <2>2
<1> QED
  <2>1. (n + 1) + 1 = n + 2
    BY <1>0
  <2> QED
    BY <1>6, <1>7, <2>1 DEF Laid, next, length

\* What FlattenSeq computes of the first n frames, by its recursive function.
LEMMA FlatExists ==
    ASSUME NEW body \in Seq(FrameSet), NEW off, Offsets(body, off), Len(body) > 0
    PROVE  \E f : Flat(body, Len(body), f, off)
<1> DEFINE Bad == {n \in 1..Len(body) : ~\E f : Flat(body, n, f, off)}
<1>1. SUFFICES ASSUME Bad # {} PROVE FALSE
  <2>1. Len(body) \in 1..Len(body)
    OBVIOUS
  <2> QED
    BY <1>1, <2>1
<1>2. PICK n \in Bad : \A m \in Bad : n <= m
  <2>1. Bad \in SUBSET Nat
    OBVIOUS
  <2> HIDE DEF Bad
  <2> QED
    BY <1>1, <2>1, LeastMember
<1>3. n \in 1..Len(body) /\ Len(body) \in Nat /\ ~\E f : Flat(body, n, f, off)
  BY <1>2
<1>4. body[n] \in FrameSet /\ body[1] \in FrameSet
  BY <1>3
<1>5. n # 1
  <2> DEFINE first == FrameBytes(1, body[1].length)
             f == [i \in 1..1 |-> first]
  <2>1. first \in Seq(Byte) /\ Len(first) = HeaderBytes + body[1].length
        /\ \A p \in 1..HeaderBytes + body[1].length : first[p] = <<1, p>>
    BY <1>4, FrameLaid DEF FrameSet
  <2>2. off[1] = 0 /\ off[1 + 1] = off[1] + HeaderBytes + body[1].length
    BY <1>3 DEF Offsets
  <2>3. body[1].length \in Nat
    BY <1>4 DEF FrameSet
  <2> HIDE DEF first
  <2>4. Laid(first, body, 1, off)
    <3>1. Len(first) = off[1 + 1]
      BY <2>1, <2>2, <2>3, HeaderAssumption
    <3>2. \A p \in 1..HeaderBytes + body[1].length : off[1] + p = p
      BY <2>2, <2>3, HeaderAssumption
    <3>3. \A p \in 1..HeaderBytes + body[1].length : first[off[1] + p] = <<1, p>>
      BY <2>1, <3>2
    <3>4. \A i \in 1..1 : i = 1
      OBVIOUS
    <3> QED
      BY <2>1, <3>1, <3>3, <3>4 DEF Laid
  <2>5. Flat(body, 1, f, off)
    <3>1. f \in [1..1 -> Seq(Byte)] /\ f[1] = first
      BY <2>1
    <3>2. \A i \in 1..1 : i = 1
      OBVIOUS
    <3> HIDE DEF f
    <3> QED
      BY <2>4, <3>1, <3>2 DEF Flat, first
  <2> QED
    BY <1>3, <2>5
<1>6. PICK f : Flat(body, n - 1, f, off)
  <2>1. n - 1 \in 1..Len(body) /\ n - 1 < n
    BY <1>3, <1>5
  <2> HIDE DEF Bad
  <2>2. n - 1 \notin Bad
    BY <1>2, <1>3, <2>1
  <2> QED
    BY <2>1, <2>2 DEF Bad
<1> DEFINE more == f[n - 1] \o FrameBytes(n, body[n].length)
           next == [i \in 1..n |-> IF i = n THEN more ELSE f[i]]
<1>7. n - 1 \in 1..n - 1 /\ n - 1 \in 0..Len(body) - 1 /\ (n - 1) + 1 = n /\ n \in Nat
  BY <1>3, <1>5
<1>8. Laid(more, body, n, off)
  <2>1. Laid(f[n - 1], body, n - 1, off)
    BY <1>6, <1>7 DEF Flat
  <2>2. Laid(f[n - 1] \o FrameBytes((n - 1) + 1, body[(n - 1) + 1].length), body, (n - 1) + 1, off)
    BY <1>7, <2>1, LaidNext
  <2> QED
    BY <1>7, <2>2
<1>9. more \in Seq(Byte)
  BY <1>8 DEF Laid
<1> HIDE DEF more
<1>10. Flat(body, n, next, off)
  <2>1. \A i \in 1..n : i # n => i \in 1..n - 1
    BY <1>7
  <2>2. \A i \in 1..n - 1 : f[i] \in Seq(Byte) /\ Laid(f[i], body, i, off)
    BY <1>6 DEF Flat
  <2>3. next \in [1..n -> Seq(Byte)]
    BY <1>9, <2>1, <2>2
  <2>4. \A i \in 1..n : Laid(next[i], body, i, off)
    BY <1>8, <2>1, <2>2
  <2>5. \A i \in 1..n : next[i] = IF i = 1 THEN FrameBytes(i, body[i].length)
                                  ELSE next[i - 1] \o FrameBytes(i, body[i].length)
    <3>1. \A i \in 1..n : i # 1 => i - 1 \in 1..n /\ i - 1 # n
      BY <1>7
    <3>2. \A i \in 1..n - 1 : f[i] = IF i = 1 THEN FrameBytes(i, body[i].length)
                                     ELSE f[i - 1] \o FrameBytes(i, body[i].length)
      BY <1>6 DEF Flat
    <3>3. next[n] = more
      BY <1>7
    <3>4. \A i \in 1..n : i # n => next[i] = f[i]
      OBVIOUS
    <3> HIDE DEF next
    <3>5. more = f[n - 1] \o FrameBytes(n, body[n].length)
      BY DEF more
    <3>6. n - 1 \in 1..n /\ n - 1 # n /\ n # 1
      BY <1>5, <1>7
    <3>7. ASSUME NEW i \in 1..n
          PROVE  next[i] = IF i = 1 THEN FrameBytes(i, body[i].length)
                           ELSE next[i - 1] \o FrameBytes(i, body[i].length)
      <4>1. CASE i = n
        <5>1. next[n - 1] = f[n - 1]
          BY <3>4, <3>6
        <5> QED
          BY <3>3, <3>5, <3>6, <4>1, <5>1
      <4>2. CASE i # n
        <5>1. i \in 1..n - 1 /\ next[i] = f[i]
          BY <2>1, <3>4, <4>2
        <5>2. i # 1 => next[i - 1] = f[i - 1]
          BY <3>1, <3>4, <4>2
        <5> QED
          BY <3>2, <5>1, <5>2
      <4> QED
        BY <4>1, <4>2
    <3> QED
      BY <3>7
  <2> HIDE DEF next
  <2> QED
    BY <2>3, <2>4, <2>5 DEF Flat
<1> QED
  BY <1>3, <1>10

\* The bytes of a body are those of its frames, one after the other, each at its offset
\* (Bytes).
LEMMA BytesLaid ==
    ASSUME NEW body \in Seq(FrameSet), NEW off, Offsets(body, off)
    PROVE  Laid(Bytes(body), body, Len(body), off)
<1> DEFINE n == Len(body)
           seqs == [i \in DOMAIN body |-> FrameBytes(i, body[i].length)]
<1>0. n \in Nat /\ DOMAIN body = 1..n /\ Len(seqs) = n
  OBVIOUS
<1>1. CASE n = 0
  <2>1. Bytes(body) = seqs /\ seqs = <<>>
    BY <1>0, <1>1 DEF Bytes, FlattenSeq
  <2> QED
    BY <1>1, <2>1 DEF Laid, Offsets
<1>2. CASE n # 0
  <2>1. PICK f : Flat(body, n, f, off)
    BY <1>0, <1>2, FlatExists
  <2> DEFINE Step(g) == [i \in 1..n |-> IF i = 1 THEN seqs[i] ELSE g[i - 1] \o seqs[i]]
             chosen == CHOOSE g : g = Step(g)
  <2>2. Bytes(body) = chosen[n]
    BY <1>0, <1>2 DEF Bytes, FlattenSeq
  <2>3. f = Step(f)
    <3>1. f = [i \in 1..n |-> f[i]]
      BY <2>1 DEF Flat
    <3>2. \A i \in 1..n : f[i] = IF i = 1 THEN seqs[i] ELSE f[i - 1] \o seqs[i]
      BY <1>0, <2>1 DEF Flat
    <3> HIDE DEF seqs
    <3> QED
      BY <3>1, <3>2
  <2>4. chosen = Step(chosen)
    BY <2>3
  <2> DEFINE Bad == {i \in 1..n : chosen[i] # f[i]}
  <2>5. Bad = {}
    <3>1. SUFFICES ASSUME Bad # {} PROVE FALSE
      OBVIOUS
    <3>2. Bad \in SUBSET Nat
      <4> HIDE DEF chosen
      <4> QED
        BY <1>0
    <3>3. PICK i \in Bad : \A j \in Bad : i <= j
      <4> HIDE DEF Bad
      <4> QED
        BY <3>1, <3>2, LeastMember
    <3>4. i \in 1..n /\ chosen[i] # f[i]
      BY <3>3
    <3> HIDE DEF chosen, seqs
    <3>5. chosen[i] = IF i = 1 THEN seqs[i] ELSE chosen[i - 1] \o seqs[i]
      BY <2>4, <3>4
    <3>6. f[i] = IF i = 1 THEN seqs[i] ELSE f[i - 1] \o seqs[i]
      BY <2>3, <3>4
    <3>7. i # 1
      BY <3>4, <3>5, <3>6
    <3>8. i - 1 \in 1..n /\ i - 1 < i
      BY <1>0, <3>4, <3>7
    <3>9. i - 1 \notin Bad
      BY <1>0, <3>3, <3>4, <3>8
    <3> QED
      BY <3>4, <3>5, <3>6, <3>7, <3>8, <3>9
  <2>6. n \in 1..n
    BY <1>0, <1>2
  <2>7. chosen[n] = f[n]
    <3> HIDE DEF chosen
    <3> QED
      BY <2>5, <2>6
  <2>8. Laid(f[n], body, n, off)
    BY <2>1, <2>6 DEF Flat
  <2> QED
    BY <2>2, <2>7, <2>8
<1> QED
  BY <1>1, <1>2

\* The bytes of the first n frames are as many as precede the next.
LEMMA PrefixLaid ==
    ASSUME NEW body \in Seq(FrameSet), NEW off, Offsets(body, off), NEW n \in 0..Len(body)
    PROVE  Len(Bytes(SubSeq(body, 1, n))) = off[n + 1]
<1> DEFINE first == SubSeq(body, 1, n)
           upto == [i \in 1..n + 1 |-> off[i]]
<1>1. first \in Seq(FrameSet) /\ Len(first) = n /\ Len(body) \in Nat /\ n \in Nat
      /\ \A i \in 1..n : first[i] = body[i]
  OBVIOUS
<1> HIDE DEF first
<1>2. Offsets(first, upto)
  <2>1. \A i \in 1..n + 1 : i \in 1..Len(body) + 1
    BY <1>1
  <2>2. upto \in [1..n + 1 -> Nat] /\ upto[1] = 0
    BY <1>1, <2>1 DEF Offsets
  <2>3. \A i \in 1..n : i \in 1..Len(body) /\ i \in 1..n + 1 /\ i + 1 \in 1..n + 1
    BY <1>1
  <2>4. \A i \in 1..n : upto[i + 1] = upto[i] + HeaderBytes + first[i].length
    BY <1>1, <2>3 DEF Offsets
  <2> HIDE DEF upto
  <2> QED
    BY <1>1, <2>2, <2>4 DEF Offsets
<1>3. Laid(Bytes(first), first, n, upto)
  BY <1>1, <1>2, BytesLaid
<1>4. upto[n + 1] = off[n + 1]
  BY <1>1
<1> QED
  BY <1>3, <1>4 DEF Laid, first

-----------------------------------------------------------------------------
(* The decoder *)

\* The states of the decoder.
FrameState ==
    [used : 0..HeaderBytes, head : FrameSet \cup {"none"}, payload : Seq(Byte), count : Nat,
     terminal : BOOLEAN]

\* The bytes that are there, from k on, are those the server sent, up to s.
Pending(chunk, s, k, bytes) ==
    /\ chunk \in Seq(Byte)
    /\ k \in Nat
    /\ k + Len(chunk) = s
    /\ s <= Len(bytes)
    /\ \A j \in 1..Len(chunk) : chunk[j] = bytes[k + j]

\* The decoder has used k bytes: f - 1 frames, and what it has of frame f.
Decoding(fr, body, off, f, k) ==
    /\ f \in 1..Len(body) + 1
    /\ fr.used < HeaderBytes => fr.payload = <<>> /\ k = off[f] + fr.used
    /\ fr.used = HeaderBytes =>
          /\ f <= Len(body)
          /\ fr.head = body[f]
          /\ k = off[f] + HeaderBytes + Len(fr.payload)
          /\ Len(fr.payload) < body[f].length
          /\ \A p \in 1..Len(fr.payload) : fr.payload[p] = <<f, HeaderBytes + p>>

\* What the hypotheses about a decoder that has bytes say together.
Turning(body, off, bytes, fr, chunk, s, f, k) ==
    /\ body \in Seq(FrameSet) /\ Offsets(body, off) /\ Laid(bytes, body, Len(body), off)
    /\ fr \in FrameState /\ Pending(chunk, s, k, bytes) /\ chunk # <<>>
    /\ Decoding(fr, body, off, f, k)

\* Bytes that are taken from the front of a chunk leave the rest of it.
LEMMA PendingRest ==
    ASSUME NEW chunk, NEW s, NEW k, NEW bytes \in Seq(Byte), Pending(chunk, s, k, bytes),
           NEW n \in 0..Len(chunk)
    PROVE  Pending(SubSeq(chunk, n + 1, Len(chunk)), s, k + n, bytes)
<1> DEFINE rest == SubSeq(chunk, n + 1, Len(chunk))
<1>1. chunk \in Seq(Byte) /\ k \in Nat /\ k + Len(chunk) = s /\ Len(chunk) \in Nat /\ n \in Nat
      /\ n <= Len(chunk) /\ s <= Len(bytes)
  BY DEF Pending
<1>2. rest \in Seq(Byte) /\ Len(rest) = Len(chunk) - n
      /\ \A j \in 1..Len(rest) : rest[j] = chunk[n + j]
  BY <1>1
<1> HIDE DEF rest
<1>3. ASSUME NEW j \in 1..Len(rest) PROVE rest[j] = bytes[k + n + j]
  <2>1. n + j \in 1..Len(chunk) /\ j \in Nat
    BY <1>1, <1>2, <1>3
  <2>2. chunk[n + j] = bytes[k + (n + j)]
    BY <2>1 DEF Pending
  <2>3. k + (n + j) = k + n + j
    BY <1>1, <2>1
  <2> QED
    BY <1>2, <2>2, <2>3
<1>4. (k + n) + Len(rest) = s /\ k + n \in Nat
  BY <1>1, <1>2
<1> QED
  BY <1>1, <1>2, <1>3, <1>4 DEF Pending, rest

\* There is a frame whose bytes are there.
LEMMA TurnPlace ==
    ASSUME NEW body, NEW off, NEW bytes, NEW fr, NEW chunk, NEW s, NEW f, NEW k,
           Turning(body, off, bytes, fr, chunk, s, f, k)
    PROVE  /\ f \in 1..Len(body) /\ body[f] \in FrameSet /\ f + 1 \in 1..Len(body) + 1
           /\ off[f] \in Nat /\ off[f + 1] = off[f] + HeaderBytes + body[f].length
           /\ body[f].length \in Nat
           /\ chunk \in Seq(Byte) /\ Len(chunk) \in Nat \ {0} /\ bytes \in Seq(Byte) /\ k \in Nat
           /\ fr.used \in 0..HeaderBytes /\ HeaderBytes \in Nat \ {0}
           /\ \A p \in 1..HeaderBytes + body[f].length : bytes[off[f] + p] = <<f, p>>
<1>1. chunk \in Seq(Byte) /\ chunk # <<>> /\ k \in Nat /\ k + Len(chunk) <= Len(bytes)
      /\ bytes \in Seq(Byte) /\ Len(bytes) = off[Len(body) + 1] /\ Len(body) \in Nat
  BY DEF Turning, Pending, Laid
<1>2. Len(chunk) \in Nat \ {0}
  BY <1>1
<1>3. fr.used \in 0..HeaderBytes /\ HeaderBytes \in Nat \ {0}
  BY HeaderAssumption DEF Turning, FrameState
<1>4. f \in 1..Len(body) + 1
  BY DEF Turning, Decoding
<1>5. off[f] \in Nat
  BY <1>4 DEF Turning, Offsets
<1>6. f # Len(body) + 1
  <2>1. SUFFICES ASSUME f = Len(body) + 1 PROVE FALSE
    OBVIOUS
  <2>2. fr.used < HeaderBytes
    BY <1>1, <1>3, <2>1 DEF Turning, Decoding
  <2>3. k = off[f] + fr.used
    BY <2>2 DEF Turning, Decoding
  <2> QED
    BY <1>1, <1>2, <1>3, <1>5, <2>1, <2>3
<1>7. f \in 1..Len(body) /\ f + 1 \in 1..Len(body) + 1
  BY <1>1, <1>4, <1>6
<1>8. body[f] \in FrameSet
  BY <1>7 DEF Turning
<1>9. body[f].length \in Nat
  BY <1>8 DEF FrameSet
<1>10. off[f + 1] = off[f] + HeaderBytes + body[f].length
  BY <1>7 DEF Turning, Offsets
<1>11. \A p \in 1..HeaderBytes + body[f].length : bytes[off[f] + p] = <<f, p>>
  BY <1>7 DEF Turning, Laid
<1> QED
  BY <1>1, <1>2, <1>3, <1>5, <1>7, <1>8, <1>9, <1>10, <1>11

\* A turn of the loop uses bytes of one frame, and makes of them a part of that frame or
\* all of it.
LEMMA TurnExact ==
    ASSUME NEW off, NEW bytes, NEW f, NEW k,
           Turning(wire.body, off, bytes, frame, web.chunk, wire.sent, f, k)
    PROVE  \E m \in Nat :
              /\ Pending(Turn.rest, wire.sent, m, bytes)
              /\ Turn.frame.terminal = frame.terminal /\ Turn.frame \in FrameState
              /\ Turn.is \in {"part", "refused", "data", "trailer"}
              /\ Turn.is = "part" => Decoding(Turn.frame, wire.body, off, f, m)
              /\ Turn.is \in {"data", "trailer"} =>
                    /\ f \in 1..Len(wire.body) /\ Turn.is = wire.body[f].kind
                    /\ Turn.frame.head = wire.body[f]
                    /\ Turn.frame.payload = Payload(wire.body, f)
                    /\ m = off[f + 1] /\ Turn.frame.count \in Nat
<1> DEFINE body == wire.body
           length == body[f].length
<1>1. /\ f \in 1..Len(body) /\ body[f] \in FrameSet /\ f + 1 \in 1..Len(body) + 1
      /\ off[f] \in Nat /\ off[f + 1] = off[f] + HeaderBytes + length
      /\ length \in Nat
      /\ web.chunk \in Seq(Byte) /\ Len(web.chunk) \in Nat \ {0} /\ bytes \in Seq(Byte) /\ k \in Nat
      /\ frame.used \in 0..HeaderBytes /\ HeaderBytes \in Nat \ {0}
  BY TurnPlace
<1>2. \A p \in 1..HeaderBytes + length : bytes[off[f] + p] = <<f, p>>
  BY TurnPlace
<1>13. off[f] \in Nat /\ length \in Nat /\ Len(web.chunk) \in Nat \ {0} /\ k \in Nat
       /\ frame.used \in 0..HeaderBytes /\ HeaderBytes \in Nat \ {0}
  BY <1>1
<1>3. Pending(web.chunk, wire.sent, k, bytes) /\ Decoding(frame, body, off, f, k)
      /\ frame \in FrameState
  BY DEF Turning
<1>4. frame.used < HeaderBytes => frame.payload = <<>> /\ k = off[f] + frame.used
  BY <1>3 DEF Decoding
<1>5. frame.used = HeaderBytes =>
          /\ frame.head = body[f]
          /\ k = off[f] + HeaderBytes + Len(frame.payload)
          /\ Len(frame.payload) < length
          /\ \A p \in 1..Len(frame.payload) : frame.payload[p] = <<f, HeaderBytes + p>>
  BY <1>3 DEF Decoding
<1> DEFINE size == IF InHeader THEN Least(HeaderBytes - frame.used, Len(web.chunk)) ELSE 0
           used == frame.used + size
           head == IF InHeader THEN HeaderOf(web.chunk[size]) ELSE frame.head
           rest == SubSeq(web.chunk, size + 1, Len(web.chunk))
           part == Least(head.length - Len(frame.payload), Len(rest))
           count == frame.count + (IF InHeader /\ head.kind = "data" THEN 1 ELSE 0)
           payload == frame.payload \o SubSeq(rest, 1, part)
           left == SubSeq(rest, part + 1, Len(rest))
           is == IF head.kind = "unknown" \/ head.length > MaxLength \/ count > MaxMessages
                 THEN "refused"
                 ELSE IF Len(payload) < head.length THEN "part" ELSE head.kind
<1>6. size \in 0..Len(web.chunk) /\ size \in Nat /\ used \in 0..HeaderBytes
      /\ (InHeader => size >= 1) /\ (~InHeader => size = 0 /\ frame.used = HeaderBytes)
  <2>1. CASE InHeader
    <3>0. frame.used \in 0..HeaderBytes /\ HeaderBytes \in Nat /\ frame.used < HeaderBytes
      BY <1>13, <2>1 DEF InHeader
    <3>1. HeaderBytes - frame.used \in Nat \ {0}
      BY <3>0
    <3> QED
      BY <1>13, <2>1, <3>1 DEF Least
  <2>2. CASE ~InHeader
    BY <1>13, <2>2 DEF InHeader
  <2> QED
    BY <2>1, <2>2
<1>7. Turn = IF used < HeaderBytes
             THEN [is |-> "part", rest |-> rest, frame |-> [frame EXCEPT !.used = used]]
             ELSE [is |-> is, rest |-> left,
                   frame |-> [frame EXCEPT !.used = used, !.head = head, !.payload = payload,
                                           !.count = count]]
  BY DEF Turn
<1> HIDE DEF size, rest, left, payload, part, count, length
<1>14. used = frame.used + size /\ size \in Nat /\ frame.used \in Nat
  BY <1>6, <1>13
<1>15. off[f] \in Nat /\ HeaderBytes \in Nat
  BY <1>1
<1> HIDE DEF used
<1>8. Pending(rest, wire.sent, k + size, bytes) /\ k + size \in Nat
  BY <1>1, <1>3, <1>6, PendingRest DEF rest
<1>9. head = body[f]
  <2>1. CASE InHeader
    <3>0. k = off[f] + frame.used
      BY <1>4, <2>1 DEF InHeader
    <3>1. size \in 1..Len(web.chunk) /\ used \in 1..HeaderBytes + length
      <4>1. size \in 0..Len(web.chunk) /\ size >= 1 /\ used \in 0..HeaderBytes
        BY <1>6, <2>1
      <4>2. used >= 1
        BY <1>14, <4>1
      <4>3. length \in Nat /\ Len(web.chunk) \in Nat
        BY <1>13
      <4> QED
        BY <1>15, <4>1, <4>2, <4>3
    <3>4. k + size = off[f] + used
      BY <1>14, <1>15, <3>0
    <3>2. web.chunk[size] = bytes[k + size]
      BY <1>3, <3>1 DEF Pending
    <3>3. web.chunk[size] = <<f, used>>
      BY <1>2, <3>1, <3>2, <3>4
    <3> QED
      BY <2>1, <3>3 DEF HeaderOf
  <2>2. CASE ~InHeader
    BY <1>5, <1>6, <2>2
  <2> QED
    BY <2>1, <2>2
<1>10. frame.payload \in Seq(Byte) /\ frame.count \in Nat /\ frame.terminal \in BOOLEAN
       /\ frame.head \in FrameSet \cup {"none"}
  BY <1>3 DEF FrameState
<1> HIDE DEF head, body
<1>11. CASE used < HeaderBytes
  <2> DEFINE fr == [frame EXCEPT !.used = used]
  <2>1. Turn.is = "part" /\ Turn.rest = rest /\ Turn.frame = fr
    BY <1>7, <1>11
  <2>2. InHeader
    <3>1. SUFFICES ASSUME ~InHeader PROVE FALSE
      OBVIOUS
    <3>2. size = 0 /\ frame.used = HeaderBytes
      BY <1>6, <3>1
    <3> QED
      BY <1>11, <1>14, <1>15, <3>2
  <2>3. fr \in FrameState /\ fr.used = used /\ fr.payload = <<>> /\ fr.terminal = frame.terminal
    BY <1>3, <1>4, <1>6, <2>2 DEF FrameState, InHeader
  <2>4. k + size = off[f] + used
    <3>1. k = off[f] + frame.used
      BY <1>4, <2>2 DEF InHeader
    <3> QED
      BY <1>14, <1>15, <3>1
  <2>5. f \in 1..Len(body) + 1
    BY <1>1
  <2> HIDE DEF fr
  <2>6. Decoding(fr, body, off, f, k + size)
    BY <1>6, <1>11, <2>3, <2>4, <2>5 DEF Decoding
  <2> QED
    BY <1>8, <2>1, <2>3, <2>6 DEF body
<1>12. CASE ~(used < HeaderBytes)
  <2> DEFINE fr == [frame EXCEPT !.used = used, !.head = head, !.payload = payload, !.count = count]
  <2>1. used = HeaderBytes
    BY <1>1, <1>6, <1>12
  <2>2. Turn.is = is /\ Turn.rest = left /\ Turn.frame = fr
    BY <1>7, <1>12
  <2>3. Len(frame.payload) \in Nat /\ Len(frame.payload) <= length
        /\ (Len(frame.payload) = length => length = 0)
        /\ k + size = off[f] + HeaderBytes + Len(frame.payload)
        /\ \A p \in 1..Len(frame.payload) : frame.payload[p] = <<f, HeaderBytes + p>>
    <3>1. CASE InHeader
      <4>1. frame.payload = <<>> /\ k = off[f] + frame.used
        BY <1>4, <3>1 DEF InHeader
      <4>2. Len(frame.payload) = 0
        BY <4>1
      <4>3. k + size = off[f] + HeaderBytes + Len(frame.payload)
        BY <1>14, <1>15, <2>1, <4>1, <4>2
      <4>4. length \in Nat
        BY <1>13
      <4> QED
        BY <4>1, <4>2, <4>3, <4>4
    <3>2. CASE ~InHeader
      <4>1. Len(frame.payload) \in Nat
        BY <1>10
      <4> QED
        BY <1>5, <1>6, <1>13, <3>2, <4>1 DEF length
    <3> QED
      BY <3>1, <3>2
  <2>4. rest \in Seq(Byte) /\ Len(rest) \in Nat /\ k + size \in Nat
        /\ \A j \in 1..Len(rest) : rest[j] = bytes[(k + size) + j]
    BY <1>8 DEF Pending
  <2>5. part \in 0..Len(rest) /\ part \in Nat /\ part <= length - Len(frame.payload)
        /\ (part = length - Len(frame.payload) \/ part = Len(rest))
    <3>1. head.length = length
      BY <1>9 DEF length
    <3>2. length - Len(frame.payload) \in Nat
      BY <1>1, <2>3
    <3> QED
      BY <2>4, <3>1, <3>2 DEF part, Least
  <2>17. k + size \in Nat /\ k + size = off[f] + HeaderBytes + Len(frame.payload)
         /\ Len(frame.payload) \in Nat /\ part \in Nat /\ part <= length - Len(frame.payload)
    BY <2>3, <2>4, <2>5
  <2>6. Pending(left, wire.sent, (k + size) + part, bytes)
    BY <1>1, <1>8, <2>5, PendingRest DEF left
  <2>7. SubSeq(rest, 1, part) \in Seq(Byte) /\ Len(SubSeq(rest, 1, part)) = part
        /\ \A q \in 1..part : SubSeq(rest, 1, part)[q] = rest[q]
    BY <2>4, <2>5
  <2>8. payload \in Seq(Byte) /\ Len(payload) = Len(frame.payload) + part
    BY <1>10, <2>7 DEF payload
  <2>9. ASSUME NEW p \in 1..Len(payload) PROVE payload[p] = <<f, HeaderBytes + p>>
    <3>1. CASE p <= Len(frame.payload)
      BY <1>10, <2>3, <2>7, <2>8, <2>9, <3>1 DEF payload
    <3>2. CASE p > Len(frame.payload)
      <4> DEFINE q == p - Len(frame.payload)
      <4>1. q \in 1..part /\ q \in 1..Len(rest) /\ q \in Nat /\ p = Len(frame.payload) + q
        BY <2>3, <2>5, <2>8, <2>9, <3>2
      <4>2. payload[p] = SubSeq(rest, 1, part)[q]
        BY <1>10, <2>7, <4>1 DEF payload
      <4>3. payload[p] = bytes[(k + size) + q]
        BY <2>4, <2>7, <4>1, <4>2
      <4> HIDE DEF q
      <4>4. (k + size) + q = off[f] + (HeaderBytes + p) /\ HeaderBytes + p \in 1..HeaderBytes + length
        <5>1. q \in Nat /\ q >= 1 /\ q <= part /\ p = Len(frame.payload) + q
          BY <2>17, <4>1
        <5>2. HeaderBytes + p \in 1..HeaderBytes + length
          BY <1>13, <2>17, <5>1
        <5>3. (k + size) + q = off[f] + (HeaderBytes + p)
          <6>1. k + size \in Nat /\ k + size = off[f] + HeaderBytes + Len(frame.payload)
                /\ Len(frame.payload) \in Nat
            BY <2>17
          <6>2. q \in Nat /\ p = Len(frame.payload) + q
            BY <5>1
          <6> QED
            BY <1>15, <6>1, <6>2
        <5> QED
          BY <5>2, <5>3
      <4> QED
        BY <1>2, <4>3, <4>4
    <3> QED
      BY <2>3, <2>8, <2>9, <3>1, <3>2
  <2>10. count \in Nat
    BY <1>10 DEF count
  <2>11. fr \in FrameState /\ fr.used = HeaderBytes /\ fr.head = body[f] /\ fr.payload = payload
         /\ fr.terminal = frame.terminal /\ fr.count = count
    BY <1>1, <1>3, <1>9, <2>1, <2>8, <2>10, <1>6 DEF FrameState
  <2>12. (k + size) + part = off[f] + HeaderBytes + Len(payload) /\ (k + size) + part \in Nat
         /\ Len(payload) <= length /\ Len(payload) \in Nat
    <3>1. Len(payload) = Len(frame.payload) + part
      BY <2>8
    <3>2. k + size \in Nat /\ k + size = off[f] + HeaderBytes + Len(frame.payload)
          /\ Len(frame.payload) \in Nat /\ part \in Nat
      BY <2>17
    <3>3. (k + size) + part = off[f] + HeaderBytes + Len(payload) /\ (k + size) + part \in Nat
      BY ONLY <1>15, <3>1, <3>2
    <3>4. Len(payload) <= length /\ Len(payload) \in Nat
      <4>1. part <= length - Len(frame.payload) /\ length \in Nat
        BY <1>13, <2>17
      <4> QED
        BY <3>1, <3>2, <4>1
    <3> QED
      BY <3>3, <3>4
  <2>13. head.length = length /\ head.kind = body[f].kind
         /\ head.kind \in {"data", "trailer", "unknown"}
    BY <1>1, <1>9 DEF FrameSet, length
  <2>14. is \in {"part", "refused", "data", "trailer"}
    BY <2>13
  <2>15. ASSUME is = "part" PROVE Decoding(fr, body, off, f, (k + size) + part)
    <3>1. Len(payload) < length
      BY <2>13, <2>15
    <3> HIDE DEF fr
    <3> QED
      <4>1. f \in 1..Len(body) + 1 /\ f <= Len(body)
        BY <1>1 DEF body
      <4> QED
        BY <1>13, <2>9, <2>11, <2>12, <3>1, <4>1 DEF Decoding, length
  <2>16. ASSUME is \in {"data", "trailer"}
         PROVE  is = body[f].kind /\ payload = Payload(body, f) /\ (k + size) + part = off[f + 1]
    <3>1. is = body[f].kind /\ Len(payload) = length
      BY <1>1, <2>12, <2>13, <2>16
    <3>2. payload = [p \in 1..length |-> <<f, HeaderBytes + p>>]
      <4>1. payload = [p \in 1..Len(payload) |-> payload[p]]
        BY <2>8
      <4> QED
        BY <2>9, <3>1, <4>1
    <3>3. (k + size) + part = off[f + 1]
      BY <1>1, <2>12, <3>1
    <3> QED
      BY <3>1, <3>2, <3>3 DEF Payload, length
  <2> HIDE DEF fr, is
  <2> QED
    BY <1>1, <2>2, <2>6, <2>10, <2>11, <2>12, <2>14, <2>15, <2>16 DEF body
<1> QED
  BY <1>11, <1>12

\* The frames of a body that are messages.
DataOf(body, n) == {i \in 1..n : body[i].kind = "data"}

\* The messages of the first n frames were given on, and nothing else.
Gave(taken, body, n) ==
    /\ Len(taken) = Cardinality(DataOf(body, n))
    /\ \A i \in DataOf(body, n) : taken[Cardinality(DataOf(body, i))] = Payload(body, i)

\* The trailers are the last of the frames before frame f, or are still to come.
Trailed(terminal, body, f) ==
    IF terminal
    THEN /\ \A i \in 1..f - 1 : body[i].kind = "trailer" <=> i = f - 1
         /\ f > 1 => body[f - 1].ok
    ELSE \A i \in 1..f - 1 : body[i].kind # "trailer"

\* How far the decoder has come in what the server sent.
Reach(chunk, taken, fr, wr) ==
    \E off, f, k :
        /\ Offsets(wr.body, off)
        /\ Pending(chunk, wr.sent, k, Bytes(wr.body))
        /\ Decoding(fr, wr.body, off, f, k)
        /\ Gave(taken, wr.body, f - 1)
        /\ Trailed(fr.terminal, wr.body, f)

\* The data frames up to one are finitely many, and each has its place among them.
LEMMA DataCounted ==
    ASSUME NEW body, NEW n \in Nat
    PROVE  /\ IsFiniteSet(DataOf(body, n)) /\ Cardinality(DataOf(body, n)) \in Nat
           /\ \A i \in DataOf(body, n) :
                 Cardinality(DataOf(body, i)) \in 1..Cardinality(DataOf(body, n))
<1>1. IsFiniteSet(1..n)
  BY FS_Interval
<1>2. IsFiniteSet(DataOf(body, n))
  BY <1>1, FS_Subset DEF DataOf
<1>3. ASSUME NEW i \in DataOf(body, n)
      PROVE  Cardinality(DataOf(body, i)) \in 1..Cardinality(DataOf(body, n))
  <2>1. i \in 1..n /\ DataOf(body, i) \subseteq DataOf(body, n) /\ i \in DataOf(body, i)
    BY DEF DataOf
  <2>2. /\ IsFiniteSet(DataOf(body, i))
        /\ Cardinality(DataOf(body, i)) <= Cardinality(DataOf(body, n))
    BY <1>2, <2>1, FS_Subset
  <2>3. Cardinality(DataOf(body, i)) # 0
    BY <2>1, <2>2, FS_EmptySet
  <2> QED
    BY <1>2, <2>2, <2>3, FS_CardinalityType
<1> QED
  BY <1>2, <1>3, FS_CardinalityType

\* Of no frame, no message is given.
LEMMA GaveNone == ASSUME NEW body PROVE Gave(<<>>, body, 0)
<1>1. DataOf(body, 0) = {}
  BY DEF DataOf
<1> QED
  BY <1>1, FS_EmptySet DEF Gave

\* The next frame is a message that is given on, or it is none.
LEMMA GaveNext ==
    ASSUME NEW T, NEW taken \in Seq(T), NEW body, NEW f \in Nat \ {0}, Gave(taken, body, f - 1),
           NEW payload \in T
    PROVE  /\ body[f].kind = "data" /\ payload = Payload(body, f) =>
                 Gave(Append(taken, payload), body, f)
           /\ body[f].kind # "data" => Gave(taken, body, f)
<1>1. f - 1 \in Nat
  OBVIOUS
<1>2. /\ IsFiniteSet(DataOf(body, f - 1)) /\ Cardinality(DataOf(body, f - 1)) \in Nat
      /\ \A i \in DataOf(body, f - 1) :
            Cardinality(DataOf(body, i)) \in 1..Cardinality(DataOf(body, f - 1))
  BY <1>1, DataCounted
<1>3. Len(taken) = Cardinality(DataOf(body, f - 1))
  BY DEF Gave
<1>4. ASSUME body[f].kind = "data", payload = Payload(body, f)
      PROVE  Gave(Append(taken, payload), body, f)
  <2>1. DataOf(body, f) = DataOf(body, f - 1) \cup {f} /\ f \notin DataOf(body, f - 1)
    BY <1>4 DEF DataOf
  <2>2. Cardinality(DataOf(body, f)) = Cardinality(DataOf(body, f - 1)) + 1
    BY <1>2, <2>1, FS_AddElement
  <2>3. Len(Append(taken, payload)) = Len(taken) + 1
        /\ Append(taken, payload)[Len(taken) + 1] = payload
        /\ \A i \in 1..Len(taken) : Append(taken, payload)[i] = taken[i]
    OBVIOUS
  <2>4. ASSUME NEW i \in DataOf(body, f)
        PROVE  Append(taken, payload)[Cardinality(DataOf(body, i))] = Payload(body, i)
    <3>1. CASE i = f
      BY <1>3, <1>4, <2>2, <2>3, <3>1
    <3>2. CASE i # f
      <4>1. i \in DataOf(body, f - 1)
        BY <2>1, <2>4, <3>2
      <4>2. taken[Cardinality(DataOf(body, i))] = Payload(body, i)
        BY <4>1 DEF Gave
      <4>3. Cardinality(DataOf(body, i)) \in 1..Len(taken)
        BY <1>2, <1>3, <4>1
      <4> QED
        BY <2>3, <4>2, <4>3
    <3> QED
      BY <3>1, <3>2
  <2> QED
    BY <1>3, <2>2, <2>3, <2>4 DEF Gave
<1>5. ASSUME body[f].kind # "data" PROVE Gave(taken, body, f)
  <2>1. DataOf(body, f) = DataOf(body, f - 1)
    BY <1>5 DEF DataOf
  <2> QED
    BY <2>1 DEF Gave
<1> QED
  BY <1>4, <1>5

\* A turn of the decoder, whatever it makes of the bytes that are there.
LEMMA ReachNext ==
    ASSUME wire.body \in Seq(FrameSet), frame \in FrameState, web.chunk # <<>>,
           web.taken \in Seq(Seq(Byte)), Reach(web.chunk, web.taken, frame, wire)
    PROVE  /\ Turn.is \in {"part", "refused", "data", "trailer"}
           /\ Turn.rest \in Seq(Byte) /\ Turn.frame \in FrameState
           /\ Turn.is = "part" => Reach(Turn.rest, web.taken, Turn.frame, wire)
           /\ Turn.is \in {"data", "trailer"} =>
                 Turn.frame.count \in Nat /\ Turn.frame.payload \in Seq(Byte)
           /\ Turn.is = "trailer" /\ ~frame.terminal /\ Turn.frame.head.ok =>
                 Reach(Turn.rest, web.taken, Begun(Turn.frame.count, TRUE), wire)
           /\ Turn.is = "data" /\ ~frame.terminal =>
                 Reach(Turn.rest, Append(web.taken, Turn.frame.payload),
                       Begun(Turn.frame.count, FALSE), wire)
<1> DEFINE body == wire.body
           bytes == Bytes(body)
           turn == Turn
<1>1. PICK off, f, k :
        /\ Offsets(body, off)
        /\ Pending(web.chunk, wire.sent, k, bytes)
        /\ Decoding(frame, body, off, f, k)
        /\ Gave(web.taken, body, f - 1)
        /\ Trailed(frame.terminal, body, f)
  BY DEF Reach
<1>2. Laid(bytes, body, Len(body), off)
  BY <1>1, BytesLaid
<1>3. Turning(body, off, bytes, frame, web.chunk, wire.sent, f, k)
  BY <1>1, <1>2 DEF Turning
<1>4. PICK m \in Nat :
        /\ Pending(turn.rest, wire.sent, m, bytes)
        /\ turn.frame.terminal = frame.terminal /\ turn.frame \in FrameState
        /\ turn.is \in {"part", "refused", "data", "trailer"}
        /\ turn.is = "part" => Decoding(turn.frame, body, off, f, m)
        /\ turn.is \in {"data", "trailer"} =>
              /\ f \in 1..Len(body) /\ turn.is = body[f].kind
              /\ turn.frame.head = body[f]
              /\ turn.frame.payload = Payload(body, f)
              /\ m = off[f + 1] /\ turn.frame.count \in Nat
  BY <1>3, TurnExact
<1> HIDE DEF turn, bytes
<1>5. turn.is = "part" => Reach(turn.rest, web.taken, turn.frame, wire)
  BY <1>1, <1>4 DEF Reach, bytes
<1>6. turn.rest \in Seq(Byte)
  BY <1>4 DEF Pending
<1>7. ASSUME turn.is \in {"data", "trailer"} PROVE turn.frame.payload \in Seq(Byte)
  <2>1. body[f] \in FrameSet /\ f \in Nat
    BY <1>4, <1>7
  <2>2. body[f].length \in Nat
    BY <2>1 DEF FrameSet
  <2>3. \A p \in 1..body[f].length : <<f, HeaderBytes + p>> \in Byte
    BY <2>1, <2>2, HeaderAssumption DEF Byte
  <2>4. [p \in 1..body[f].length |-> <<f, HeaderBytes + p>>] \in Seq(Byte)
    <3> DEFINE byte == [p \in 1..body[f].length |-> <<f, HeaderBytes + p>>]
    <3>1. byte \in [1..body[f].length -> Byte]
      BY <2>3
    <3> HIDE DEF byte
    <3>2. byte \in Seq(Byte)
      BY <2>2, <3>1
    <3> QED
      BY <3>2 DEF byte
  <2>5. turn.frame.payload = Payload(body, f)
    BY <1>4, <1>7
  <2> QED
    BY <2>4, <2>5 DEF Payload
<1>8. ASSUME turn.is \in {"data", "trailer"}, ~frame.terminal, NEW terminal \in BOOLEAN,
             NEW taken, Gave(taken, body, f), Trailed(terminal, body, f + 1)
      PROVE  Reach(turn.rest, taken, Begun(turn.frame.count, terminal), wire)
  <2> DEFINE fr == Begun(turn.frame.count, terminal)
  <2>1. f \in 1..Len(body) /\ m = off[f + 1] /\ Len(body) \in Nat
    BY <1>4, <1>8
  <2>2. f + 1 \in 1..Len(body) + 1 /\ (f + 1) - 1 = f
    BY <2>1
  <2>3. fr.used = 0 /\ fr.payload = <<>> /\ fr.terminal = terminal
    BY DEF Begun
  <2>4. off[f + 1] \in Nat
    BY <1>1, <2>2 DEF Offsets
  <2> HIDE DEF fr
  <2>5. Decoding(fr, body, off, f + 1, m)
    BY <2>1, <2>2, <2>3, <2>4, HeaderAssumption DEF Decoding
  <2> QED
    BY <1>1, <1>4, <1>8, <2>2, <2>3, <2>5 DEF Reach, fr, bytes
<1>9. ASSUME turn.is \in {"data", "trailer"}, ~frame.terminal
      PROVE  /\ turn.is = "trailer" /\ turn.frame.head.ok => Trailed(TRUE, body, f + 1)
             /\ turn.is = "data" => Trailed(FALSE, body, f + 1)
             /\ f \in Nat \ {0} /\ turn.is = body[f].kind
  <2>1. f \in 1..Len(body) /\ turn.is = body[f].kind /\ turn.frame.head = body[f]
    BY <1>4, <1>9
  <2>2. \A i \in 1..f - 1 : body[i].kind # "trailer"
    BY <1>1, <1>9 DEF Trailed
  <2>3. \A i \in 1..(f + 1) - 1 : i = f \/ i \in 1..f - 1
    BY <2>1
  <2>4. (f + 1) - 1 = f /\ f \notin 1..f - 1 /\ f \in Nat \ {0}
    BY <2>1
  <2> QED
    BY <2>1, <2>2, <2>3, <2>4 DEF Trailed
<1>10. ASSUME turn.is = "trailer", ~frame.terminal, turn.frame.head.ok
       PROVE  Reach(turn.rest, web.taken, Begun(turn.frame.count, TRUE), wire)
  <2>1. f \in Nat \ {0} /\ body[f].kind # "data" /\ Trailed(TRUE, body, f + 1)
    BY <1>9, <1>10
  <2>2. Gave(web.taken, body, f)
    <3>1. <<>> \in Seq(Byte)
      OBVIOUS
    <3> QED
      BY <1>1, <2>1, <3>1, GaveNext
  <2> QED
    BY <1>8, <1>10, <2>1, <2>2
<1>11. ASSUME turn.is = "data", ~frame.terminal
       PROVE  Reach(turn.rest, Append(web.taken, turn.frame.payload),
                    Begun(turn.frame.count, FALSE), wire)
  <2>1. f \in Nat \ {0} /\ body[f].kind = "data" /\ Trailed(FALSE, body, f + 1)
    BY <1>9, <1>11
  <2>2. turn.frame.payload \in Seq(Byte) /\ turn.frame.payload = Payload(body, f)
    BY <1>4, <1>7, <1>11
  <2>3. Gave(Append(web.taken, turn.frame.payload), body, f)
    BY <1>1, <2>1, <2>2, GaveNext
  <2> QED
    BY <1>8, <1>11, <2>1, <2>3
<1> QED
  BY <1>4, <1>5, <1>6, <1>7, <1>10, <1>11 DEF turn

-----------------------------------------------------------------------------
(* A call on gRPC-web *)

\* Where a call may be, and its records.
WebPlace == {"idle", "headers", "fetch", "read", "decode", "item", "over"}
WebSettled ==
    {"none", "good", "bad", "network", "status", "trailersOnly", "body", "chunk", "end", "ragged",
     "broken"}
WebStops == {"none", "TIMEOUT", "ABORTED"}
WebHeld == {"timer", "listener", "body"}
WebSet ==
    [at : WebPlace, settled : WebSettled, stopped : WebStops, late : BOOLEAN,
     chunk : Seq(Byte), taken : Seq(Seq(Byte)), sent : 0..1, held : SUBSET WebHeld,
     outcome : Outcome]

\* What the call has sent, holds and has told; an abort has stopped it.
WebBody(w, c) ==
    /\ w \in WebSet
    /\ w.at # "idle" => exchange \in {"web.stream", "web.unary"}
    /\ w.at \in {"idle", "headers"} => w.sent = 0
    /\ w.at \in {"fetch", "read", "decode", "item"} => w.sent = 1
    /\ w.at = "idle" => w.held = {}
    /\ w.at # "over" => w.outcome = "none"
    /\ w.at = "over" => w.held = {} /\ (w.outcome = "error" \/ (w.outcome = "value" /\ w.sent = 1))
    /\ w.at \notin {"idle", "over"} /\ w.stopped = "none" => "listener" \in w.held
    /\ w.at \notin {"idle", "over"} /\ c => w.stopped # "none"

\* What the decoder has made of the bytes; a result that is good comes after the trailers.
WebData(w, fr, wr) ==
    /\ fr \in FrameState /\ wr.body \in Bodies /\ wr = [body |-> wr.body, sent |-> wr.sent]
    /\ w.at \in {"idle", "headers", "fetch"} =>
          fr = Begun(0, FALSE) /\ wr.sent = 0 /\ w.taken = <<>> /\ w.chunk = <<>>
    /\ w.at = "read" /\ w.settled # "chunk" => w.chunk = <<>>
    /\ w.at # "over" => Reach(w.chunk, w.taken, fr, wr)
    /\ w.at = "over" =>
          \E n \in 0..Len(wr.body) :
             /\ Gave(w.taken, wr.body, n)
             /\ w.outcome = "value" =>
                   /\ wr.sent = Len(Bytes(SubSeq(wr.body, 1, n)))
                   /\ n > 0 => wr.body[n].ok
                   /\ \A i \in 1..n : wr.body[i].kind = "trailer" <=> i = n

\* What is known of a call on gRPC-web: of the call, and of what it has decoded.
WebOK(w, fr, wr) == WebBody(w, cut) /\ WebData(w, fr, wr)

\* What is given at any place of a body are the messages of a beginning of it.
LEMMA ReachGave ==
    ASSUME NEW chunk, NEW taken, NEW fr, NEW wr, Reach(chunk, taken, fr, wr)
    PROVE  \E n \in 0..Len(wr.body) : Gave(taken, wr.body, n)
<1>1. PICK off, f, k :
        /\ Offsets(wr.body, off)
        /\ Pending(chunk, wr.sent, k, Bytes(wr.body))
        /\ Decoding(fr, wr.body, off, f, k)
        /\ Gave(taken, wr.body, f - 1)
        /\ Trailed(fr.terminal, wr.body, f)
  BY DEF Reach
<1>2. f \in 1..Len(wr.body) + 1
  BY <1>1 DEF Decoding
<1>3. f - 1 \in 0..Len(wr.body)
  BY <1>2
<1> QED
  BY <1>1, <1>3

\* The bodies of the servers are sequences of frames (Bodies).
LEMMA BodiesAreFrames == ASSUME NEW body \in Bodies PROVE body \in Seq(FrameSet)
  BY BodiesAssumption DEF FrameSet

\* The decoder ends where the server has, between two frames.
LEMMA ReachEnds ==
    ASSUME NEW taken, NEW fr, NEW wr, wr.body \in Bodies, fr \in FrameState,
           Reach(<<>>, taken, fr, wr), fr.terminal, fr.used = 0
    PROVE  \E n \in 0..Len(wr.body) :
             /\ Gave(taken, wr.body, n)
             /\ wr.sent = Len(Bytes(SubSeq(wr.body, 1, n)))
             /\ n > 0 => wr.body[n].ok
             /\ \A i \in 1..n : wr.body[i].kind = "trailer" <=> i = n
<1>0. wr.body \in Seq(FrameSet)
  BY BodiesAreFrames
<1>1. PICK off, f, k :
        /\ Offsets(wr.body, off)
        /\ Pending(<<>>, wr.sent, k, Bytes(wr.body))
        /\ Decoding(fr, wr.body, off, f, k)
        /\ Gave(taken, wr.body, f - 1)
        /\ Trailed(fr.terminal, wr.body, f)
  BY DEF Reach
<1>2. f \in 1..Len(wr.body) + 1 /\ k = off[f] + 0
  BY <1>1, HeaderAssumption DEF Decoding
<1>3. k \in Nat /\ k = wr.sent
  BY <1>1 DEF Pending
<1>4. off[f] \in Nat
  BY <1>1, <1>2 DEF Offsets
<1>5. f - 1 \in 0..Len(wr.body) /\ (f - 1) + 1 = f /\ f \in Nat
  BY <1>2
<1>6. Len(Bytes(SubSeq(wr.body, 1, f - 1))) = off[(f - 1) + 1]
  BY <1>0, <1>1, <1>5, PrefixLaid
<1>7. wr.sent = Len(Bytes(SubSeq(wr.body, 1, f - 1)))
  BY <1>2, <1>3, <1>4, <1>5, <1>6
<1>8. /\ f - 1 > 0 => wr.body[f - 1].ok
      /\ \A i \in 1..f - 1 : wr.body[i].kind = "trailer" <=> i = f - 1
  BY <1>1, <1>5 DEF Trailed
<1> QED
  BY <1>1, <1>5, <1>7, <1>8

\* Nothing was sent: a status that comes with the headers, and a call that is at its begin.
LEMMA ReachStart ==
    ASSUME NEW body \in Bodies, NEW terminal \in BOOLEAN, NEW wr, wr.body = body, wr.sent = 0
    PROVE  /\ Reach(<<>>, <<>>, Begun(0, terminal), wr)
           /\ Begun(0, terminal) \in FrameState
<1>0. body \in Seq(FrameSet)
  BY BodiesAreFrames
<1>1. PICK off : Offsets(body, off)
  BY <1>0, OffsetsExist
<1>2. 1 \in 1..Len(body) + 1 /\ off[1] = 0 /\ Len(body) \in Nat
  BY <1>0, <1>1 DEF Offsets
<1> DEFINE fr == Begun(0, terminal)
<1>3. fr.used = 0 /\ fr.payload = <<>> /\ fr.terminal = terminal
  BY DEF Begun
<1>4. fr \in FrameState
  BY HeaderAssumption DEF Begun, FrameState
<1> HIDE DEF fr
<1>5. Decoding(fr, body, off, 1, 0)
  BY <1>2, <1>3, HeaderAssumption DEF Decoding
<1>6. Laid(Bytes(body), body, Len(body), off)
  BY <1>0, <1>1, BytesLaid
<1>7. Pending(<<>>, 0, 0, Bytes(body))
  <2>1. Len(Bytes(body)) \in Nat
    BY <1>6 DEF Laid
  <2>2. <<>> \in Seq(Byte) /\ Len(<<>>) = 0
    OBVIOUS
  <2> QED
    BY <2>1, <2>2 DEF Pending
<1>8. Gave(<<>>, body, 1 - 1) /\ Trailed(terminal, body, 1)
  BY GaveNone DEF Trailed
<1> QED
  BY <1>1, <1>3, <1>4, <1>5, <1>7, <1>8 DEF Reach, fr

\* The call may end with an error wherever it is.
LEMMA WebFails ==
    ASSUME NEW w, WebOK(w, frame, wire), w.at # "over", exchange \in {"web.stream", "web.unary"},
           NEW fr \in FrameState
    PROVE  WebOK(WebOver(w, "error"), fr, wire)
<1> DEFINE over == WebOver(w, "error")
<1>1. w \in WebSet
  BY DEF WebOK, WebBody
<1>2. over = [w EXCEPT !.at = "over", !.held = {}, !.outcome = "error"]
  BY DEF WebOver
<1>3. over \in WebSet
  BY <1>1, <1>2 DEF WebSet, WebPlace, Outcome
<1>4. over.at = "over" /\ over.held = {} /\ over.outcome = "error" /\ over.taken = w.taken
  BY <1>1, <1>2 DEF WebSet
<1> HIDE DEF over
<1>5. WebBody(over, cut)
  <2>1. over.at \notin {"idle", "headers", "fetch", "read", "decode", "item"}
    BY <1>4
  <2> QED
    BY <1>3, <1>4, <2>1 DEF WebBody
<1>6. \E n \in 0..Len(wire.body) : Gave(over.taken, wire.body, n)
  BY <1>4, ReachGave DEF WebOK, WebData
<1>7. WebData(over, fr, wire)
  BY <1>4, <1>6 DEF WebOK, WebData
<1> QED
  BY <1>5, <1>7 DEF WebOK, over

\* It may end well at the end of the body, or with a status that came with the headers.
LEMMA WebEnds ==
    ASSUME WebOK(web, frame, wire), web.at \in {"fetch", "read"}, web.chunk = <<>>,
           NEW fr \in FrameState, fr.terminal, fr.used = 0,
           Reach(<<>>, web.taken, fr, wire)
    PROVE  WebOK(Ended(web), fr, wire)
<1>0. exchange \in {"web.stream", "web.unary"} /\ web.at # "over" /\ web.sent = 1
      /\ web \in WebSet /\ wire.body \in Bodies
  BY DEF WebOK, WebBody, WebData
<1>1. CASE exchange = "web.unary" /\ Len(web.taken) # 1
  BY <1>0, <1>1, WebFails DEF Ended
<1>2. CASE ~(exchange = "web.unary" /\ Len(web.taken) # 1)
  <2> DEFINE over == Ended(web)
  <2>1. over = [web EXCEPT !.at = "over", !.held = {}, !.outcome = "value"]
    BY <1>2 DEF Ended, WebOver
  <2>2. over \in WebSet
    BY <1>0, <2>1 DEF WebSet, WebPlace, Outcome
  <2>3. over.at = "over" /\ over.held = {} /\ over.outcome = "value" /\ over.taken = web.taken
        /\ over.sent = 1
    BY <1>0, <2>1 DEF WebSet
  <2> HIDE DEF over
  <2>4. WebBody(over, cut)
    BY <1>0, <2>2, <2>3 DEF WebBody
  <2>5. WebData(over, fr, wire)
    BY <1>0, <2>3, ReachEnds DEF WebOK, WebData
  <2> QED
    BY <2>4, <2>5 DEF WebOK, over
<1> QED
  BY <1>1, <1>2

\* A step of the call that keeps the bytes.
WebGo(at, settled, stopped, late, held, sent) ==
    [web EXCEPT !.at = at, !.settled = settled, !.stopped = stopped, !.late = late, !.held = held,
                !.sent = sent]

\* Where it may go, and with what.
WebMay(at, settled, stopped, late, held, sent, c, fr) ==
    /\ WebOK(web, frame, wire) /\ web.at # "over" /\ exchange \in {"web.stream", "web.unary"}
    /\ at \in {"headers", "fetch", "read", "decode", "item"} /\ settled \in WebSettled
    /\ stopped \in WebStops /\ late \in BOOLEAN /\ held \in SUBSET WebHeld
    /\ sent = IF at = "headers" THEN 0 ELSE 1
    /\ stopped = "none" => "listener" \in held
    /\ c => stopped # "none"
    /\ at \in {"headers", "fetch"} => web.at \in {"idle", "headers", "fetch"} /\ fr = frame
    /\ at = "read" /\ settled # "chunk" => web.chunk = <<>>
    /\ fr \in FrameState /\ Reach(web.chunk, web.taken, fr, wire)

\* A call that goes on and decodes nothing.
LEMMA WebGoes ==
    ASSUME NEW at, NEW settled, NEW stopped, NEW late, NEW held, NEW sent, NEW c, NEW fr,
           WebMay(at, settled, stopped, late, held, sent, c, fr)
    PROVE  /\ WebBody(WebGo(at, settled, stopped, late, held, sent), c)
           /\ WebData(WebGo(at, settled, stopped, late, held, sent), fr, wire)
<1> DEFINE go == WebGo(at, settled, stopped, late, held, sent)
<1>1. web \in WebSet /\ web.at # "over" /\ exchange \in {"web.stream", "web.unary"}
      /\ web.outcome = "none"
  BY DEF WebMay, WebOK, WebBody
<1>2. at \in {"headers", "fetch", "read", "decode", "item"} /\ settled \in WebSettled
      /\ stopped \in WebStops /\ late \in BOOLEAN /\ held \in SUBSET WebHeld /\ sent \in 0..1
      /\ sent = IF at = "headers" THEN 0 ELSE 1
  BY DEF WebMay
<1>3. go \in WebSet
  BY <1>1, <1>2 DEF WebGo, WebSet, WebPlace
<1>4. go.at = at /\ go.settled = settled /\ go.stopped = stopped /\ go.held = held
      /\ go.sent = sent /\ go.chunk = web.chunk /\ go.taken = web.taken /\ go.outcome = "none"
  BY <1>1 DEF WebGo, WebSet
<1> HIDE DEF go
<1>5. WebBody(go, c)
  <2>1. at \notin {"idle", "over"}
    BY <1>2
  <2> QED
    BY <1>1, <1>2, <1>3, <1>4, <2>1 DEF WebBody, WebMay
<1>6. WebData(go, fr, wire)
  <2>1. fr \in FrameState /\ wire.body \in Bodies /\ wire = [body |-> wire.body, sent |-> wire.sent]
    BY DEF WebMay, WebOK, WebData
  <2>2. at \in {"idle", "headers", "fetch"} =>
          fr = Begun(0, FALSE) /\ wire.sent = 0 /\ web.taken = <<>> /\ web.chunk = <<>>
    BY <1>2 DEF WebMay, WebOK, WebData
  <2>3. at = "read" /\ settled # "chunk" => web.chunk = <<>>
    BY DEF WebMay
  <2>4. Reach(web.chunk, web.taken, fr, wire) /\ at # "over"
    BY <1>2 DEF WebMay
  <2> QED
    BY <1>4, <2>1, <2>2, <2>3, <2>4 DEF WebData
<1> QED
  BY <1>5, <1>6 DEF go

\* The facts of a step.
LEMMA WebType ==
    ASSUME WebOK(web, frame, wire)
    PROVE  /\ web \in WebSet
           /\ web.at \in WebPlace /\ web.settled \in WebSettled /\ web.stopped \in WebStops
           /\ web.late \in BOOLEAN /\ web.chunk \in Seq(Byte) /\ web.taken \in Seq(Seq(Byte))
           /\ web.sent \in 0..1 /\ web.held \in SUBSET WebHeld /\ web.outcome \in Outcome
           /\ frame \in FrameState /\ wire.body \in Bodies
           /\ web.at # "over" => Reach(web.chunk, web.taken, frame, wire)
           /\ web.at \notin {"idle", "over"} =>
                 exchange \in {"web.stream", "web.unary"}
                 /\ (web.stopped = "none" => "listener" \in web.held)
                 /\ (cut => web.stopped # "none")
           /\ web.at \in {"idle", "headers"} => web.sent = 0
           /\ web.at \in {"fetch", "read", "decode", "item"} => web.sent = 1
           /\ web.at = "read" /\ web.settled # "chunk" => web.chunk = <<>>
  <1>1. web \in WebSet
    BY DEF WebOK, WebBody
  <1>2. /\ web.at \in WebPlace /\ web.settled \in WebSettled /\ web.stopped \in WebStops
        /\ web.late \in BOOLEAN /\ web.chunk \in Seq(Byte) /\ web.taken \in Seq(Seq(Byte))
        /\ web.sent \in 0..1 /\ web.held \in SUBSET WebHeld /\ web.outcome \in Outcome
    BY <1>1 DEF WebSet
  <1>3. /\ frame \in FrameState /\ wire.body \in Bodies
        /\ web.at # "over" => Reach(web.chunk, web.taken, frame, wire)
        /\ web.at = "read" /\ web.settled # "chunk" => web.chunk = <<>>
    BY DEF WebOK, WebData
  <1> QED
    BY <1>1, <1>2, <1>3 DEF WebOK, WebBody

\* check() keeps what it lets pass, and what it ends.
LEMMA WebCheckedKeeps ==
    ASSUME WebOK(web, frame, wire), web.at \notin {"idle", "over"}, NEW fr \in FrameState, NEW then,
           web.stopped = "none" /\ ~web.late => WebOK(then, fr, wire)
    PROVE  WebOK(Checked(web, then), fr, wire)
<1>1. WebOK(WebOver(web, "error"), fr, wire)
  BY WebFails, WebType
<1> QED
  BY <1>1 DEF Checked

\* The consumer resumes the stream, or gives it up.
LEMMA WebConsumed ==
    ASSUME WebOK(web, frame, wire), WebRefused \/ Start \/ Pull \/ Unary \/ Return
    PROVE  WebOK(web', frame, wire)
<1>1. web.at # "over" /\ exchange \in {"web.stream", "web.unary"}
  BY DEF WebRefused, Start, Pull, Unary, Return, Pulling
<1>2. WebOK(WebOver(web, "error"), frame, wire)
  BY <1>1, WebFails, WebType
<1>3. ASSUME web.at = "item" PROVE WebOK(Resumed, frame, wire)
  <2> DEFINE next == [web EXCEPT !.at = "decode"]
  <2>1. next = WebGo("decode", web.settled, web.stopped, web.late, web.held, web.sent)
    BY WebType DEF WebSet, WebGo
  <2>2. WebMay("decode", web.settled, web.stopped, web.late, web.held, web.sent, cut, frame)
    BY <1>1, <1>3, WebType DEF WebMay
  <2>3. WebOK(next, frame, wire)
    BY <2>1, <2>2, WebGoes DEF WebOK
  <2> QED
    BY <1>3, <2>3, WebCheckedKeeps, WebType DEF Resumed
<1>4. CASE WebRefused
  BY <1>2, <1>4 DEF WebRefused
<1>5. CASE Start
  <2>1. CASE cut
    BY <1>2, <1>5, <2>1 DEF Start
  <2>2. CASE ~cut
    <3> DEFINE held == {"timer", "listener"}
    <3>1. web.at = "idle" /\ web' = [web EXCEPT !.at = "headers", !.held = held]
      BY <1>5, <2>2 DEF Start
    <3>2. web' = WebGo("headers", web.settled, web.stopped, web.late, held, web.sent)
      BY <3>1, WebType DEF WebSet, WebGo
    <3>3. held \in SUBSET WebHeld /\ "listener" \in held
      BY DEF WebHeld
    <3> HIDE DEF held
    <3>4. WebMay("headers", web.settled, web.stopped, web.late, held, web.sent, cut, frame)
      BY <1>1, <2>2, <3>1, <3>3, WebType DEF WebMay
    <3> QED
      BY <3>2, <3>4, WebGoes DEF WebOK
  <2> QED
    BY <2>1, <2>2
<1>6. CASE Pull
  BY <1>3, <1>6 DEF Pull
<1>7. CASE Unary
  BY <1>2, <1>3, <1>7 DEF Unary
<1>8. CASE Return
  BY <1>2, <1>8 DEF Return
<1> QED
  BY <1>4, <1>5, <1>6, <1>7, <1>8

\* The answers of the application and of the server, and the clock.
LEMMA WebAnswered ==
    ASSUME WebOK(web, frame, wire),
           WebSupplied \/ WebResponded \/ BodyEnds \/ WebElapse \/ WebTimer \/ MoreBytes
    PROVE  WebOK(web', frame, wire)
<1>1. web.at \notin {"idle", "over"}
  BY DEF WebSupplied, WebResponded, BodyEnds, WebElapse, WebTimer, MoreBytes, Idle
<1>2. web.at \in {"headers", "fetch", "read", "decode", "item"}
  BY <1>1, WebType DEF WebPlace
<1>3. CASE WebSupplied
  <2>1. PICK s \in {"good", "bad"} : web' = [web EXCEPT !.settled = s]
    BY <1>3 DEF WebSupplied
  <2>0. web.at = "headers"
    BY <1>3 DEF WebSupplied
  <2>2. web' = WebGo("headers", s, web.stopped, web.late, web.held, web.sent)
    BY <2>0, <2>1, WebType DEF WebSet, WebGo
  <2>3. s \in WebSettled
    BY DEF WebSettled
  <2>4. WebMay("headers", s, web.stopped, web.late, web.held, web.sent, cut, frame)
    BY <1>1, <2>0, <2>3, WebType DEF WebMay
  <2> QED
    BY <2>2, <2>4, WebGoes DEF WebOK
<1>4. CASE WebResponded
  <2>1. PICK s \in {"network", "status", "trailersOnly", "body"}, body \in BOOLEAN :
          web' = [web EXCEPT !.settled = s,
                             !.held = @ \cup (IF body /\ s # "network" THEN {"body"} ELSE {})]
    BY <1>4 DEF WebResponded
  <2> DEFINE held == web.held \cup (IF body /\ s # "network" THEN {"body"} ELSE {})
  <2>0. web.at = "fetch" /\ web' = [web EXCEPT !.settled = s, !.held = held]
    BY <1>4, <2>1 DEF WebResponded
  <2>3. s \in WebSettled /\ held \in SUBSET WebHeld
        /\ ("listener" \in web.held => "listener" \in held)
    BY WebType DEF WebSettled, WebHeld
  <2> HIDE DEF held
  <2>2. web' = WebGo("fetch", s, web.stopped, web.late, held, web.sent)
    BY <2>0, WebType DEF WebSet, WebGo
  <2>4. WebMay("fetch", s, web.stopped, web.late, held, web.sent, cut, frame)
    BY <1>1, <2>0, <2>3, WebType DEF WebMay
  <2> QED
    BY <2>2, <2>4, WebGoes DEF WebOK
<1>5. CASE BodyEnds
  <2>1. PICK s \in {"end", "ragged", "broken"} : web' = [web EXCEPT !.settled = s]
    BY <1>5 DEF BodyEnds
  <2>0. web.at = "read" /\ web.settled = "none"
    BY <1>5 DEF BodyEnds, WebReady
  <2>5. web \in WebSet
    BY WebType
  <2>2. web' = WebGo("read", s, web.stopped, web.late, web.held, web.sent)
    BY <2>0, <2>1, <2>5 DEF WebSet, WebGo
  <2>3. s \in WebSettled
    BY DEF WebSettled
  <2>4. WebMay("read", s, web.stopped, web.late, web.held, web.sent, cut, frame)
    BY <1>1, <2>0, <2>3, WebType DEF WebMay
  <2> QED
    BY <2>2, <2>4, WebGoes DEF WebOK
<1>6. CASE WebElapse
  <2>1. web' = WebGo(web.at, web.settled, web.stopped, TRUE, web.held, web.sent)
    BY <1>6, WebType DEF WebSet, WebGo, WebElapse
  <2>2. WebMay(web.at, web.settled, web.stopped, TRUE, web.held, web.sent, cut, frame)
    BY <1>1, <1>2, WebType DEF WebMay
  <2> QED
    BY <2>1, <2>2, WebGoes DEF WebOK
<1>7. CASE WebTimer
  <2>1. CASE web.stopped # "none"
    BY <1>7, <2>1 DEF WebTimer, WebStop
  <2>2. CASE web.stopped = "none"
    <3>1. web' = [web EXCEPT !.stopped = "TIMEOUT", !.held = {}]
      BY <1>7, <2>2 DEF WebTimer, WebStop
    <3>2. web' = WebGo(web.at, web.settled, "TIMEOUT", web.late, {}, web.sent)
      BY <3>1, WebType DEF WebSet, WebGo
    <3>3. "TIMEOUT" \in WebStops /\ {} \in SUBSET WebHeld
      BY DEF WebStops
    <3>4. WebMay(web.at, web.settled, "TIMEOUT", web.late, {}, web.sent, cut, frame)
      BY <1>1, <1>2, <3>3, WebType DEF WebMay
    <3> QED
      BY <3>2, <3>4, WebGoes DEF WebOK
  <2> QED
    BY <2>1, <2>2
<1>8. CASE MoreBytes
  <2>1. web' = [web EXCEPT !.at = "read", !.settled = "none"] /\ web.chunk = <<>>
        /\ web.at = "decode"
    BY <1>8 DEF MoreBytes
  <2>2. web' = WebGo("read", "none", web.stopped, web.late, web.held, web.sent)
    BY <2>1, WebType DEF WebSet, WebGo
  <2>3. "none" \in WebSettled
    BY DEF WebSettled
  <2>4. WebMay("read", "none", web.stopped, web.late, web.held, web.sent, cut, frame)
    BY <1>1, <2>1, <2>3, WebType DEF WebMay
  <2> QED
    BY <2>2, <2>4, WebGoes DEF WebOK
<1> QED
  BY <1>3, <1>4, <1>5, <1>6, <1>7, <1>8

\* The awaits of a pull come to an end.
LEMMA WebHeadersKeep == ASSUME WebOK(web, frame, wire), WebHeaders PROVE WebOK(web', frame, wire)
<1>1. web.at = "headers" /\ exchange \in {"web.stream", "web.unary"}
  BY WebType DEF WebHeaders
<1>2. WebOK(WebOver(web, "error"), frame, wire)
  BY <1>1, WebFails, WebType
<1> DEFINE next == [web EXCEPT !.at = "fetch", !.sent = 1, !.settled = "none"]
<1>3. next = WebGo("fetch", "none", web.stopped, web.late, web.held, 1)
  BY WebType DEF WebSet, WebGo
<1>4. "none" \in WebSettled
  BY DEF WebSettled
<1>5. WebMay("fetch", "none", web.stopped, web.late, web.held, 1, cut, frame)
  BY <1>1, <1>4, WebType DEF WebMay
<1>6. WebOK(next, frame, wire)
  BY <1>3, <1>5, WebGoes DEF WebOK
<1>7. WebOK(Checked(web, next), frame, wire)
  BY <1>1, <1>6, WebCheckedKeeps, WebType
<1> QED
  BY <1>2, <1>7 DEF WebHeaders

\* The head of the response has come, or its failure (WebFetched).
LEMMA WebFetchedKeeps ==
    ASSUME WebOK(web, frame, wire), WebFetched PROVE WebOK(web', frame', wire)
<1>1. web.at = "fetch" /\ exchange \in {"web.stream", "web.unary"}
  BY WebType DEF WebFetched
<1> DEFINE terminal == web.settled = "trailersOnly"
           fr == Begun(0, terminal)
           next == [web EXCEPT !.at = "read", !.settled = "none"]
<1>2. frame = Begun(0, FALSE) /\ wire.sent = 0 /\ web.taken = <<>> /\ web.chunk = <<>>
      /\ wire.body \in Bodies
  BY <1>1 DEF WebOK, WebData
<1>3. frame' = fr /\ terminal \in BOOLEAN
  BY <1>2 DEF WebFetched, Begun
<1>4. fr \in FrameState /\ Reach(web.chunk, web.taken, fr, wire)
  BY <1>2, <1>3, ReachStart
<1>5. fr.terminal = terminal /\ fr.used = 0
  BY DEF Begun
<1> HIDE DEF fr
<1>6. WebOK(WebOver(web, "error"), fr, wire)
  BY <1>1, <1>4, WebFails, WebType
<1>7. ASSUME terminal PROVE WebOK(Ended(web), fr, wire)
  BY <1>1, <1>2, <1>4, <1>5, <1>7, WebEnds
<1>8. WebOK(next, fr, wire)
  <2>1. next = WebGo("read", "none", web.stopped, web.late, web.held, web.sent)
    BY WebType DEF WebSet, WebGo
  <2>2. "none" \in WebSettled
    BY DEF WebSettled
  <2>3. WebMay("read", "none", web.stopped, web.late, web.held, web.sent, cut, fr)
    BY <1>1, <1>2, <1>4, <2>2, WebType DEF WebMay
  <2> QED
    BY <2>1, <2>3, WebGoes DEF WebOK
<1> DEFINE then == CASE web.settled = "network" -> WebOver(web, "error")
                     [] web.settled = "status" -> WebOver(web, "error")
                     [] web.settled = "trailersOnly" /\ "body" \notin web.held -> Ended(web)
                     [] OTHER -> next
<1>9. web' = Checked(web, then)
  BY DEF WebFetched
<1>10. WebOK(then, fr, wire)
  <2> HIDE DEF next
  <2>1. CASE web.settled \in {"network", "status"}
    <3>1. then = WebOver(web, "error")
      BY <2>1
    <3> QED
      BY <1>6, <3>1
  <2>2. CASE web.settled = "trailersOnly" /\ "body" \notin web.held
    <3>1. then = Ended(web)
      BY <2>2
    <3> QED
      BY <1>7, <2>2, <3>1
  <2>3. CASE ~(web.settled \in {"network", "status"})
             /\ ~(web.settled = "trailersOnly" /\ "body" \notin web.held)
    <3>1. then = next
      BY <2>3
    <3> QED
      BY <1>8, <3>1
  <2> QED
    BY <2>1, <2>2, <2>3
<1> HIDE DEF then
<1>11. WebOK(Checked(web, then), fr, wire)
  BY <1>1, <1>4, <1>10, WebCheckedKeeps
<1> QED
  BY <1>3, <1>9, <1>11

\* A chunk has come, or the end of the body (WebRead).
LEMMA WebReadKeeps == ASSUME WebOK(web, frame, wire), WebRead PROVE WebOK(web', frame, wire)
<1>1. web.at = "read" /\ exchange \in {"web.stream", "web.unary"}
  BY WebType DEF WebRead
<1>2. WebOK(WebOver(web, "error"), frame, wire)
  BY <1>1, WebFails, WebType
<1> DEFINE next == [web EXCEPT !.at = "decode"]
<1>3. WebOK(next, frame, wire)
  <2>1. next = WebGo("decode", web.settled, web.stopped, web.late, web.held, web.sent)
    BY WebType DEF WebSet, WebGo
  <2>2. WebMay("decode", web.settled, web.stopped, web.late, web.held, web.sent, cut, frame)
    BY <1>1, WebType DEF WebMay
  <2> QED
    BY <2>1, <2>2, WebGoes DEF WebOK
<1>4. ASSUME web.settled = "end" PROVE WebOK(EndOfBody(web), frame, wire)
  <2>1. web.chunk = <<>> /\ Reach(<<>>, web.taken, frame, wire) /\ frame \in FrameState
    BY <1>1, <1>4, WebType
  <2>2. CASE ~frame.terminal \/ frame.used > 0
    BY <1>2, <2>2 DEF EndOfBody
  <2>3. CASE ~(~frame.terminal \/ frame.used > 0)
    <3>1. frame.used \in Nat
      BY <2>1, HeaderAssumption DEF FrameState
    <3>2. frame.terminal /\ frame.used = 0
      BY <2>3, <3>1
    <3>3. WebOK(Ended(web), frame, wire)
      BY <1>1, <2>1, <3>2, WebEnds
    <3> QED
      BY <2>3, <3>3 DEF EndOfBody
  <2> QED
    BY <2>2, <2>3
<1> DEFINE then == CASE web.settled = "chunk" -> next
                     [] web.settled = "end" -> EndOfBody(web)
                     [] OTHER -> WebOver(web, "error")
<1>5. web' = Checked(web, then)
  BY DEF WebRead
<1>6. WebOK(then, frame, wire)
  <2> HIDE DEF next
  <2>1. CASE web.settled = "chunk"
    BY <1>3, <2>1
  <2>2. CASE web.settled = "end"
    BY <1>4, <2>2
  <2>3. CASE web.settled \notin {"chunk", "end"}
    <3>1. then = WebOver(web, "error")
      BY <2>3
    <3> QED
      BY <1>2, <3>1
  <2> QED
    BY <2>1, <2>2, <2>3
<1> HIDE DEF then
<1>7. WebOK(Checked(web, then), frame, wire)
  BY <1>1, <1>6, WebCheckedKeeps, WebType
<1> QED
  BY <1>5, <1>7

\* A decoder between two frames (Begun).
LEMMA BegunFrame ==
    ASSUME NEW count \in Nat, NEW terminal \in BOOLEAN
    PROVE  Begun(count, terminal) \in FrameState
  BY HeaderAssumption DEF Begun, FrameState

\* A turn of the decoder.
LEMMA DecodeKeeps == ASSUME WebOK(web, frame, wire), Decode PROVE WebOK(web', frame', wire)
<1>1. web.at = "decode" /\ web.chunk # <<>> /\ exchange \in {"web.stream", "web.unary"}
      /\ web.outcome = "none"
  BY WebType DEF Decode, WebOK, WebBody
<1>2. wire.body \in Seq(FrameSet) /\ wire.body \in Bodies
      /\ wire = [body |-> wire.body, sent |-> wire.sent]
  BY WebType, BodiesAreFrames DEF WebOK, WebData
<1> DEFINE turn == Turn
           next == [web EXCEPT !.chunk = turn.rest]
           whole == turn.is \in {"data", "trailer"}
           given == [next EXCEPT !.at = "item", !.taken = Append(@, turn.frame.payload)]
<1>3. frame' = IF whole THEN Begun(turn.frame.count, turn.is = "trailer") ELSE turn.frame
  BY DEF Decode
<1>4. web' = CASE frame.terminal -> WebOver(web, "error")
               [] ~frame.terminal /\ turn.is = "part" -> next
               [] ~frame.terminal /\ turn.is = "trailer" /\ turn.frame.head.ok -> next
               [] ~frame.terminal /\ turn.is = "data" -> Checked(web, given)
               [] OTHER -> WebOver(web, "error")
  BY DEF Decode
<1>5. /\ turn.is \in {"part", "refused", "data", "trailer"}
      /\ turn.rest \in Seq(Byte) /\ turn.frame \in FrameState
      /\ turn.is = "part" => Reach(turn.rest, web.taken, turn.frame, wire)
      /\ turn.is \in {"data", "trailer"} =>
            turn.frame.count \in Nat /\ turn.frame.payload \in Seq(Byte)
      /\ turn.is = "trailer" /\ ~frame.terminal /\ turn.frame.head.ok =>
            Reach(turn.rest, web.taken, Begun(turn.frame.count, TRUE), wire)
      /\ turn.is = "data" /\ ~frame.terminal =>
            Reach(turn.rest, Append(web.taken, turn.frame.payload),
                  Begun(turn.frame.count, FALSE), wire)
  BY <1>1, <1>2, WebType, ReachNext
<1>6. ASSUME NEW fr \in FrameState PROVE WebOK(WebOver(web, "error"), fr, wire)
  BY <1>1, <1>6, WebFails, WebType
<1>7. ASSUME NEW fr \in FrameState, Reach(turn.rest, web.taken, fr, wire)
      PROVE  WebOK(next, fr, wire)
  <2> HIDE DEF turn
  <2>1. next \in WebSet
    BY <1>5, WebType DEF WebSet
  <2>2. /\ next.at = "decode" /\ next.sent = web.sent /\ next.held = web.held
        /\ next.outcome = "none" /\ next.stopped = web.stopped /\ next.chunk = turn.rest
        /\ next.taken = web.taken
    BY <1>1, WebType DEF WebSet
  <2> HIDE DEF next
  <2>3. WebBody(next, cut)
    BY <1>1, <2>1, <2>2, WebType DEF WebBody
  <2>4. WebData(next, fr, wire)
    BY <1>2, <1>7, <2>2 DEF WebData
  <2> QED
    BY <2>3, <2>4 DEF WebOK
<1>8. ASSUME turn.is = "data", NEW fr \in FrameState,
             Reach(turn.rest, Append(web.taken, turn.frame.payload), fr, wire)
      PROVE  WebOK(given, fr, wire)
  <2> HIDE DEF turn
  <2> DEFINE taken == Append(web.taken, turn.frame.payload)
  <2>1. taken \in Seq(Seq(Byte))
    BY <1>5, <1>8, WebType
  <2>2. given = [web EXCEPT !.chunk = turn.rest, !.at = "item", !.taken = taken]
    BY WebType DEF WebSet
  <2> HIDE DEF taken, given, next
  <2>3. given \in WebSet
    BY <1>5, <2>1, <2>2, WebType DEF WebSet, WebPlace
  <2>4. /\ given.at = "item" /\ given.sent = web.sent /\ given.held = web.held
        /\ given.outcome = "none" /\ given.stopped = web.stopped /\ given.chunk = turn.rest
        /\ given.taken = taken
    BY <1>1, <2>2, WebType DEF WebSet
  <2>5. WebBody(given, cut)
    BY <1>1, <2>3, <2>4, WebType DEF WebBody
  <2>6. WebData(given, fr, wire)
    BY <1>2, <1>8, <2>4 DEF WebData, taken
  <2> QED
    BY <2>5, <2>6 DEF WebOK
<1>9. whole => Begun(turn.frame.count, turn.is = "trailer") \in FrameState
  <2> HIDE DEF turn
  <2> QED
    BY <1>5, BegunFrame
<1>10. frame.terminal \in BOOLEAN
  BY WebType DEF FrameState
<1> HIDE DEF turn, next, given
<1>11. CASE turn.is = "part"
  <2>1. frame' = turn.frame /\ turn.frame \in FrameState /\ Reach(turn.rest, web.taken, turn.frame, wire)
    BY <1>3, <1>5, <1>11
  <2>2. web' \in {WebOver(web, "error"), next}
    BY <1>4, <1>10, <1>11
  <2> QED
    BY <1>6, <1>7, <2>1, <2>2
<1>12. CASE turn.is = "trailer"
  <2>1. frame' = Begun(turn.frame.count, TRUE) /\ Begun(turn.frame.count, TRUE) \in FrameState
    BY <1>3, <1>9, <1>12
  <2>2. CASE ~frame.terminal /\ turn.frame.head.ok
    <3>1. web' = next
      BY <1>4, <1>12, <2>2
    <3> QED
      BY <1>5, <1>7, <1>12, <2>1, <2>2, <3>1
  <2>3. CASE ~(~frame.terminal /\ turn.frame.head.ok)
    <3>1. web' = WebOver(web, "error")
      BY <1>4, <1>12, <2>3
    <3> QED
      BY <1>6, <2>1, <3>1
  <2> QED
    BY <2>2, <2>3
<1>13. CASE turn.is = "data"
  <2>1. frame' = Begun(turn.frame.count, FALSE) /\ Begun(turn.frame.count, FALSE) \in FrameState
    BY <1>3, <1>9, <1>13
  <2>2. CASE frame.terminal
    <3>1. web' = WebOver(web, "error")
      BY <1>4, <1>13, <2>2
    <3> QED
      BY <1>6, <2>1, <3>1
  <2>3. CASE ~frame.terminal
    <3>1. web' = Checked(web, given)
      BY <1>4, <1>13, <2>3
    <3>2. WebOK(given, frame', wire)
      BY <1>5, <1>8, <1>13, <2>1, <2>3
    <3>3. WebOK(Checked(web, given), frame', wire)
      BY <1>1, <2>1, <3>2, WebCheckedKeeps
    <3> QED
      BY <3>1, <3>3
  <2> QED
    BY <2>2, <2>3
<1>14. CASE turn.is = "refused"
  <2>1. web' = WebOver(web, "error") /\ frame' = turn.frame
    BY <1>3, <1>4, <1>14
  <2> QED
    BY <1>5, <1>6, <2>1
<1> QED
  BY <1>5, <1>11, <1>12, <1>13, <1>14

\* The next bytes come.
LEMMA ChunkKeeps == ASSUME WebOK(web, frame, wire), Chunk PROVE WebOK(web', frame, wire')
<1> DEFINE bytes == Bytes(wire.body)
<1>1. PICK n \in 1..Len(bytes) - wire.sent :
        /\ web.at = "read" /\ ~WebReady
        /\ web' = [web EXCEPT !.settled = "chunk",
                              !.chunk = SubSeq(bytes, wire.sent + 1, wire.sent + n)]
        /\ wire' = [wire EXCEPT !.sent = @ + n]
  BY DEF Chunk
<1>2. web.at = "read" /\ web.chunk = <<>> /\ web.outcome = "none"
  BY <1>1, WebType DEF WebReady, WebOK, WebBody
<1>3. PICK off, f, k :
        /\ Offsets(wire.body, off)
        /\ Pending(web.chunk, wire.sent, k, bytes)
        /\ Decoding(frame, wire.body, off, f, k)
        /\ Gave(web.taken, wire.body, f - 1)
        /\ Trailed(frame.terminal, wire.body, f)
  BY <1>2, WebType DEF Reach
<1>4. bytes \in Seq(Byte)
  BY <1>3, WebType, BodiesAreFrames, BytesLaid DEF Laid
<1> DEFINE chunk == SubSeq(bytes, wire.sent + 1, wire.sent + n)
<1> HIDE DEF bytes
<1>5. k \in Nat /\ k = wire.sent /\ Len(bytes) \in Nat
  BY <1>2, <1>3, <1>4 DEF Pending
<1>6. n \in Nat /\ wire.sent + n <= Len(bytes) /\ wire.sent \in Nat
  BY <1>1, <1>5
<1>7. chunk \in Seq(Byte) /\ Len(chunk) = n /\ \A j \in 1..n : chunk[j] = bytes[wire.sent + j]
  <2> DEFINE low == wire.sent + 1
             high == wire.sent + n
  <2>1. low \in Nat \ {0} /\ high \in Nat /\ low <= high + 1 /\ high <= Len(bytes)
        /\ (high - low) + 1 = n
    BY <1>6
  <2>2. \A j \in 1..n : (low + j) - 1 = wire.sent + j
    BY <1>6
  <2> HIDE DEF low, high
  <2>3. SubSeq(bytes, low, high) \in Seq(Byte)
    BY <1>4, <2>1
  <2>4. Len(SubSeq(bytes, low, high)) = (high - low) + 1
    BY <1>4, <2>1
  <2>5. \A j \in 1..(high - low) + 1 : SubSeq(bytes, low, high)[j] = bytes[(low + j) - 1]
    BY <1>4, <2>1
  <2> QED
    BY <2>1, <2>2, <2>3, <2>4, <2>5 DEF low, high
<1> HIDE DEF chunk
<1>8. Pending(chunk, wire.sent + n, k, bytes)
  BY <1>5, <1>6, <1>7 DEF Pending
<1>9. wire' = [body |-> wire.body, sent |-> wire.sent + n]
  <2>1. wire = [body |-> wire.body, sent |-> wire.sent]
    BY DEF WebOK, WebData
  <2> QED
    BY <1>1, <2>1
<1>10. wire'.body = wire.body /\ wire'.sent = wire.sent + n
  BY <1>9
<1>11. Reach(chunk, web.taken, frame, wire')
  BY <1>3, <1>8, <1>10 DEF Reach, bytes
<1>12. web' = [web EXCEPT !.settled = "chunk", !.chunk = chunk]
  BY <1>1 DEF chunk
<1>13. web' \in WebSet
  BY <1>7, <1>12, WebType DEF WebSet, WebSettled
<1>14. /\ web'.at = "read" /\ web'.settled = "chunk" /\ web'.chunk = chunk
       /\ web'.taken = web.taken /\ web'.sent = web.sent /\ web'.held = web.held
       /\ web'.stopped = web.stopped /\ web'.outcome = "none"
  BY <1>2, <1>12, WebType DEF WebSet
<1>15. WebBody(web', cut)
  BY <1>2, <1>13, <1>14, WebType DEF WebBody
<1>16. WebData(web', frame, wire')
  BY <1>9, <1>10, <1>11, <1>14, WebType DEF WebData
<1> QED
  BY <1>15, <1>16 DEF WebOK

\* The caller's signal stops the call, wherever it is.
LEMMA WebAbortKeeps ==
    ASSUME WebOK(web, frame, wire), WebAbort
    PROVE  WebBody(web', TRUE) /\ WebData(web', frame, wire)
<1>1. exchange \in {"web.stream", "web.unary"} /\ web.at \notin {"over", "decode"}
      /\ web' = IF "listener" \in web.held THEN WebStop(web, "ABORTED") ELSE web
  BY DEF WebAbort
<1>2. CASE web.at = "idle"
  <2>1. web' = web
    BY <1>1, <1>2 DEF WebOK, WebBody
  <2> QED
    BY <1>2, <2>1 DEF WebOK, WebBody
<1>3. CASE web.at # "idle"
  <2>1. web.at \in {"headers", "fetch", "read", "item"}
    BY <1>1, <1>3, WebType DEF WebPlace
  <2>2. CASE web.stopped # "none"
    <3>1. web' = web
      BY <1>1, <2>2 DEF WebStop
    <3> QED
      BY <2>2, <3>1 DEF WebOK, WebBody
  <2>3. CASE web.stopped = "none"
    <3>1. web' = [web EXCEPT !.stopped = "ABORTED", !.held = {}]
      BY <1>1, <2>1, <2>3, WebType DEF WebStop
    <3>2. web' = WebGo(web.at, web.settled, "ABORTED", web.late, {}, web.sent)
      BY <3>1, WebType DEF WebSet, WebGo
    <3>3. "ABORTED" \in WebStops /\ {} \in SUBSET WebHeld
      BY DEF WebStops
    <3>4. WebMay(web.at, web.settled, "ABORTED", web.late, {}, web.sent, TRUE, frame)
      BY <1>1, <2>1, <3>3, WebType DEF WebMay
    <3> QED
      BY <3>2, <3>4, WebGoes
  <2> QED
    BY <2>2, <2>3
<1> QED
  BY <1>2, <1>3

\* No step of a call on gRPC-web leaves what is known of it (WebNext).
LEMMA WebStepOK == ASSUME WebOK(web, frame, wire), WebNext PROVE WebOK(web, frame, wire)'
<1>1. exchange' = exchange
  BY DEF WebNext, WebStep, WebRefused, Start, Pull, Unary, Return, WebHeaders, WebFetched, WebRead,
     Decode, MoreBytes, WebSupplied, WebResponded, Chunk, BodyEnds, WebElapse, WebTimer, WebAbort,
     caller
<1>2. CASE WebAbort
  <2>1. WebBody(web', TRUE) /\ WebData(web', frame, wire)
    BY <1>2, WebAbortKeeps
  <2>2. frame' = frame /\ wire' = wire /\ cut' = TRUE
    BY <1>2 DEF WebAbort
  <2> QED
    BY <1>1, <2>1, <2>2 DEF WebOK, WebBody
<1>3. CASE ~WebAbort
  <2>1. cut' = cut
    BY <1>3 DEF WebNext, WebStep, WebRefused, Start, Pull, Unary, Return, WebHeaders, WebFetched,
       WebRead, Decode, MoreBytes, WebSupplied, WebResponded, Chunk, BodyEnds, WebElapse, WebTimer,
       caller
  <2>2. CASE WebFetched \/ Decode
    <3>1. WebOK(web', frame', wire)
      BY <2>2, WebFetchedKeeps, DecodeKeeps
    <3>2. wire' = wire
      BY <2>2 DEF WebFetched, Decode
    <3> QED
      BY <1>1, <2>1, <3>1, <3>2 DEF WebOK, WebBody
  <2>3. CASE Chunk
    <3>1. WebOK(web', frame, wire')
      BY <2>3, ChunkKeeps
    <3>2. frame' = frame
      BY <2>3 DEF Chunk
    <3> QED
      BY <1>1, <2>1, <3>1, <3>2 DEF WebOK, WebBody
  <2>4. CASE ~(WebFetched \/ Decode) /\ ~Chunk
    <3>1. WebOK(web', frame, wire)
      BY <1>3, <2>4, WebConsumed, WebHeadersKeep, WebReadKeeps, WebAnswered DEF WebNext, WebStep
    <3>2. frame' = frame /\ wire' = wire
      BY <1>3, <2>4 DEF WebNext, WebStep, WebRefused, Start, Pull, Unary, Return, WebHeaders, WebRead,
         MoreBytes, WebSupplied, WebResponded, BodyEnds, WebElapse, WebTimer
    <3> QED
      BY <1>1, <2>1, <3>1, <3>2 DEF WebOK, WebBody
  <2> QED
    BY <2>2, <2>3, <2>4
<1> QED
  BY <1>2, <1>3

\* A call that has not begun (WebInit).
LEMMA WebInitOK == ASSUME WebInit, CallerInit PROVE WebOK(web, frame, wire)
<1>1. /\ web = [at |-> "idle", settled |-> "none", stopped |-> "none", late |-> FALSE,
                chunk |-> <<>>, taken |-> <<>>, sent |-> 0, held |-> {}, outcome |-> "none"]
      /\ frame = Begun(0, FALSE) /\ wire \in [body : Bodies, sent : {0}]
  BY DEF WebInit
<1>2. web \in WebSet
  <2>1. <<>> \in Seq(Byte) /\ <<>> \in Seq(Seq(Byte)) /\ {} \in SUBSET WebHeld
    OBVIOUS
  <2> QED
    BY <1>1, <2>1 DEF WebSet, WebPlace, WebSettled, WebStops, Outcome
<1>3. web.at = "idle" /\ web.sent = 0 /\ web.held = {} /\ web.outcome = "none"
      /\ web.chunk = <<>> /\ web.taken = <<>>
  BY <1>1
<1>4. WebBody(web, cut)
  BY <1>2, <1>3 DEF WebBody
<1>5. wire.body \in Bodies /\ wire.sent = 0 /\ wire = [body |-> wire.body, sent |-> wire.sent]
  BY <1>1
<1>6. Reach(<<>>, <<>>, frame, wire) /\ frame \in FrameState
  BY <1>1, <1>5, ReachStart
<1>7. WebData(web, frame, wire)
  BY <1>1, <1>3, <1>5, <1>6 DEF WebData
<1> QED
  BY <1>4, <1>7 DEF WebOK

\* What is known of a call gives its property: a stream is given on as it was sent, in
\* whatever chunks it came (FramesExact).
LEMMA WebExact == ASSUME WebOK(web, frame, wire) PROVE FramesExact
<1>1. CASE web.at = "over"
  BY <1>1 DEF WebOK, WebData, FramesExact, Delivered, DataFrames, Gave, DataOf
<1>2. CASE web.at # "over"
  <2>1. \E n \in 0..Len(wire.body) : Gave(web.taken, wire.body, n)
    BY <1>2, WebType, ReachGave
  <2>2. web.outcome = "none"
    BY <1>2 DEF WebOK, WebBody
  <2> QED
    BY <2>1, <2>2 DEF FramesExact, Delivered, DataFrames, Gave, DataOf
<1> QED
  BY <1>1, <1>2

-----------------------------------------------------------------------------
(* The JSON-RPC transport (HttpTransport) *)

\* Where a call may be, what it may have got and what it may hold.
HttpPlace == {"idle", "headers", "fetch", "body", "delay", "over"}
HttpSettled ==
    {"none", "good", "bad", "network", "limit", "empty", "body", "answer", "refusal", "failure",
     "garbage", "broken"}
HttpHeld == {"timer", "listener", "reader", "body"}
HttpSet ==
    [at : HttpPlace, try : Nat, sent : Nat, settled : HttpSettled,
     status : {"none", "ok", "busy", "other"}, stopped : WebStops, late : BOOLEAN, orphans : Nat,
     held : SUBSET HttpHeld, outcome : Outcome]

\* An attempt sends at most once; a transaction has one attempt, a read as many as it may.
HttpSent(h) ==
    /\ h.at = "idle" => h.sent = 0
    /\ h.try < Attempts
    /\ Sending => h.try = 0 /\ h.at # "delay"
    /\ h.at \in {"idle", "headers", "delay"} => h.sent <= h.try
    /\ h.at \in {"fetch", "body"} => h.sent <= h.try + 1 /\ h.sent > 0

\* What the attempt holds, who has stopped it, and what is known of the answer.
HttpOK(h) ==
    /\ h \in HttpSet
    /\ HttpSent(h)
    /\ h.at # "idle" => exchange \in Http
    /\ h.at = "idle" => h.held = {}
    /\ h.at # "over" => h.outcome = "none"
    /\ h.at \in {"headers", "fetch", "body", "delay"} => "listener" \in h.held
    /\ h.at \in {"headers", "fetch", "body"} /\ cut => h.stopped # "none"
    /\ h.at = "delay" => ~cut
    /\ h.at = "body" =>
          /\ h.settled \in {"none", "answer", "refusal", "failure", "garbage", "limit", "broken"}
          /\ h.settled = "answer" /\ Sending => served = "accepted"
          /\ h.settled = "refusal" => Sending /\ served = "refused"
    /\ h.at = "over" => h.held = {} /\ Truthful(h.outcome, h.sent)

\* The types of a call.
LEMMA HttpType ==
    ASSUME NEW h, HttpOK(h)
    PROVE  /\ h \in HttpSet /\ h.at \in HttpPlace /\ h.try \in Nat /\ h.sent \in Nat
           /\ h.settled \in HttpSettled /\ h.status \in {"none", "ok", "busy", "other"}
           /\ h.stopped \in WebStops /\ h.late \in BOOLEAN /\ h.orphans \in Nat
           /\ h.held \in SUBSET HttpHeld /\ h.outcome \in Outcome
           /\ Attempts \in Nat \ {0}
  BY AttemptsAssumption DEF HttpOK, HttpSet

\* The call is over: nothing is held, and what is told is true.
LEMMA HttpEnds ==
    ASSUME NEW h \in HttpSet, h.try < Attempts, Sending => h.try = 0, exchange \in Http,
           NEW o \in Outcome, Truthful(o, h.sent)
    PROVE  /\ HttpOK(HttpOver(h, o))
           /\ HttpOver(h, o).sent = h.sent /\ HttpOver(h, o).at = "over"
<1> DEFINE over == HttpOver(h, o)
<1>1. over = [h EXCEPT !.at = "over", !.held = {}, !.outcome = o]
  BY DEF HttpOver
<1>2. over \in HttpSet
  BY <1>1 DEF HttpSet, HttpPlace
<1>3. over.at = "over" /\ over.held = {} /\ over.outcome = o /\ over.sent = h.sent /\ over.try = h.try
  BY <1>1 DEF HttpSet
<1> HIDE DEF over
<1>4. HttpSent(over)
  BY <1>3 DEF HttpSent
<1> QED
  BY <1>2, <1>3, <1>4 DEF HttpOK, over

\* What may go wrong in an attempt: a structured refusal comes from the node.
Fails(h, e) ==
    /\ h \in HttpSet /\ h.outcome = "none" /\ exchange \in Http
    /\ h.try < Attempts /\ (Sending => h.try = 0) /\ h.sent <= h.try + 1
    /\ e = "REFUSED" => Sending /\ served = "refused"

\* A failed attempt is tried again or ends the call (Rejected).
LEMMA HttpRejected ==
    ASSUME NEW h, NEW e, Fails(h, e)
    PROVE  /\ HttpOK(Rejected(h, e))
           /\ Rejected(h, e).sent = h.sent /\ Rejected(h, e).at \in {"delay", "over"}
<1> DEFINE ended == [h EXCEPT !.held = {}]
<1>1. h \in HttpSet /\ h.outcome = "none" /\ exchange \in Http /\ h.try < Attempts
      /\ (Sending => h.try = 0) /\ h.sent <= h.try + 1 /\ h.sent \in Nat /\ h.try \in Nat
      /\ Attempts \in Nat
  BY AttemptsAssumption DEF Fails, HttpSet
<1>2. ended \in HttpSet /\ ended.sent = h.sent /\ ended.try = h.try /\ ended.outcome = "none"
      /\ ended.held = {}
  BY <1>1 DEF HttpSet
<1> HIDE DEF ended
<1> DEFINE Made(g) == HttpOK(g) /\ g.sent = h.sent /\ g.at \in {"delay", "over"}
<1>3. ASSUME Sending PROVE Made(SendFailed(ended, e))
  <2> DEFINE o == IF ended.sent = 0 THEN "error" ELSE Report(e)
  <2>1. o \in Outcome /\ Truthful(o, ended.sent)
    <3>1. Writing
      BY <1>3 DEF Sending, Writing
    <3> QED
      BY <1>3, <3>1 DEF Truthful, Outcome, Report, Fails
  <2> HIDE DEF o
  <2>2. Made(HttpOver(ended, o))
    BY <1>1, <1>2, <2>1, HttpEnds
  <2> QED
    BY <2>2 DEF SendFailed, o
<1>4. ASSUME ~Sending PROVE Made(HttpOver(ended, "error"))
  <2>1. Truthful("error", ended.sent) /\ "error" \in Outcome
    BY <1>1, <1>4 DEF Truthful, Outcome, Writing, Sending, Http
  <2> QED
    BY <1>1, <1>2, <2>1, HttpEnds
<1>5. ASSUME ~Sending, MayRetry(e, h.try) PROVE Made(Delay(ended))
  <2>1. CASE cut
    BY <1>4, <1>5, <2>1 DEF Delay
  <2>2. CASE ~cut
    <3> DEFINE next == [ended EXCEPT !.at = "delay", !.try = h.try + 1, !.held = {"timer", "listener"}]
    <3>1. Delay(ended) = next
      BY <1>2, <2>2 DEF Delay
    <3>2. h.try + 1 < Attempts
      BY <1>5 DEF MayRetry
    <3>3. {"timer", "listener"} \in SUBSET HttpHeld /\ h.try + 1 \in Nat
      BY <1>1 DEF HttpHeld
    <3>4. next \in HttpSet
      BY <1>1, <1>2, <3>3 DEF HttpSet, HttpPlace
    <3>5. next.at = "delay" /\ next.try = h.try + 1 /\ next.sent = h.sent /\ "listener" \in next.held
          /\ next.outcome = "none"
      BY <1>2 DEF HttpSet
    <3> HIDE DEF next
    <3>6. HttpSent(next)
      BY <1>1, <1>5, <3>2, <3>5 DEF HttpSent
    <3>7. HttpOK(next)
      BY <1>1, <2>2, <3>4, <3>5, <3>6 DEF HttpOK
    <3> QED
      BY <3>1, <3>5, <3>7
  <2> QED
    BY <2>1, <2>2
<1>6. CASE Sending
  <2>1. Rejected(h, e) = SendFailed(ended, e)
    BY <1>6 DEF Rejected, ended
  <2> QED
    BY <1>3, <1>6, <2>1
<1>7. CASE ~Sending /\ MayRetry(e, h.try)
  <2>1. Rejected(h, e) = Delay(ended)
    BY <1>7 DEF Rejected, ended
  <2> QED
    BY <1>5, <1>7, <2>1
<1>8. CASE ~Sending /\ ~MayRetry(e, h.try)
  <2>1. Rejected(h, e) = HttpOver(ended, "error")
    BY <1>8 DEF Rejected, ended
  <2> QED
    BY <1>4, <1>8, <2>1
<1> QED
  BY <1>6, <1>7, <1>8

\* An attempt begins.
LEMMA HttpBegins ==
    ASSUME HttpOK(http), exchange \in Http, http.at \in {"idle", "delay"}
    PROVE  /\ HttpOK(Begin(http))
           /\ Begin(http).sent = http.sent /\ Begin(http).at \notin {"idle", "fetch", "body"}
<1>1. http.outcome = "none" /\ http.try < Attempts /\ (Sending => http.try = 0)
      /\ http.sent <= http.try
  BY DEF HttpOK, HttpSent
<1>2. CASE cut
  <2>1. Fails(http, "ABORTED")
    BY <1>1, HttpType DEF Fails
  <2>2. /\ HttpOK(Rejected(http, "ABORTED"))
        /\ Rejected(http, "ABORTED").sent = http.sent
        /\ Rejected(http, "ABORTED").at \in {"delay", "over"}
    BY <2>1, HttpRejected
  <2> QED
    BY <1>2, <2>2 DEF Begin
<1>3. CASE ~cut
  <2> DEFINE next == [http EXCEPT !.at = "headers", !.settled = "none", !.stopped = "none",
                                  !.late = FALSE, !.held = {"timer", "listener"}]
  <2>1. Begin(http) = next
    BY <1>3 DEF Begin
  <2>2. {"timer", "listener"} \in SUBSET HttpHeld
    BY DEF HttpHeld
  <2>3. next \in HttpSet
    <3>1. http \in HttpSet
      BY HttpType
    <3>2. "headers" \in HttpPlace /\ "none" \in HttpSettled /\ "none" \in WebStops
      BY DEF HttpPlace, HttpSettled, WebStops
    <3> QED
      BY <2>2, <3>1, <3>2 DEF HttpSet
  <2>4. next.at = "headers" /\ next.held = {"timer", "listener"} /\ next.try = http.try
        /\ next.sent = http.sent /\ next.outcome = "none"
    BY <1>1, HttpType DEF HttpSet
  <2> HIDE DEF next
  <2>5. HttpSent(next)
    BY <1>1, <2>4 DEF HttpSent
  <2>6. HttpOK(next)
    BY <1>3, <2>3, <2>4, <2>5 DEF HttpOK
  <2> QED
    BY <2>1, <2>4, <2>6
<1> QED
  BY <1>2, <1>3

\* A step of an exchange: it never begins again, what is over stays as it is, and what it
\* sends it sends before that, for a caller that has not given up.
Takes(x, y, most) ==
    /\ y.at = "idle" => x.at = "idle" /\ y.sent = x.sent /\ y.held = x.held
    /\ x.at = "over" =>
          y.at = "over" /\ y.sent = x.sent /\ y.held = x.held /\ y.outcome = x.outcome
    /\ \/ y.sent = x.sent
       \/ y.sent = x.sent + 1 /\ ~cut /\ x.sent < most /\ y.at \notin {"idle", "over"}

\* How often a request may be sent: a transaction once.
MostSent == IF Writing THEN 1 ELSE Attempts

\* The attempt goes on, and keeps what it has sent.
HttpKeeps(g) == HttpOK(g) /\ g.sent = http.sent /\ g.at # "idle"

\* A call that sends nothing takes what it may.
LEMMA KeepsTakes ==
    ASSUME NEW g, HttpKeeps(g), http.at # "over"
    PROVE  HttpOK(g) /\ Takes(http, g, MostSent)
  BY DEF HttpKeeps, Takes

\* An attempt fails with an error that is true (Rejected).
LEMMA HttpFails ==
    ASSUME NEW e, HttpOK(http), http.at \in {"headers", "fetch", "body"},
           e = "REFUSED" => Sending /\ served = "refused"
    PROVE  HttpKeeps(Rejected(http, e))
<1>1. http.outcome = "none" /\ http.try < Attempts /\ (Sending => http.try = 0)
      /\ http.sent <= http.try + 1 /\ exchange \in Http
  BY HttpType DEF HttpOK, HttpSent
<1>2. Fails(http, e)
  BY <1>1, HttpType DEF Fails
<1> QED
  BY <1>2, HttpRejected DEF HttpKeeps

\* The head of the response has come, or its failure (Fetched).
LEMMA HttpFetchedKeeps == ASSUME HttpOK(http), Fetched PROVE HttpKeeps(http')
<1>1. http.at = "fetch" /\ Ready
  BY DEF Fetched
<1>2. http.outcome = "none" /\ http.try < Attempts /\ (Sending => http.try = 0)
      /\ http.sent <= http.try + 1 /\ http.sent > 0 /\ exchange \in Http
      /\ "listener" \in http.held /\ (cut => http.stopped # "none")
  BY <1>1 DEF HttpOK, HttpSent
<1>3. CASE http.stopped # "none"
  <2> DEFINE orphans == http.orphans + (IF http.settled = "none" THEN 1 ELSE 0)
             left == [http EXCEPT !.orphans = orphans]
  <2>1. orphans \in Nat
    BY HttpType
  <2> HIDE DEF orphans
  <2>2. left \in HttpSet
    BY <2>1, HttpType DEF HttpSet
  <2>3. left.outcome = "none" /\ left.try = http.try /\ left.sent = http.sent
    BY <1>2, HttpType DEF HttpSet
  <2>4. http' = Rejected(left, http.stopped)
    BY <1>3 DEF Fetched, orphans
  <2> HIDE DEF left
  <2>5. Fails(left, http.stopped)
    BY <1>2, <2>2, <2>3, HttpType DEF Fails, WebStops
  <2>6. /\ HttpOK(Rejected(left, http.stopped))
        /\ Rejected(left, http.stopped).sent = left.sent
        /\ Rejected(left, http.stopped).at \in {"delay", "over"}
    BY <2>5, HttpRejected
  <2> QED
    BY <2>3, <2>4, <2>6 DEF HttpKeeps
<1>4. CASE http.stopped = "none"
  <2> DEFINE held == http.held \cup {"reader"}
             next == [http EXCEPT !.at = "body", !.settled = "none", !.held = held]
  <2>1. http' = Response(http)
    BY <1>4 DEF Fetched
  <2>2. held \in SUBSET HttpHeld /\ "listener" \in held
    BY <1>2, HttpType DEF HttpHeld
  <2> HIDE DEF held
  <2>3. next \in HttpSet
    <3>1. http \in HttpSet
      BY HttpType
    <3> QED
      BY <2>2, <3>1 DEF HttpSet, HttpPlace, HttpSettled
  <2>4. next.at = "body" /\ next.settled = "none" /\ next.held = held /\ next.sent = http.sent
        /\ next.try = http.try /\ next.outcome = "none" /\ next.stopped = http.stopped
    BY <1>2, HttpType DEF HttpSet
  <2>5. next = [http EXCEPT !.at = "body", !.settled = "none", !.held = @ \cup {"reader"}]
    BY DEF held
  <2> HIDE DEF next
  <2>6. HttpKeeps(next)
    <3>1. HttpSent(next)
      BY <1>2, <2>4, HttpType DEF HttpSent
    <3> QED
      BY <1>2, <2>2, <2>3, <2>4, <3>1 DEF HttpOK, HttpKeeps
  <2>7. ASSUME NEW e \in {"UNAVAILABLE", "LIMIT", "PROTOCOL", "TRANSPORT"}
        PROVE  HttpKeeps(Rejected(http, e))
    BY <1>1, HttpFails
  <2>8. Response(http) \in {next} \cup
          {Rejected(http, e) : e \in {"UNAVAILABLE", "LIMIT", "PROTOCOL", "TRANSPORT"}}
    BY <2>5 DEF Response, StatusError
  <2> QED
    BY <2>1, <2>6, <2>7, <2>8
<1> QED
  BY <1>3, <1>4

\* The body has been read (Read).
LEMMA HttpReadKeeps == ASSUME HttpOK(http), Read PROVE HttpKeeps(http')
<1>1. http.at = "body" /\ Ready
  BY DEF Read
<1>2. http.outcome = "none" /\ http.try < Attempts /\ (Sending => http.try = 0)
      /\ http.sent > 0 /\ exchange \in Http
      /\ http.settled \in {"none", "answer", "refusal", "failure", "garbage", "limit", "broken"}
      /\ (http.settled = "answer" /\ Sending => served = "accepted")
      /\ (http.settled = "refusal" => Sending /\ served = "refused")
  BY <1>1 DEF HttpOK, HttpSent
<1>3. CASE http.stopped # "none"
  <2>1. http' = Rejected(http, http.stopped) /\ http.stopped # "REFUSED"
    BY <1>3, HttpType DEF Read, WebStops
  <2> QED
    BY <1>1, <2>1, HttpFails
<1>4. CASE http.stopped = "none"
  <2> DEFINE errors == {"UNAVAILABLE", "LIMIT", "PROTOCOL", "TRANSPORT", "RPC", "TIMEOUT"}
             good == HttpOver(http, IF Sending THEN "acknowledged" ELSE "value")
  <2>1. http' = Parsed(http) /\ http.settled # "none"
    BY <1>1, <1>4 DEF Read, Ready
  <2>2. ASSUME NEW e \in errors PROVE HttpKeeps(Rejected(http, e))
    BY <1>1, HttpFails
  <2>3. http.settled = "refusal" => HttpKeeps(Rejected(http, "REFUSED"))
    BY <1>1, <1>2, HttpFails
  <2>4. http.settled = "answer" => HttpKeeps(good)
    <3> DEFINE o == IF Sending THEN "acknowledged" ELSE "value"
    <3>1. http.settled = "answer" => o \in Outcome /\ Truthful(o, http.sent)
      BY <1>2, HttpType DEF Outcome, Truthful, Writing, Sending, Http
    <3> HIDE DEF o
    <3> QED
      BY <1>2, <3>1, HttpType, HttpEnds DEF HttpKeeps, o
  <2>5. \/ Parsed(http) \in {Rejected(http, e) : e \in errors}
        \/ http.settled = "refusal" /\ Parsed(http) = Rejected(http, "REFUSED")
        \/ http.settled = "answer" /\ Parsed(http) = good
    <3> HIDE DEF good
    <3>1. CASE http.settled \in {"broken", "limit"}
      BY <3>1 DEF Parsed
    <3>2. CASE http.settled = "garbage"
      BY <3>2 DEF Parsed, StatusError
    <3>3. CASE http.settled \in {"refusal", "failure"}
      BY <3>3 DEF Parsed
    <3>4. CASE http.settled = "answer"
      BY <3>4 DEF Parsed, StatusError, good
    <3> QED
      BY <1>2, <2>1, <3>1, <3>2, <3>3, <3>4
  <2> HIDE DEF good
  <2> QED
    BY <2>1, <2>2, <2>3, <2>4, <2>5
<1> QED
  BY <1>3, <1>4

\* The header callback is back.
LEMMA HttpHeadersKeep == ASSUME HttpOK(http), Headers PROVE HttpOK(http') /\ Takes(http, http', MostSent)
<1>1. http.at = "headers" /\ Ready /\ http \in HttpSet
  BY HttpType DEF Headers
<1>2. http.outcome = "none" /\ http.try < Attempts /\ (Sending => http.try = 0)
      /\ http.sent <= http.try /\ exchange \in Http
      /\ "listener" \in http.held /\ (cut => http.stopped # "none")
  BY <1>1 DEF HttpOK, HttpSent
<1>3. http.sent \in Nat /\ http.try \in Nat /\ Attempts \in Nat
  BY HttpType
<1> DEFINE next == [http EXCEPT !.at = "fetch", !.sent = http.sent + 1, !.settled = "none"]
<1>4. ASSUME http.stopped = "none" PROVE HttpOK(next) /\ Takes(http, next, MostSent)
  <2>0. http.sent + 1 \in Nat
    BY <1>3
  <2>1. next \in HttpSet
    BY <1>1, <2>0 DEF HttpSet, HttpPlace, HttpSettled
  <2>2. next.at = "fetch" /\ next.sent = http.sent + 1 /\ next.held = http.held
        /\ next.try = http.try /\ next.outcome = "none" /\ next.stopped = http.stopped
    BY <1>1, <1>2 DEF HttpSet
  <2> HIDE DEF next
  <2>3. HttpSent(next)
    BY <1>2, <1>3, <2>2 DEF HttpSent
  <2>4. HttpOK(next)
    BY <1>2, <1>4, <2>1, <2>2, <2>3 DEF HttpOK
  <2>5. http.sent < MostSent
    BY <1>2, <1>3 DEF MostSent, Writing, Sending, Http
  <2> QED
    BY <1>1, <1>2, <1>4, <2>2, <2>4, <2>5 DEF Takes
<1>5. ASSUME NEW e \in {"TIMEOUT", "ABORTED", "INVALID"} PROVE HttpKeeps(Rejected(http, e))
  BY <1>1, HttpFails
<1> HIDE DEF next
<1>6. CASE http.stopped # "none"
  <2>1. http' = Rejected(http, http.stopped) /\ http.stopped \in {"TIMEOUT", "ABORTED"}
    BY <1>6, HttpType DEF Headers, WebStops
  <2> QED
    BY <1>1, <1>5, <2>1, KeepsTakes
<1>7. CASE http.stopped = "none"
  <2>1. http' \in {Rejected(http, "INVALID"), Rejected(http, "TIMEOUT"), next}
    BY <1>7 DEF Headers, next
  <2> QED
    BY <1>1, <1>4, <1>5, <1>7, <2>1, KeepsTakes
<1> QED
  BY <1>6, <1>7

\* The answers of the application and of the server, and the clock.
LEMMA HttpAnswered ==
    ASSUME HttpOK(http), Supplied \/ Responded \/ Answered \/ Elapse \/ Timer
    PROVE  HttpKeeps(http')
<1>1. http.at \in {"headers", "fetch", "body"} /\ http \in HttpSet
  BY HttpType DEF Supplied, Responded, Answered, Elapse, Timer, Attempting
<1>2. http.outcome = "none" /\ HttpSent(http) /\ exchange \in Http
      /\ "listener" \in http.held /\ (cut => http.stopped # "none")
  BY <1>1 DEF HttpOK
<1> DEFINE go(settled, status, stopped, late, held) ==
             [http EXCEPT !.settled = settled, !.status = status, !.stopped = stopped, !.late = late,
                          !.held = held]
           may(settled, status, stopped, late, held) ==
             /\ settled \in HttpSettled /\ status \in {"none", "ok", "busy", "other"}
             /\ stopped \in WebStops /\ late \in BOOLEAN /\ held \in SUBSET HttpHeld
             /\ "listener" \in held /\ (cut => stopped # "none")
             /\ http.at = "body" =>
                   /\ settled \in {"none", "answer", "refusal", "failure", "garbage", "limit", "broken"}
                   /\ settled = "answer" /\ Sending => served = "accepted"
                   /\ settled = "refusal" => Sending /\ served = "refused"
<1>3. ASSUME NEW settled, NEW status, NEW stopped, NEW late, NEW held,
             may(settled, status, stopped, late, held)
      PROVE  HttpKeeps(go(settled, status, stopped, late, held))
  <2> DEFINE next == go(settled, status, stopped, late, held)
  <2>1. next \in HttpSet
    BY <1>1, <1>3 DEF HttpSet
  <2>2. /\ next.at = http.at
        /\ next.sent = http.sent
        /\ next.try = http.try
        /\ next.outcome = "none"
        /\ next.settled = settled /\ next.stopped = stopped /\ next.held = held
    BY <1>1, <1>2 DEF HttpSet
  <2> HIDE DEF next
  <2>3. HttpSent(next)
    BY <1>2, <2>2 DEF HttpSent
  <2>4. HttpOK(next)
    BY <1>1, <1>2, <1>3, <2>1, <2>2, <2>3 DEF HttpOK
  <2> QED
    BY <1>1, <2>2, <2>4 DEF HttpKeeps, next
<1>4. may(http.settled, http.status, http.stopped, http.late, http.held)
  BY <1>1, <1>2, HttpType DEF HttpOK
<1>5. CASE Supplied
  <2>1. PICK s \in {"good", "bad"} : http' = [http EXCEPT !.settled = s]
    BY <1>5 DEF Supplied
  <2>2. http' = go(s, http.status, http.stopped, http.late, http.held)
    BY <1>1, <2>1 DEF HttpSet
  <2>3. http.at = "headers" /\ s \in HttpSettled
    BY <1>5 DEF Supplied, HttpSettled
  <2>4. may(s, http.status, http.stopped, http.late, http.held)
    BY <1>4, <2>3
  <2> HIDE DEF go, may
  <2> QED
    BY <1>3, <2>2, <2>4
<1>6. CASE Responded
  <2>1. PICK status \in {"ok", "busy", "other"}, s \in {"network", "limit", "empty", "body"} :
          http' = [http EXCEPT !.settled = s, !.status = status,
                               !.held = @ \cup (IF s \in {"limit", "body"} THEN {"body"} ELSE {})]
    BY <1>6 DEF Responded
  <2> DEFINE held == http.held \cup (IF s \in {"limit", "body"} THEN {"body"} ELSE {})
  <2>2. held \in SUBSET HttpHeld /\ "listener" \in held
    BY <1>2, HttpType DEF HttpHeld
  <2>3. http' = [http EXCEPT !.settled = s, !.status = status, !.held = held]
    BY <2>1
  <2> HIDE DEF held
  <2>4. http' = go(s, status, http.stopped, http.late, held)
    BY <1>1, <2>3 DEF HttpSet
  <2>5. http.at = "fetch" /\ s \in HttpSettled
    BY <1>6 DEF Responded, HttpSettled
  <2>6. may(s, status, http.stopped, http.late, held)
    BY <1>4, <2>2, <2>5
  <2> HIDE DEF go, may
  <2> QED
    BY <1>3, <2>4, <2>6
<1>7. CASE Answered
  <2>1. PICK s \in {"answer", "refusal", "failure", "garbage", "limit", "broken"} :
          /\ s = "answer" /\ Sending => served = "accepted"
          /\ s = "refusal" => Sending /\ served = "refused"
          /\ http' = [http EXCEPT !.settled = s]
    BY <1>7 DEF Answered
  <2>2. http' = go(s, http.status, http.stopped, http.late, http.held)
    BY <1>1, <2>1 DEF HttpSet
  <2>3. s \in HttpSettled
    BY DEF HttpSettled
  <2>4. may(s, http.status, http.stopped, http.late, http.held)
    BY <1>4, <2>1, <2>3
  <2> HIDE DEF go, may
  <2> QED
    BY <1>3, <2>2, <2>4
<1>8. CASE Elapse
  <2>1. http' = go(http.settled, http.status, http.stopped, TRUE, http.held)
    BY <1>1, <1>8 DEF HttpSet, Elapse
  <2>2. may(http.settled, http.status, http.stopped, TRUE, http.held)
    BY <1>4
  <2> HIDE DEF go, may
  <2> QED
    BY <1>3, <2>1, <2>2
<1>9. CASE Timer
  <2>1. http' = go(http.settled, http.status, "TIMEOUT", http.late, http.held)
    BY <1>1, <1>9 DEF HttpSet, Timer, Stop
  <2>2. may(http.settled, http.status, "TIMEOUT", http.late, http.held)
    BY <1>4 DEF WebStops
  <2> HIDE DEF go, may
  <2> QED
    BY <1>3, <2>1, <2>2
<1> QED
  BY <1>5, <1>6, <1>7, <1>8, <1>9

\* A step that leaves the caller alone keeps what it keeps of the call.
LEMMA HttpCalm ==
    ASSUME HttpOK(http'), UNCHANGED caller
    PROVE  HttpOK(http)'
BY DEF HttpOK, HttpSet, HttpSent, Truthful, Writing, Sending, caller, HttpHeld, WebStops,
       HttpPlace, HttpSettled, Outcome, Http

\* An attempt begins (Begin).
LEMMA HttpStarts ==
    ASSUME HttpOK(http), exchange \in Http, http.at \in {"idle", "delay"}, http' = Begin(http)
    PROVE  HttpOK(http') /\ Takes(http, http', MostSent)
<1>1. HttpKeeps(http') /\ http.at # "over"
  BY HttpBegins DEF HttpKeeps
<1> QED
  BY <1>1, KeepsTakes

\* A response that comes too late is cancelled, and an attempt that is over keeps nothing of it.
LEMMA HttpLate == ASSUME HttpOK(http), RespondedLate PROVE HttpOK(http') /\ Takes(http, http', MostSent)
<1> DEFINE orphans == http.orphans - 1
<1>1. http \in HttpSet /\ orphans \in Nat
  BY HttpType DEF RespondedLate
<1>2. http' = [http EXCEPT !.orphans = orphans]
  BY <1>1 DEF RespondedLate, LateBody, HttpSet
<1> HIDE DEF orphans
<1>3. http' \in HttpSet
  BY <1>1, <1>2 DEF HttpSet
<1>4. /\ http'.at = http.at /\ http'.sent = http.sent /\ http'.held = http.held
      /\ http'.outcome = http.outcome /\ http'.try = http.try /\ http'.stopped = http.stopped
      /\ http'.settled = http.settled
  BY <1>1, <1>2 DEF HttpSet
<1>5. HttpOK(http')
  BY <1>3, <1>4 DEF HttpOK, HttpSent
<1> QED
  BY <1>4, <1>5 DEF Takes

\* The caller aborts: no attempt goes on that does not know.
LEMMA HttpAborts == ASSUME HttpOK(http), HttpAbort PROVE HttpOK(http)' /\ Takes(http, http', MostSent)
<1>1. http \in HttpSet /\ http.at # "over" /\ exchange \in Http /\ cut' = TRUE
      /\ exchange' = exchange /\ served' = served
  BY HttpType DEF HttpAbort, Http
<1>2. CASE "listener" \notin http.held
  <2>1. http' = http
    BY <1>2 DEF HttpAbort
  <2>2. http.at = "idle"
    BY <1>1, <1>2 DEF HttpOK, HttpSet, HttpPlace
  <2>3. HttpOK(http)'
    BY <1>1, <2>1, <2>2 DEF HttpOK, HttpSent, Sending
  <2> QED
    BY <1>1, <2>1, <2>3 DEF Takes
<1>3. CASE "listener" \in http.held /\ http.at = "delay"
  <2>1. http' = HttpOver(http, "error")
    BY <1>3 DEF HttpAbort
  <2>2. ~Sending /\ http.try < Attempts
    BY <1>3 DEF HttpOK, HttpSent
  <2>3. Truthful("error", http.sent) /\ "error" \in Outcome
    BY <1>1, <2>2 DEF Truthful, Writing, Outcome, Sending, Http
  <2>4. HttpOK(http') /\ http'.sent = http.sent /\ http'.at = "over"
    BY <1>1, <2>1, <2>2, <2>3, HttpEnds
  <2>5. HttpOK(http)'
    BY <1>1, <2>4 DEF HttpOK, HttpSent, Sending, Truthful, Writing
  <2> QED
    BY <1>1, <2>4, <2>5 DEF Takes
<1>4. CASE "listener" \in http.held /\ http.at # "delay"
  <2> DEFINE stopped == IF http.stopped = "none" THEN "ABORTED" ELSE http.stopped
  <2>1. http' = Stop(http, "ABORTED")
    BY <1>4 DEF HttpAbort
  <2>2. http' = [http EXCEPT !.stopped = stopped]
    BY <1>1, <2>1 DEF Stop, HttpSet
  <2>3. stopped \in WebStops /\ stopped # "none"
    BY HttpType DEF WebStops
  <2> HIDE DEF stopped
  <2>4. http' \in HttpSet
    BY <1>1, <2>2, <2>3 DEF HttpSet
  <2>5. /\ http'.at = http.at /\ http'.sent = http.sent /\ http'.held = http.held
        /\ http'.outcome = http.outcome /\ http'.try = http.try /\ http'.stopped = stopped
        /\ http'.settled = http.settled
    BY <1>1, <2>2 DEF HttpSet
  <2>6. HttpOK(http)'
    BY <1>1, <1>4, <2>3, <2>4, <2>5 DEF HttpOK, HttpSent, Sending, Truthful, Writing
  <2> QED
    BY <1>1, <2>5, <2>6 DEF Takes
<1> QED
  BY <1>2, <1>3, <1>4

\* The server gets the transaction (HttpServe).
LEMMA HttpServed == ASSUME HttpOK(http), HttpServe PROVE HttpOK(http)' /\ Takes(http, http', MostSent)
<1>1. http' = http /\ served = "none" /\ exchange' = exchange /\ cut' = cut /\ Sending
  BY DEF HttpServe, Serve
<1>2. http.at = "body" => http.settled # "answer" /\ http.settled # "refusal"
  BY <1>1 DEF HttpOK
<1>3. http.at = "over" => Truthful(http.outcome, http.sent)'
  BY <1>1 DEF HttpOK, Truthful, Writing, Sending
<1>4. HttpOK(http)'
  BY <1>1, <1>2, <1>3 DEF HttpOK, HttpSent, Sending
<1> QED
  BY <1>1, <1>4 DEF Takes

\* No step of a call of JSON-RPC leaves what is known of it, and each is one that an
\* exchange may take (HttpNext).
LEMMA HttpStepOK ==
    ASSUME HttpOK(http), HttpNext
    PROVE  HttpOK(http)' /\ Takes(http, http', MostSent)
<1>1. CASE Refused
  <2>1. http \in HttpSet /\ exchange \in Http /\ http.at = "idle" /\ http' = HttpOver(http, "error")
        /\ UNCHANGED caller
    BY <1>1, HttpType DEF Refused, Http
  <2>2. http.sent = 0 /\ http.try < Attempts /\ (Sending => http.try = 0)
    BY <2>1 DEF HttpOK, HttpSent
  <2>3. Truthful("error", http.sent) /\ "error" \in Outcome
    BY <2>2 DEF Truthful, Outcome
  <2>4. HttpKeeps(http')
    BY <2>1, <2>2, <2>3, HttpEnds DEF HttpKeeps
  <2> QED
    BY <2>1, <2>4, KeepsTakes, HttpCalm
<1>2. CASE Request \/ DelayEnds
  <2>1. exchange \in Http /\ http.at \in {"idle", "delay"} /\ http' = Begin(http) /\ UNCHANGED caller
    BY <1>2 DEF Request, DelayEnds, HttpOK, Http
  <2> QED
    BY <2>1, HttpStarts, HttpCalm
<1>3. CASE Fetched \/ Read
  <2>1. UNCHANGED caller /\ http.at # "over"
    BY <1>3 DEF Fetched, Read
  <2>2. HttpKeeps(http')
    BY <1>3, HttpFetchedKeeps, HttpReadKeeps
  <2> QED
    BY <2>1, <2>2, KeepsTakes, HttpCalm
<1>4. CASE Headers
  <2>1. UNCHANGED caller
    BY <1>4 DEF Headers
  <2> QED
    BY <1>4, <2>1, HttpHeadersKeep, HttpCalm
<1>5. CASE Supplied \/ Responded \/ Answered \/ Elapse \/ Timer
  <2>1. UNCHANGED caller /\ http.at # "over"
    BY <1>5 DEF Supplied, Responded, Answered, Elapse, Timer, Attempting
  <2>2. HttpKeeps(http')
    BY <1>5, HttpAnswered
  <2> QED
    BY <2>1, <2>2, KeepsTakes, HttpCalm
<1>6. CASE RespondedLate
  <2>1. UNCHANGED caller
    BY <1>6 DEF RespondedLate
  <2> QED
    BY <1>6, <2>1, HttpLate, HttpCalm
<1>7. CASE HttpAbort
  BY <1>7, HttpAborts
<1>8. CASE HttpServe
  BY <1>8, HttpServed
<1> QED
  BY <1>1, <1>2, <1>3, <1>4, <1>5, <1>6, <1>7, <1>8 DEF HttpNext, HttpStep

\* A call that has not begun (HttpInit).
LEMMA HttpInitOK == ASSUME HttpInit, CallerInit PROVE HttpOK(http)
<1> DEFINE first == [at |-> "idle", try |-> 0, sent |-> 0, settled |-> "none", status |-> "none",
                     stopped |-> "none", late |-> FALSE, orphans |-> 0, held |-> {},
                     outcome |-> "none"]
<1>1. http = first
  BY DEF HttpInit
<1>2. first \in HttpSet
  BY DEF HttpSet, HttpPlace, HttpSettled, WebStops, Outcome, HttpHeld
<1>3. first.at = "idle" /\ first.try = 0 /\ first.sent = 0 /\ first.held = {} /\ first.outcome = "none"
  OBVIOUS
<1> HIDE DEF first
<1>4. HttpOK(first)
  BY <1>2, <1>3, AttemptsAssumption DEF HttpOK, HttpSent
<1> QED
  BY <1>1, <1>4

-----------------------------------------------------------------------------
(* The gRPC transport (GrpcNode) *)

\* Where a call may be, what it may have got and what it may hold.
RpcPlace == {"idle", "load", "headers", "channel", "reply", "status", "item", "delay", "over"}
RpcSettled ==
    {"none", "good", "bad", "value", "limit", "acknowledged", "rejected", "item", "end", "OK",
     "UNAVAILABLE", "TIMEOUT", "TRANSPORT"}
RpcHeld == {"timer", "listener", "channel", "call"}
RpcSet ==
    [at : RpcPlace, try : Nat, sent : Nat, settled : RpcSettled, stopped : WebStops,
     late : BOOLEAN, held : SUBSET RpcHeld, returned : BOOLEAN, items : Nat, outcome : Outcome]

\* An attempt sends at most once, and only a unary read is tried again.
RpcSent(r) ==
    /\ r.at = "idle" => r.sent = 0
    /\ r.try < Attempts
    /\ exchange # "rpc.read" => r.try = 0
    /\ r.at \in {"idle", "load", "headers", "channel", "delay"} => r.sent <= r.try
    /\ r.at \in {"reply", "status", "item"} => r.sent <= r.try + 1 /\ r.sent > 0

\* A stop closes the channel, and an operation listens to the caller until it is stopped.
RpcOK(r) ==
    /\ r \in RpcSet
    /\ RpcSent(r)
    /\ r.at # "idle" => exchange \in Rpc
    /\ r.at = "idle" => r.held = {}
    /\ r.at # "over" => r.outcome = "none"
    /\ r.stopped # "none" /\ r.at # "delay" => r.held = {}
    /\ r.at = "delay" => "channel" \notin r.held
    /\ r.at \in {"headers", "channel", "reply", "status", "item"} =>
          /\ cut => r.stopped # "none"
          /\ r.stopped = "none" => "listener" \in r.held
    /\ r.at = "reply" => r.settled \in {"none", "UNAVAILABLE", "TIMEOUT", "TRANSPORT"} \cup Answers
    /\ r.at \in {"status", "item"} => Streaming
    /\ r.at = "over" => r.held = {} /\ Truthful(r.outcome, r.sent)

\* The types of a call.
LEMMA RpcType ==
    ASSUME NEW r, RpcOK(r)
    PROVE  /\ r \in RpcSet /\ r.at \in RpcPlace /\ r.try \in Nat /\ r.sent \in Nat
           /\ r.settled \in RpcSettled /\ r.stopped \in WebStops /\ r.late \in BOOLEAN
           /\ r.held \in SUBSET RpcHeld /\ r.returned \in BOOLEAN /\ r.items \in Nat
           /\ r.outcome \in Outcome /\ Attempts \in Nat \ {0}
  BY AttemptsAssumption DEF RpcOK, RpcSet

\* What may be told by the adapter: an error of a transaction is told as unknown.
RpcTold(o, sent) == (o = "error") \/ (o \in Outcome /\ Truthful(o, sent))

\* A call ends with what may be told of it (RpcOver).
LEMMA RpcEnds ==
    ASSUME NEW r \in RpcSet, r.try < Attempts, exchange # "rpc.read" => r.try = 0,
           exchange \in Rpc, NEW o, RpcTold(o, r.sent)
    PROVE  RpcOK(RpcOver(r, o)) /\ RpcOver(r, o).sent = r.sent /\ RpcOver(r, o).at = "over"
<1> DEFINE told == IF exchange = "rpc.send" /\ o = "error" THEN "unknown" ELSE o
           over == RpcOver(r, o)
<1>1. told \in Outcome /\ Truthful(told, r.sent)
  BY DEF RpcTold, Outcome, Truthful, Writing, Rpc
<1>2. over = [r EXCEPT !.at = "over", !.held = {}, !.outcome = told]
  BY DEF RpcOver
<1> HIDE DEF told
<1>3. over \in RpcSet
  BY <1>1, <1>2 DEF RpcSet, RpcPlace
<1>4. /\ over.at = "over" /\ over.held = {} /\ over.outcome = told /\ over.sent = r.sent
      /\ over.try = r.try
  BY <1>2 DEF RpcSet
<1> HIDE DEF over
<1>5. RpcSent(over)
  BY <1>4 DEF RpcSent
<1> QED
  BY <1>1, <1>3, <1>4, <1>5 DEF RpcOK, over

\* The operation goes on, and has sent what it had sent.
RpcKeeps(g) == RpcOK(g) /\ g.sent = rpc.sent /\ g.at # "idle"

\* A call that sends nothing takes what it may.
LEMMA RpcKeepsTakes ==
    ASSUME NEW g, RpcKeeps(g), rpc.at # "over"
    PROVE  RpcOK(g) /\ Takes(rpc, g, MostSent)
  BY DEF RpcKeeps, Takes

\* A call may end in an error at any place (RpcOver).
LEMMA RpcFailed ==
    ASSUME RpcOK(rpc), exchange \in Rpc
    PROVE  RpcKeeps(RpcOver(rpc, "error"))
<1>1. rpc.try < Attempts /\ (exchange # "rpc.read" => rpc.try = 0)
  BY DEF RpcOK, RpcSent
<1>2. RpcTold("error", rpc.sent)
  BY DEF RpcTold
<1> QED
  BY <1>1, <1>2, RpcType, RpcEnds DEF RpcKeeps

\* A failed operation is tried again or ends the call (Again).
LEMMA RpcAgain ==
    ASSUME RpcOK(rpc), rpc.at \notin {"idle", "over"}, NEW e
    PROVE  RpcKeeps(Again(rpc, e))
<1>1. /\ rpc.outcome = "none" /\ exchange \in Rpc /\ rpc.try < Attempts
      /\ (exchange # "rpc.read" => rpc.try = 0)
      /\ rpc \in RpcSet /\ rpc.try \in Nat /\ rpc.sent \in Nat /\ Attempts \in Nat
  BY RpcType DEF RpcOK, RpcSent
<1>2. rpc.sent <= rpc.try + 1
  BY <1>1 DEF RpcOK, RpcSent, RpcSet, RpcPlace
<1>3. CASE ~(exchange = "rpc.read" /\ MayRetry(e, rpc.try) /\ ~Withdrawn)
  <2>1. Again(rpc, e) = RpcOver(rpc, "error")
    BY <1>3 DEF Again
  <2> QED
    BY <1>1, <2>1, RpcFailed
<1>4. CASE exchange = "rpc.read" /\ MayRetry(e, rpc.try) /\ ~Withdrawn
  <2> DEFINE try == rpc.try + 1
             next == [rpc EXCEPT !.at = "delay", !.try = try, !.held = {"timer"}]
  <2>1. Again(rpc, e) = next
    BY <1>1, <1>4 DEF Again, RpcSet
  <2>2. try < Attempts /\ try \in Nat /\ rpc.sent <= try
    BY <1>1, <1>2, <1>4 DEF MayRetry
  <2> HIDE DEF try
  <2>3. {"timer"} \in SUBSET RpcHeld
    BY DEF RpcHeld
  <2>4. next \in RpcSet
    BY <1>1, <2>2, <2>3 DEF RpcSet, RpcPlace
  <2>5. /\ next.at = "delay" /\ next.try = try /\ next.sent = rpc.sent /\ next.held = {"timer"}
        /\ next.outcome = "none"
    BY <1>1 DEF RpcSet
  <2> HIDE DEF next
  <2>6. RpcSent(next)
    BY <1>4, <2>2, <2>5 DEF RpcSent
  <2>7. RpcOK(next)
    BY <1>1, <2>4, <2>5, <2>6 DEF RpcOK
  <2> QED
    BY <2>1, <2>5, <2>7 DEF RpcKeeps
<1> QED
  BY <1>3, <1>4

\* An await is over: in time, late or stopped (Bounded).
LEMMA RpcBounded ==
    ASSUME RpcOK(rpc), rpc.at \notin {"idle", "over"}, NEW g,
           rpc.stopped = "none" /\ ~rpc.late => RpcKeeps(g)
    PROVE  RpcKeeps(Bounded(rpc, g))
<1>1. CASE rpc.stopped # "none"
  <2>1. Bounded(rpc, g) = Again(rpc, rpc.stopped)
    BY <1>1 DEF Bounded
  <2> QED
    BY <2>1, RpcAgain
<1>2. CASE rpc.stopped = "none" /\ rpc.late
  <2>1. Bounded(rpc, g) = Again(rpc, "TIMEOUT")
    BY <1>2 DEF Bounded
  <2> QED
    BY <2>1, RpcAgain
<1>3. CASE rpc.stopped = "none" /\ ~rpc.late
  <2>1. Bounded(rpc, g) = g
    BY <1>3 DEF Bounded
  <2> QED
    BY <1>3, <2>1
<1> QED
  BY <1>1, <1>2, <1>3

\* An operation begins, for a caller that has not given up (Operation).
LEMMA RpcOperates ==
    ASSUME RpcOK(rpc), rpc.at \in {"load", "delay"}
    PROVE  RpcKeeps(Operation(rpc))
<1>1. /\ rpc.outcome = "none" /\ exchange \in Rpc /\ rpc.try < Attempts
      /\ (exchange # "rpc.read" => rpc.try = 0) /\ rpc.sent <= rpc.try
  BY DEF RpcOK, RpcSent
<1>2. CASE Withdrawn
  <2>1. Operation(rpc) = RpcOver(rpc, "error")
    BY <1>2 DEF Operation
  <2> QED
    BY <1>1, <2>1, RpcFailed
<1>3. CASE ~Withdrawn
  <2> DEFINE next == [rpc EXCEPT !.at = "headers", !.settled = "none", !.stopped = "none",
                                 !.late = FALSE, !.held = {"timer", "listener"}]
  <2>1. Operation(rpc) = next
    BY <1>3 DEF Operation
  <2>2. {"timer", "listener"} \in SUBSET RpcHeld
    BY DEF RpcHeld
  <2>3. next \in RpcSet
    BY <2>2, RpcType DEF RpcSet, RpcPlace, RpcSettled, WebStops
  <2>4. /\ next.at = "headers" /\ next.held = {"timer", "listener"} /\ next.try = rpc.try
        /\ next.sent = rpc.sent /\ next.outcome = "none" /\ next.stopped = "none"
    BY <1>1, RpcType DEF RpcSet
  <2> HIDE DEF next
  <2>5. RpcSent(next)
    BY <1>1, <2>4 DEF RpcSent
  <2>6. ~cut
    BY <1>3 DEF Withdrawn
  <2>7. RpcOK(next)
    BY <1>1, <2>3, <2>4, <2>5, <2>6 DEF RpcOK
  <2> QED
    BY <2>1, <2>4, <2>7 DEF RpcKeeps
<1> QED
  BY <1>2, <1>3

\* A step of the operation between two of its places, and what may be held at each.
RpcGoes(at, settled, held) ==
    /\ at \in RpcPlace \ {"idle", "over", "delay"} /\ settled \in RpcSettled
    /\ held \in SUBSET RpcHeld
    /\ rpc.at \notin {"idle", "over", "delay"}
    /\ rpc.at \in {"load", "headers", "channel"} <=> at \in {"load", "headers", "channel"}
    /\ rpc.at = "load" <=> at = "load"
    /\ rpc.stopped # "none" => held = {}
    /\ "listener" \in rpc.held => "listener" \in held
    /\ at = "reply" => settled \in {"none", "UNAVAILABLE", "TIMEOUT", "TRANSPORT"} \cup Answers
    /\ at \in {"status", "item"} => Streaming

\* An operation goes on (RpcGoes).
LEMMA RpcMoves ==
    ASSUME RpcOK(rpc), NEW at, NEW settled, NEW held, NEW items \in Nat, NEW late \in BOOLEAN,
           RpcGoes(at, settled, held)
    PROVE  RpcKeeps([rpc EXCEPT !.at = at, !.settled = settled, !.held = held, !.items = items,
                                !.late = late])
<1> DEFINE next == [rpc EXCEPT !.at = at, !.settled = settled, !.held = held, !.items = items,
                               !.late = late]
<1>1. rpc \in RpcSet /\ rpc.outcome = "none" /\ exchange \in Rpc /\ rpc.at \in RpcPlace
  BY RpcType DEF RpcOK, RpcGoes
<1>2. next \in RpcSet
  BY <1>1 DEF RpcSet, RpcGoes
<1>3. /\ next.at = at /\ next.settled = settled /\ next.held = held /\ next.sent = rpc.sent
      /\ next.try = rpc.try /\ next.stopped = rpc.stopped /\ next.outcome = "none"
  BY <1>1 DEF RpcSet
<1> HIDE DEF next
<1>4. RpcSent(rpc) /\ rpc.sent \in Nat /\ rpc.try \in Nat
  BY <1>1, RpcType DEF RpcOK
<1>5. RpcSent(next)
  BY <1>1, <1>3, <1>4 DEF RpcSent, RpcGoes, RpcPlace
<1>6. at \in {"headers", "channel", "reply", "status", "item"} =>
          /\ cut => rpc.stopped # "none"
          /\ rpc.stopped = "none" => "listener" \in held
  BY <1>1 DEF RpcOK, RpcGoes, RpcPlace
<1>7. RpcOK(next)
  BY <1>1, <1>2, <1>3, <1>5, <1>6 DEF RpcOK, RpcGoes
<1> QED
  BY <1>3, <1>7 DEF RpcKeeps, RpcGoes, next

\* A step that leaves the caller alone keeps what it keeps of the call.
LEMMA RpcCalm ==
    ASSUME RpcOK(rpc'), UNCHANGED caller
    PROVE  RpcOK(rpc)'
BY DEF RpcOK, RpcSet, RpcSent, Truthful, Writing, caller, RpcHeld, WebStops,
       RpcPlace, RpcSettled, Outcome, Rpc, Answers, Streaming

\* The types of a call, and what the steps below need of it.
LEMMA RpcFacts ==
    ASSUME RpcOK(rpc)
    PROVE  /\ rpc \in RpcSet
           /\ rpc = [rpc EXCEPT !.at = rpc.at, !.settled = rpc.settled, !.held = rpc.held,
                                !.items = rpc.items, !.late = rpc.late]
           /\ rpc.at # "idle" => exchange \in Rpc
           /\ rpc.items \in Nat /\ rpc.late \in BOOLEAN /\ rpc.settled \in RpcSettled
           /\ rpc.held \in SUBSET RpcHeld
           /\ rpc.stopped # "none" /\ rpc.at # "delay" => rpc.held = {}
           /\ rpc.at = "reply" =>
                 rpc.settled \in {"none", "UNAVAILABLE", "TIMEOUT", "TRANSPORT"} \cup Answers
           /\ rpc.at \in {"status", "item"} => Streaming
<1>1. rpc \in RpcSet
  BY DEF RpcOK
<1> QED
  BY <1>1, RpcType DEF RpcOK, RpcSet

\* A call is refused or opened (RpcRefused, Open).
LEMMA RpcStarts == ASSUME RpcOK(rpc), RpcRefused \/ Open PROVE RpcKeeps(rpc')
<1>1. exchange \in Rpc /\ rpc.at = "idle"
  BY DEF RpcRefused, Open, Rpc
<1>2. CASE rpc' = RpcOver(rpc, "error")
  BY <1>1, <1>2, RpcFailed
<1>3. CASE rpc' = [rpc EXCEPT !.at = "load"]
  <2>1. rpc' \in RpcSet
    BY <1>3, RpcFacts DEF RpcSet, RpcPlace
  <2>2. /\ rpc'.at = "load" /\ rpc'.held = rpc.held /\ rpc'.sent = rpc.sent /\ rpc'.try = rpc.try
        /\ rpc'.outcome = rpc.outcome /\ rpc'.stopped = rpc.stopped
    BY <1>3, RpcFacts DEF RpcSet
  <2>3. rpc.sent = 0 /\ rpc.try \in Nat
    BY <1>1, RpcType DEF RpcOK, RpcSent
  <2>4. RpcSent(rpc')
    BY <1>1, <2>2, <2>3 DEF RpcOK, RpcSent
  <2>5. RpcOK(rpc')
    BY <1>1, <2>1, <2>2, <2>4 DEF RpcOK
  <2> QED
    BY <2>2, <2>5 DEF RpcKeeps
<1> QED
  BY <1>2, <1>3 DEF RpcRefused, Open

\* The platform is loaded (Platform).
LEMMA RpcPlatform == ASSUME RpcOK(rpc), Platform PROVE RpcKeeps(rpc')
<1>1. rpc.at = "load" /\ exchange \in Rpc
  BY RpcFacts DEF Platform
<1> QED
  BY <1>1, RpcFailed, RpcOperates DEF Platform

\* The headers are there, and a channel is opened (Channel).
LEMMA RpcChannel == ASSUME RpcOK(rpc), Channel PROVE RpcKeeps(rpc')
<1>1. rpc.at = "headers" /\ exchange \in Rpc /\ rpc \in RpcSet
  BY RpcFacts DEF Channel
<1> DEFINE held == rpc.held \cup {"channel"}
           next == [rpc EXCEPT !.at = "channel", !.settled = rpc.settled, !.held = held,
                               !.items = rpc.items, !.late = rpc.late]
<1>2. ASSUME rpc.stopped = "none" PROVE RpcKeeps(next)
  <2>1. held \in SUBSET RpcHeld
    BY RpcFacts DEF RpcHeld
  <2>2. RpcGoes("channel", rpc.settled, held)
    BY <1>1, <1>2, <2>1, RpcFacts DEF RpcGoes, RpcPlace
  <2> HIDE DEF held
  <2> QED
    BY <2>2, RpcFacts, RpcMoves
<1>3. next = [rpc EXCEPT !.at = "channel", !.held = @ \cup {"channel"}]
  BY <1>1 DEF RpcSet
<1> HIDE DEF next
<1> DEFINE then == IF rpc.settled = "bad" THEN RpcOver(rpc, "error") ELSE next
<1>4. rpc.stopped = "none" => RpcKeeps(then)
  BY <1>1, <1>2, RpcFailed
<1>5. rpc' = Bounded(rpc, then)
  BY <1>3 DEF Channel
<1> HIDE DEF then
<1> QED
  BY <1>1, <1>4, <1>5, RpcBounded

\* A call goes out on an open channel, once in an attempt and never for a caller that has aborted.
LEMMA RpcDispatch ==
    ASSUME RpcOK(rpc), Dispatch
    PROVE  RpcOK(rpc') /\ Takes(rpc, rpc', MostSent)
<1>1. rpc.at = "channel" /\ exchange \in Rpc /\ rpc \in RpcSet /\ rpc.outcome = "none"
  BY RpcFacts DEF Dispatch, RpcOK
<1>2. CASE ~OpenChannel
  <2>1. RpcKeeps(rpc')
    BY <1>1, <1>2, RpcAgain DEF Dispatch
  <2> QED
    BY <1>1, <2>1, RpcKeepsTakes
<1>3. CASE OpenChannel
  <2> DEFINE held == rpc.held \cup {"call"}
             sent == rpc.sent + 1
             next == [rpc EXCEPT !.at = "reply", !.sent = sent, !.settled = "none", !.held = held]
  <2>1. rpc' = next
    BY <1>1, <1>3 DEF Dispatch, RpcSet
  <2>2. rpc.stopped = "none" /\ ~cut /\ "listener" \in rpc.held
    BY <1>1, <1>3 DEF RpcOK, OpenChannel
  <2>3. held \in SUBSET RpcHeld /\ "listener" \in held
    BY <2>2, RpcFacts DEF RpcHeld
  <2>4. sent \in Nat /\ sent = rpc.sent + 1 /\ rpc.sent \in Nat /\ rpc.try \in Nat
    BY RpcType
  <2> HIDE DEF held, sent
  <2>5. next \in RpcSet
    BY <1>1, <2>3, <2>4 DEF RpcSet, RpcPlace, RpcSettled
  <2>6. /\ next.at = "reply" /\ next.sent = sent /\ next.held = held /\ next.try = rpc.try
        /\ next.outcome = "none" /\ next.stopped = "none" /\ next.settled = "none"
    BY <1>1, <2>2 DEF RpcSet
  <2> HIDE DEF next
  <2>7. rpc.sent <= rpc.try /\ rpc.try < Attempts /\ (exchange # "rpc.read" => rpc.try = 0)
    BY <1>1 DEF RpcOK, RpcSent
  <2>8. RpcSent(next)
    BY <2>4, <2>6, <2>7 DEF RpcSent
  <2>9. RpcOK(next)
    BY <1>1, <2>2, <2>3, <2>5, <2>6, <2>8 DEF RpcOK
  <2>10. rpc.sent < MostSent
    <3>1. Attempts \in Nat
      BY AttemptsAssumption
    <3> QED
      BY <1>1, <2>4, <2>7, <3>1 DEF MostSent, Writing, Rpc
  <2> QED
    BY <1>1, <2>1, <2>2, <2>4, <2>6, <2>9, <2>10 DEF Takes
<1> QED
  BY <1>2, <1>3

\* The answer to a unary call (Replying).
LEMMA RpcReplying == ASSUME RpcOK(rpc), Replying PROVE RpcKeeps(rpc')
<1>1. rpc.at = "reply" /\ exchange \in Rpc /\ rpc \in RpcSet /\ ~Streaming
  BY RpcFacts DEF Replying
<1>2. /\ rpc.try < Attempts /\ (exchange # "rpc.read" => rpc.try = 0) /\ rpc.sent > 0
      /\ rpc.settled \in {"none", "UNAVAILABLE", "TIMEOUT", "TRANSPORT"} \cup Answers
  BY <1>1 DEF RpcOK, RpcSent
<1> DEFINE o == CASE rpc.settled = "value" -> "value"
                  [] rpc.settled \in {"acknowledged", "rejected"} -> rpc.settled
                  [] OTHER -> "error"
<1>3. CASE IsError(rpc.settled)
  <2>1. rpc' = Again(rpc, rpc.settled)
    BY <1>3 DEF Replying, Failed
  <2> QED
    BY <1>1, <2>1, RpcAgain
<1>4. CASE ~IsError(rpc.settled)
  <2>1. rpc' = Bounded(rpc, RpcOver(rpc, o))
    BY <1>4 DEF Replying
  <2>2. RpcTold(o, rpc.sent)
    <3>1. CASE rpc.settled = "value"
      <4>1. exchange = "rpc.read"
        BY <1>1, <1>2, <3>1 DEF Answers, Streaming
      <4>2. o = "value"
        BY <3>1
      <4> QED
        BY <1>2, <4>1, <4>2 DEF RpcTold, Truthful, Writing, Outcome
    <3>2. CASE rpc.settled \in {"acknowledged", "rejected"}
      <4>1. exchange = "rpc.send"
        BY <1>1, <1>2, <3>2 DEF Answers, Streaming, Rpc
      <4>2. /\ rpc.settled = "acknowledged" => served = "accepted"
            /\ rpc.settled = "rejected" => served = "refused"
        BY <1>1, <1>2, <3>2, <4>1 DEF Answers, Streaming
      <4>3. o = rpc.settled
        BY <3>2
      <4> QED
        BY <3>2, <4>1, <4>2, <4>3 DEF RpcTold, Truthful, Writing, Outcome
    <3>3. CASE rpc.settled \notin {"value", "acknowledged", "rejected"}
      <4>1. o = "error"
        BY <3>3
      <4> QED
        BY <4>1 DEF RpcTold
    <3> QED
      BY <3>1, <3>2, <3>3
  <2> HIDE DEF o
  <2>3. RpcKeeps(RpcOver(rpc, o))
    BY <1>1, <1>2, <2>2, RpcEnds DEF RpcKeeps
  <2> QED
    BY <1>1, <2>1, <2>3, RpcBounded
<1> QED
  BY <1>3, <1>4

\* An item of a stream, or its end (Item).
LEMMA RpcItem == ASSUME RpcOK(rpc), Item PROVE RpcKeeps(rpc')
<1>1. rpc.at = "reply" /\ exchange \in Rpc /\ rpc \in RpcSet /\ Streaming
  BY RpcFacts DEF Item
<1> DEFINE items == rpc.items + 1
           given == [rpc EXCEPT !.at = "item", !.settled = rpc.settled, !.held = rpc.held,
                                !.items = items, !.late = rpc.late]
           ended == [rpc EXCEPT !.at = "status", !.settled = "none", !.held = rpc.held,
                                !.items = rpc.items, !.late = rpc.late]
<1>2. RpcKeeps(given)
  <2>1. items \in Nat
    BY RpcFacts
  <2>2. RpcGoes("item", rpc.settled, rpc.held)
    BY <1>1, RpcFacts DEF RpcGoes, RpcPlace
  <2> HIDE DEF items
  <2> QED
    BY <2>1, <2>2, RpcFacts, RpcMoves
<1>3. RpcKeeps(ended)
  <2>1. RpcGoes("status", "none", rpc.held)
    BY <1>1, RpcFacts DEF RpcGoes, RpcPlace, RpcSettled
  <2> QED
    BY <2>1, RpcFacts, RpcMoves
<1>4. /\ given = [rpc EXCEPT !.at = "item", !.items = @ + 1]
      /\ ended = [rpc EXCEPT !.at = "status", !.settled = "none"]
  BY <1>1 DEF RpcSet
<1> HIDE DEF given, ended
<1>5. CASE IsError(rpc.settled)
  <2>1. rpc' = Again(rpc, rpc.settled)
    BY <1>5 DEF Item, Failed
  <2> QED
    BY <1>1, <2>1, RpcAgain
<1>6. CASE ~IsError(rpc.settled)
  <2> DEFINE then == CASE rpc.settled = "item" -> given
                       [] rpc.settled = "end" -> ended
                       [] OTHER -> RpcOver(rpc, "error")
  <2>1. rpc' = Bounded(rpc, then)
    BY <1>4, <1>6 DEF Item
  <2>2. RpcKeeps(then)
    <3>1. then \in {given, ended, RpcOver(rpc, "error")}
      BY DEF then
    <3> HIDE DEF then
    <3> QED
      BY <1>1, <1>2, <1>3, <3>1, RpcFailed
  <2> HIDE DEF then
  <2> QED
    BY <1>1, <2>1, <2>2, RpcBounded
<1> QED
  BY <1>5, <1>6

\* The status at the end of a stream (Status).
LEMMA RpcStatus == ASSUME RpcOK(rpc), Status PROVE RpcKeeps(rpc')
<1>1. rpc.at = "status" /\ exchange \in Rpc /\ rpc \in RpcSet /\ Streaming
  BY RpcFacts DEF Status
<1>2. rpc.try < Attempts /\ (exchange # "rpc.read" => rpc.try = 0) /\ rpc.sent > 0
  BY <1>1 DEF RpcOK, RpcSent
<1>3. CASE IsError(rpc.settled)
  <2>1. rpc' = Again(rpc, rpc.settled)
    BY <1>3 DEF Status, Failed
  <2> QED
    BY <1>1, <2>1, RpcAgain
<1>4. CASE ~IsError(rpc.settled)
  <2>1. rpc' = Bounded(rpc, RpcOver(rpc, "value"))
    BY <1>4 DEF Status
  <2>2. RpcTold("value", rpc.sent)
    BY <1>1, <1>2 DEF RpcTold, Truthful, Writing, Outcome, Streaming
  <2>3. RpcKeeps(RpcOver(rpc, "value"))
    BY <1>1, <1>2, <2>2, RpcEnds DEF RpcKeeps
  <2> QED
    BY <1>1, <2>1, <2>3, RpcBounded
<1> QED
  BY <1>3, <1>4

\* The consumer pulls again (PullNext).
LEMMA RpcPull == ASSUME RpcOK(rpc), PullNext PROVE RpcKeeps(rpc')
<1>1. rpc.at = "item" /\ rpc \in RpcSet
  BY RpcFacts DEF PullNext
<1> DEFINE next == [rpc EXCEPT !.at = "reply", !.settled = "none", !.held = rpc.held,
                               !.items = rpc.items, !.late = rpc.late]
<1>2. RpcKeeps(next)
  <2>1. RpcGoes("reply", "none", rpc.held)
    BY <1>1, RpcFacts DEF RpcGoes, RpcPlace, RpcSettled
  <2> QED
    BY <2>1, RpcFacts, RpcMoves
<1>3. next = [rpc EXCEPT !.at = "reply", !.settled = "none"]
  BY <1>1 DEF RpcSet
<1> HIDE DEF next
<1> QED
  BY <1>1, <1>2, <1>3, RpcBounded DEF PullNext

\* A stop: what is held is let go, and the operation that is in progress finds out.
LEMMA RpcStops ==
    ASSUME RpcOK(rpc), rpc.at \notin {"idle", "over"}, NEW e \in {"TIMEOUT", "ABORTED"},
           NEW returned \in BOOLEAN
    PROVE  /\ RpcKeeps([RpcStop(rpc, e) EXCEPT !.returned = returned])
           /\ [RpcStop(rpc, e) EXCEPT !.returned = returned].at = rpc.at
           /\ [RpcStop(rpc, e) EXCEPT !.returned = returned].stopped # "none"
<1> DEFINE stopped == IF rpc.stopped # "none" THEN rpc.stopped ELSE e
           held == IF rpc.stopped # "none" THEN rpc.held ELSE {}
           next == [rpc EXCEPT !.stopped = stopped, !.held = held, !.returned = returned]
<1>1. rpc \in RpcSet /\ rpc.outcome = "none" /\ exchange \in Rpc
  BY RpcType DEF RpcOK
<1>2. [RpcStop(rpc, e) EXCEPT !.returned = returned] = next
  BY <1>1 DEF RpcStop, RpcSet
<1>3. /\ stopped \in WebStops /\ stopped # "none" /\ held \in SUBSET RpcHeld
      /\ rpc.at # "delay" => held = {}
      /\ "channel" \in held => "channel" \in rpc.held
  BY RpcFacts, RpcType DEF WebStops
<1> HIDE DEF stopped, held
<1>4. next \in RpcSet
  BY <1>1, <1>3 DEF RpcSet
<1>5. /\ next.at = rpc.at /\ next.held = held /\ next.sent = rpc.sent /\ next.try = rpc.try
      /\ next.outcome = "none" /\ next.stopped = stopped /\ next.settled = rpc.settled
  BY <1>1 DEF RpcSet
<1> HIDE DEF next
<1>6. RpcSent(next)
  BY <1>5 DEF RpcOK, RpcSent
<1>7. RpcOK(next)
  BY <1>1, <1>3, <1>4, <1>5, <1>6 DEF RpcOK
<1> QED
  BY <1>2, <1>3, <1>5, <1>7 DEF RpcKeeps

\* The consumer gives the stream back (Returned).
LEMMA RpcReturned == ASSUME RpcOK(rpc), Returned PROVE RpcKeeps(rpc')
<1> DEFINE r == [RpcStop(rpc, "ABORTED") EXCEPT !.returned = TRUE]
<1>1. rpc.at \notin {"idle", "over"} /\ Streaming /\ exchange \in Rpc
  BY RpcFacts DEF Returned
<1>2. RpcKeeps(r) /\ r.at = rpc.at
  BY <1>1, RpcStops
<1>3. rpc' = IF rpc.at = "item" THEN RpcOver(r, "error") ELSE r
  BY DEF Returned
<1> HIDE DEF r
<1>4. RpcKeeps(RpcOver(r, "error"))
  <2>1. r \in RpcSet /\ r.try < Attempts /\ (exchange # "rpc.read" => r.try = 0)
        /\ r.sent = rpc.sent
    BY <1>2 DEF RpcKeeps, RpcOK, RpcSent
  <2>2. RpcTold("error", r.sent)
    BY DEF RpcTold
  <2> QED
    BY <1>1, <2>1, <2>2, RpcEnds DEF RpcKeeps
<1> QED
  BY <1>2, <1>3, <1>4

\* What the platform, the application, the server and the clock have to say.
LEMMA RpcAnswered ==
    ASSUME RpcOK(rpc), Loaded \/ Replied \/ Finished \/ RpcElapse
    PROVE  RpcKeeps(rpc')
<1> DEFINE go(settled, late) ==
             [rpc EXCEPT !.at = rpc.at, !.settled = settled, !.held = rpc.held,
                         !.items = rpc.items, !.late = late]
<1>1. rpc.at \in RpcPlace \ {"idle", "over", "delay"}
  BY RpcType DEF Loaded, Replied, Finished, RpcElapse, Operating, RpcPlace
<1>2. ASSUME NEW settled \in RpcSettled, NEW late \in BOOLEAN,
             rpc.at = "reply" =>
               settled \in {"none", "UNAVAILABLE", "TIMEOUT", "TRANSPORT"} \cup Answers
      PROVE  RpcKeeps(go(settled, late))
  <2>1. RpcGoes(rpc.at, settled, rpc.held)
    BY <1>1, <1>2, RpcFacts DEF RpcGoes
  <2> QED
    BY <2>1, RpcFacts, RpcMoves
<1>3. Answers \subseteq RpcSettled
  BY DEF Answers, RpcSettled
<1>4. CASE RpcElapse
  <2>1. rpc' = go(rpc.settled, TRUE)
    BY <1>4, RpcFacts DEF RpcElapse, RpcSet
  <2> HIDE DEF go
  <2> QED
    BY <1>2, <2>1, RpcFacts
<1>5. CASE Loaded
  <2>1. PICK s \in {"good", "bad"} : rpc.at # "reply" /\ rpc' = [rpc EXCEPT !.settled = s]
    BY <1>5 DEF Loaded
  <2>2. rpc' = go(s, rpc.late)
    BY <2>1, RpcFacts DEF RpcSet
  <2>3. s \in RpcSettled
    BY DEF RpcSettled
  <2> HIDE DEF go
  <2> QED
    BY <1>2, <2>1, <2>2, <2>3, RpcFacts
<1>6. CASE Replied
  <2>1. PICK s \in Answers \cup {"UNAVAILABLE", "TIMEOUT", "TRANSPORT"} :
          rpc' = [rpc EXCEPT !.settled = s]
    BY <1>6 DEF Replied
  <2>2. rpc' = go(s, rpc.late)
    BY <2>1, RpcFacts DEF RpcSet
  <2>3. s \in RpcSettled
    BY <1>3 DEF RpcSettled
  <2> HIDE DEF go
  <2> QED
    BY <1>2, <2>1, <2>2, <2>3, RpcFacts
<1>7. CASE Finished
  <2>1. PICK s \in {"OK", "UNAVAILABLE", "TRANSPORT"} :
          rpc.at = "status" /\ rpc' = [rpc EXCEPT !.settled = s]
    BY <1>7 DEF Finished
  <2>2. rpc' = go(s, rpc.late)
    BY <2>1, RpcFacts DEF RpcSet
  <2>3. s \in RpcSettled
    BY DEF RpcSettled
  <2> HIDE DEF go
  <2> QED
    BY <1>2, <2>1, <2>2, <2>3, RpcFacts
<1> QED
  BY <1>4, <1>5, <1>6, <1>7

\* The time of the operation is over (RpcTimer).
LEMMA RpcTimed == ASSUME RpcOK(rpc), RpcTimer PROVE RpcKeeps(rpc')
<1>1. rpc.at \notin {"idle", "over"} /\ rpc' = RpcStop(rpc, "TIMEOUT") /\ rpc \in RpcSet
  BY RpcFacts DEF RpcTimer, Operating
<1>2. rpc' = [RpcStop(rpc, "TIMEOUT") EXCEPT !.returned = rpc.returned]
  BY <1>1 DEF RpcStop, RpcSet
<1> QED
  BY <1>1, <1>2, RpcStops, RpcType

\* The caller aborts: no operation goes on that does not know (RpcAbort).
LEMMA RpcAborts == ASSUME RpcOK(rpc), RpcAbort PROVE RpcOK(rpc)' /\ Takes(rpc, rpc', MostSent)
<1>1. /\ rpc \in RpcSet /\ rpc.at # "over" /\ exchange \in Rpc /\ cut' = TRUE
      /\ exchange' = exchange /\ served' = served
  BY RpcType DEF RpcAbort, Rpc
<1>2. ASSUME NEW g, RpcKeeps(g),
             g.at \in {"headers", "channel", "reply", "status", "item"} => g.stopped # "none",
             rpc' = g
      PROVE  RpcOK(rpc)' /\ Takes(rpc, rpc', MostSent)
  <2>1. RpcOK(g) /\ Takes(rpc, g, MostSent)
    BY <1>1, <1>2, RpcKeepsTakes
  <2>2. RpcOK(rpc)'
    BY <1>1, <1>2, <2>1 DEF RpcOK, RpcSent, Truthful, Writing, Answers, Streaming
  <2> QED
    BY <1>2, <2>1, <2>2
<1>3. CASE rpc.at = "delay"
  <2>1. rpc' = RpcOver(rpc, "error")
    BY <1>3 DEF RpcAbort
  <2>2. RpcKeeps(RpcOver(rpc, "error")) /\ RpcOver(rpc, "error").at = "over"
    <3>1. RpcOver(rpc, "error").at = "over"
      BY <1>1 DEF RpcOver, RpcSet
    <3> QED
      BY <1>1, <3>1, RpcFailed
  <2> QED
    BY <1>2, <2>1, <2>2
<1>4. CASE rpc.at # "delay" /\ "listener" \in rpc.held
  <2> DEFINE g == [RpcStop(rpc, "ABORTED") EXCEPT !.returned = rpc.returned]
  <2>1. rpc' = g
    BY <1>1, <1>4 DEF RpcAbort, RpcStop, RpcSet
  <2>2. rpc.at # "idle" /\ rpc.returned \in BOOLEAN
    BY <1>4, RpcType DEF RpcOK
  <2>3. RpcKeeps(g) /\ g.stopped # "none"
    BY <1>1, <2>2, RpcStops
  <2> HIDE DEF g
  <2> QED
    BY <1>2, <2>1, <2>3
<1>5. CASE rpc.at # "delay" /\ "listener" \notin rpc.held
  <2>1. rpc' = rpc
    BY <1>5 DEF RpcAbort
  <2>2. rpc.at \in {"headers", "channel", "reply", "status", "item"} => rpc.stopped # "none"
    BY <1>5 DEF RpcOK
  <2>3. RpcOK(rpc)'
    BY <1>1, <2>1, <2>2 DEF RpcOK, RpcSent, Truthful, Writing, Answers, Streaming
  <2> QED
    BY <1>1, <2>1, <2>3 DEF Takes
<1> QED
  BY <1>3, <1>4, <1>5

\* The server gets the transaction (RpcServe).
LEMMA RpcServed == ASSUME RpcOK(rpc), RpcServe PROVE RpcOK(rpc)' /\ Takes(rpc, rpc', MostSent)
<1>1. rpc' = rpc /\ served = "none" /\ exchange' = exchange /\ cut' = cut /\ exchange = "rpc.send"
  BY DEF RpcServe, Serve
<1>2. rpc.at = "reply" => rpc.settled \in {"none", "UNAVAILABLE", "TIMEOUT", "TRANSPORT", "limit"}
  BY <1>1 DEF RpcOK, Answers, Streaming
<1>3. rpc.at = "reply" =>
        (rpc.settled \in {"none", "UNAVAILABLE", "TIMEOUT", "TRANSPORT"} \cup Answers)'
  BY <1>1, <1>2 DEF Answers, Streaming
<1>4. rpc.at = "over" => Truthful(rpc.outcome, rpc.sent)'
  BY <1>1 DEF RpcOK, Truthful, Writing
<1>5. RpcOK(rpc)'
  BY <1>1, <1>3, <1>4 DEF RpcOK, RpcSent, Streaming
<1> QED
  BY <1>1, <1>5 DEF Takes

\* Every step of the adapter keeps its invariant, and is one that an exchange may take.
LEMMA RpcStepOK == ASSUME RpcOK(rpc), RpcNext PROVE RpcOK(rpc)' /\ Takes(rpc, rpc', MostSent)
<1> DEFINE Steps == RpcRefused \/ Open \/ Platform \/ Channel \/ Replying \/ Item \/ Status
                      \/ RpcDelayEnds \/ PullNext \/ Returned \/ Loaded \/ Replied \/ Finished
                      \/ RpcElapse \/ RpcTimer
<1>1. CASE Steps
  <2>1. UNCHANGED caller /\ rpc.at # "over"
    BY <1>1 DEF RpcRefused, Open, Platform, Channel, Replying, Item, Status, RpcDelayEnds, PullNext,
                Returned, Loaded, Replied, Finished, RpcElapse, RpcTimer, Operating
  <2>2. RpcDelayEnds => RpcKeeps(rpc')
    BY RpcOperates DEF RpcDelayEnds
  <2>3. RpcKeeps(rpc')
    BY <1>1, <2>2, RpcStarts, RpcPlatform, RpcChannel, RpcReplying, RpcItem, RpcStatus, RpcPull,
       RpcReturned, RpcAnswered, RpcTimed
  <2> QED
    BY <2>1, <2>3, RpcKeepsTakes, RpcCalm
<1>2. CASE Dispatch
  <2>1. UNCHANGED caller
    BY <1>2 DEF Dispatch
  <2> QED
    BY <1>2, <2>1, RpcDispatch, RpcCalm
<1>3. CASE RpcAbort
  BY <1>3, RpcAborts
<1>4. CASE RpcServe
  BY <1>4, RpcServed
<1> QED
  BY <1>1, <1>2, <1>3, <1>4 DEF RpcNext, RpcStep

\* A call that has not begun (RpcInit).
LEMMA RpcInitOK == ASSUME RpcInit, CallerInit PROVE RpcOK(rpc)
<1> DEFINE first == [at |-> "idle", try |-> 0, sent |-> 0, settled |-> "none", stopped |-> "none",
                     late |-> FALSE, held |-> {}, returned |-> FALSE, items |-> 0,
                     outcome |-> "none"]
<1>1. rpc = first
  BY DEF RpcInit
<1>2. first \in RpcSet
  BY DEF RpcSet, RpcPlace, RpcSettled, WebStops, Outcome, RpcHeld
<1>3. /\ first.at = "idle" /\ first.try = 0 /\ first.sent = 0 /\ first.held = {}
      /\ first.outcome = "none"
  OBVIOUS
<1> HIDE DEF first
<1>4. RpcOK(first)
  BY <1>2, <1>3, AttemptsAssumption DEF RpcOK, RpcSent
<1> QED
  BY <1>1, <1>4

-----------------------------------------------------------------------------
(* The steps an exchange may take: gRPC-web *)

\* What a step of the call that sends nothing leaves.
WebLeaves(y) == y.sent = web.sent /\ y.at # "idle"

\* A step that sends nothing, or ends a call that is not over.
LEMMA WebLeft ==
    ASSUME WebOK(web, frame, wire)
    PROVE  /\ \A o : WebLeaves(WebOver(web, o))
           /\ WebLeaves(Ended(web)) /\ WebLeaves(EndOfBody(web))
           /\ \A then : WebLeaves(then) => WebLeaves(Checked(web, then))
           /\ web.at # "idle" => WebLeaves(Resumed)
<1>1. web \in WebSet
  BY WebType
<1>2. ASSUME NEW o PROVE WebLeaves(WebOver(web, o))
  BY <1>1 DEF WebLeaves, WebOver, WebSet
<1>3. WebLeaves(Ended(web)) /\ WebLeaves(EndOfBody(web))
  BY <1>2 DEF Ended, EndOfBody
<1>4. ASSUME NEW then, WebLeaves(then) PROVE WebLeaves(Checked(web, then))
  BY <1>2, <1>4 DEF Checked
<1>5. WebLeaves([web EXCEPT !.at = "decode"])
  BY <1>1 DEF WebLeaves, WebSet
<1> QED
  BY <1>2, <1>3, <1>4, <1>5 DEF Resumed

\* The call sends its request once, for a caller that has not aborted.
LEMMA WebSends == ASSUME WebOK(web, frame, wire), WebHeaders PROVE Takes(web, web', 1)
<1>1. web.at = "headers" /\ web.sent = 0 /\ web \in WebSet /\ (cut => web.stopped # "none")
  BY WebType DEF WebHeaders
<1> DEFINE next == [web EXCEPT !.at = "fetch", !.sent = 1, !.settled = "none"]
<1>2. next.at = "fetch" /\ next.sent = 1
  BY <1>1 DEF WebSet
<1>3. WebOver(web, "error").sent = web.sent /\ WebOver(web, "error").at # "idle"
  BY WebLeft DEF WebLeaves
<1>4. web' = IF web.settled = "bad" THEN WebOver(web, "error") ELSE Checked(web, next)
  BY DEF WebHeaders
<1> HIDE DEF next
<1>5. web' = WebOver(web, "error") \/ (web' = next /\ web.stopped = "none")
  BY <1>4 DEF Checked
<1> QED
  BY <1>1, <1>2, <1>3, <1>5 DEF Takes

\* Every step of a call on gRPC-web is one that an exchange may take.
LEMMA WebTakes == ASSUME WebOK(web, frame, wire), WebNext PROVE Takes(web, web', 1)
<1>0. web.at # "over" /\ web \in WebSet
  BY WebType DEF WebNext, WebStep, WebRefused, Start, Pull, Unary, Return, Pulling, WebHeaders,
     WebFetched, WebRead, Decode, MoreBytes, WebSupplied, WebResponded, Chunk, BodyEnds, WebElapse,
     WebTimer, WebAbort, Idle
<1>1. ASSUME WebLeaves(web') PROVE Takes(web, web', 1)
  BY <1>0, <1>1 DEF WebLeaves, Takes
<1>2. CASE WebRefused \/ Return
  BY <1>1, <1>2, WebLeft DEF WebRefused, Return
<1>3. CASE Start
  <2>1. WebLeaves([web EXCEPT !.at = "headers", !.held = {"timer", "listener"}])
    BY <1>0 DEF WebLeaves, WebSet
  <2> QED
    BY <1>1, <1>3, <2>1, WebLeft DEF Start
<1>4. CASE Pull \/ Unary
  BY <1>1, <1>4, WebLeft DEF Pull, Unary
<1>5. CASE WebHeaders
  BY <1>5, WebSends
<1>6. CASE WebFetched
  <2> DEFINE next == [web EXCEPT !.at = "read", !.settled = "none"]
             then == CASE web.settled = "network" -> WebOver(web, "error")
                       [] web.settled = "status" -> WebOver(web, "error")
                       [] web.settled = "trailersOnly" /\ "body" \notin web.held -> Ended(web)
                       [] OTHER -> next
  <2>1. WebLeaves(next)
    BY <1>0 DEF WebLeaves, WebSet
  <2> HIDE DEF next
  <2>2. then \in {WebOver(web, "error"), Ended(web), next}
    BY DEF then
  <2>3. web' = Checked(web, then)
    BY <1>6 DEF WebFetched, next
  <2> HIDE DEF then
  <2>4. WebLeaves(then)
    BY <2>1, <2>2, WebLeft
  <2> QED
    BY <1>1, <2>3, <2>4, WebLeft
<1>7. CASE WebRead
  <2> DEFINE next == [web EXCEPT !.at = "decode"]
             then == CASE web.settled = "chunk" -> next
                       [] web.settled = "end" -> EndOfBody(web)
                       [] OTHER -> WebOver(web, "error")
  <2>1. WebLeaves(next)
    BY <1>0 DEF WebLeaves, WebSet
  <2> HIDE DEF next
  <2>2. then \in {WebOver(web, "error"), EndOfBody(web), next}
    BY DEF then
  <2>3. web' = Checked(web, then)
    BY <1>7 DEF WebRead, next
  <2> HIDE DEF then
  <2>4. WebLeaves(then)
    BY <2>1, <2>2, WebLeft
  <2> QED
    BY <1>1, <2>3, <2>4, WebLeft
<1>8. CASE Decode
  <2> DEFINE turn == Turn
             next == [web EXCEPT !.chunk = turn.rest]
             given == [next EXCEPT !.at = "item", !.taken = Append(@, turn.frame.payload)]
  <2>1. web' = CASE frame.terminal -> WebOver(web, "error")
                 [] ~frame.terminal /\ turn.is = "part" -> next
                 [] ~frame.terminal /\ turn.is = "trailer" /\ turn.frame.head.ok -> next
                 [] ~frame.terminal /\ turn.is = "data" -> Checked(web, given)
                 [] OTHER -> WebOver(web, "error")
    BY <1>8 DEF Decode
  <2> HIDE DEF turn
  <2>2. WebLeaves(next) /\ WebLeaves(given)
    BY <1>0, <1>8 DEF WebLeaves, WebSet, Decode
  <2> HIDE DEF next, given
  <2>3. web' \in {WebOver(web, "error"), next, Checked(web, given)}
    BY <2>1
  <2> QED
    BY <1>1, <2>2, <2>3, WebLeft
<1>9. CASE MoreBytes \/ WebElapse
  <2>1. WebLeaves(web')
    BY <1>0, <1>9 DEF WebLeaves, WebSet, MoreBytes, WebElapse, Idle
  <2> QED
    BY <1>1, <2>1
<1>10. CASE WebSupplied \/ BodyEnds
  <2>1. PICK s : web' = [web EXCEPT !.settled = s]
    BY <1>10 DEF WebSupplied, BodyEnds
  <2>2. WebLeaves(web')
    BY <1>0, <1>10, <2>1 DEF WebLeaves, WebSet, WebSupplied, BodyEnds
  <2> QED
    BY <1>1, <2>2
<1>11. CASE WebResponded
  <2>1. PICK s \in {"network", "status", "trailersOnly", "body"}, body \in BOOLEAN :
          web' = [web EXCEPT !.settled = s,
                             !.held = @ \cup (IF body /\ s # "network" THEN {"body"} ELSE {})]
    BY <1>11 DEF WebResponded
  <2>2. web.at = "fetch"
    BY <1>11 DEF WebResponded
  <2>3. WebLeaves(web')
    BY <1>0, <2>1, <2>2 DEF WebLeaves, WebSet
  <2> QED
    BY <1>1, <2>3
<1>12. CASE Chunk
  <2>1. PICK n : web' = [web EXCEPT !.settled = "chunk",
                             !.chunk = SubSeq(Bytes(wire.body), wire.sent + 1, wire.sent + n)]
    BY <1>12 DEF Chunk
  <2>2. web.at = "read"
    BY <1>12 DEF Chunk
  <2>3. WebLeaves(web')
    BY <1>0, <2>1, <2>2 DEF WebLeaves, WebSet
  <2> QED
    BY <1>1, <2>3
<1>13. CASE WebTimer
  <2>1. WebLeaves(web')
    BY <1>0, <1>13 DEF WebLeaves, WebSet, WebTimer, WebStop, Idle
  <2> QED
    BY <1>1, <2>1
<1>14. CASE WebAbort
  <2>1. web' = web \/ WebLeaves(web')
    BY <1>0, <1>14 DEF WebLeaves, WebSet, WebAbort, WebStop, WebOK, WebBody
  <2> QED
    BY <1>0, <1>1, <2>1 DEF Takes
<1> QED
  BY <1>2, <1>3, <1>4, <1>5, <1>6, <1>7, <1>8, <1>9, <1>10, <1>11, <1>12, <1>13, <1>14
     DEF WebNext, WebStep

\* A call that ends well has sent its request.
LEMMA WebHonest ==
    ASSUME WebOK(web, frame, wire), web.at = "over"
    PROVE  web.held = {} /\ Truthful(web.outcome, web.sent)
  BY DEF WebOK, WebBody, Truthful, Writing

-----------------------------------------------------------------------------
(* The light client *)

\* What the caller sees of the call: the layers that are open are held.
LightPart(l) ==
    [at |-> l.at, sent |-> l.sent, outcome |-> l.outcome,
     held |-> IF l.open = {} THEN {} ELSE {"operation"}]

\* What a step of the call that sends nothing leaves.
LightLeaves(y) == y.sent = light.sent /\ y.at # "idle"

\* The types of a call of the light client.
LEMMA LightType ==
    ASSUME LightOK(light)
    PROVE  light \in LightSet /\ IsInjective(light.returns) /\ (light.at = "idle" => light.open = {})
  BY DEF LightOK

\* The end of a call sends nothing (LightOver).
LEMMA LightOverLeaves ==
    ASSUME LightOK(light), NEW l \in LightSet, IsInjective(l.returns), l.sent = light.sent, NEW o
    PROVE  LightLeaves(LightOver(l, o))
<1>1. PICK returns \in Seq(Objects) :
        Shut(l, 1) = [l EXCEPT !.open = {}, !.returns = returns] /\ IsInjective(returns)
  BY ShutGives
<1> DEFINE shut == [l EXCEPT !.open = {}, !.returns = returns]
<1>2. shut \in LightSet /\ shut.returns = returns /\ shut.sent = light.sent
  BY <1>1 DEF LightSet
<1> HIDE DEF shut
<1>3. Release(shut) = [shut EXCEPT !.returns = Release(shut).returns]
  BY <1>1, <1>2, ReleaseGives
<1> DEFINE r == Release(shut).returns
<1> HIDE DEF r
<1>4. Release(shut) = [shut EXCEPT !.returns = r]
  BY <1>3 DEF r
<1>5. LightOver(l, o) = [Release(shut) EXCEPT !.at = "over", !.outcome = o]
  BY <1>1 DEF LightOver, shut
<1> QED
  BY <1>2, <1>4, <1>5 DEF LightLeaves, LightSet

\* A step that sends nothing is one that an exchange may take.
LEMMA LightLeft ==
    ASSUME LightOK(light)
    PROVE  /\ \A o : LightLeaves(LightOver(light, o))
           /\ \A then : LightLeaves(then) => LightLeaves(LightChecked(light, then))
           /\ light.at # "idle" => LightLeaves(Cancel(light))
<1>1. \A o : LightLeaves(LightOver(light, o))
  BY LightType, LightOverLeaves
<1>2. ASSUME light.at # "idle" PROVE LightLeaves(Cancel(light))
  <2>1. PICK returns \in Seq(Objects) : Shut(light, 1) = [light EXCEPT !.open = {}, !.returns = returns]
    BY LightType, ShutGives
  <2>2. Cancel(light) = [light EXCEPT !.open = {}, !.returns = returns, !.stopped = TRUE]
    BY <2>1, LightType DEF Cancel, LightSet
  <2> QED
    BY <1>2, <2>2, LightType DEF LightLeaves, LightSet
<1> QED
  BY <1>1, <1>2 DEF LightChecked

\* Nor does what an await is followed by (Awaited).
LEMMA AwaitedLeaves ==
    ASSUME LightOK(light), NEW at, NEW then, Awaited(at, then), LightLeaves(then)
    PROVE  LightLeaves(light')
  BY LightLeft DEF Awaited

\* The owner calls the transport once, for a caller that has not aborted.
LEMMA LightSends ==
    ASSUME LightOK(light), CallTransport
    PROVE  Takes(LightPart(light), LightPart(light'), MostSent)
<1>1. light.at = "opening" /\ light.sent = 0 /\ light \in LightSet
  BY LightType DEF CallTransport
<1> DEFINE next == [light EXCEPT !.open = Layers, !.sent = @ + 1,
                                 !.at = IF LightStream THEN "opening" ELSE "reply"]
<1>2. next.sent = light.sent + 1 /\ next.at \in {"opening", "reply"}
  BY <1>1 DEF LightSet
<1>3. light' = LightChecked(light, next)
  BY DEF CallTransport
<1> HIDE DEF next
<1>4. MostSent > 0
  BY AttemptsAssumption DEF MostSent
<1>5. CASE cut \/ light.stopped
  <2>1. LightLeaves(light')
    BY <1>3, <1>5, LightLeft DEF LightChecked
  <2> QED
    BY <1>1, <2>1 DEF Takes, LightLeaves, LightPart
<1>6. CASE ~(cut \/ light.stopped)
  <2>1. light' = next
    BY <1>3, <1>6 DEF LightChecked
  <2> QED
    BY <1>1, <1>2, <1>4, <1>6, <2>1 DEF Takes, LightPart
<1> QED
  BY <1>5, <1>6

\* The steps of the light client that send nothing.
LEMMA LightStepsLeave ==
    ASSUME LightOK(light), LightStep \/ LightPull, ~CallTransport
    PROVE  LightLeaves(light') /\ light.at # "over"
<1>0. light \in LightSet
  BY LightType
<1>1. light.at # "over"
  BY DEF LightStep, LightRefused, LightOpen, Identity, Genesis, Verified, DecodeTransaction, Iterable,
     Iterator, Pulled, Project, TipReply, TreeReply, UtxosReply, TransactionReply, SendReply,
     ReadReply, Awaited, LightPull
<1> SUFFICES LightLeaves(light')
  BY <1>1
<1> DEFINE opened == [light EXCEPT !.open = {1},
                                   !.at = IF light.verified THEN "ready" ELSE "identity"]
           genesis == [light EXCEPT !.at = "genesis", !.settled = "none"]
           ready == [light EXCEPT !.at = "ready", !.settled = "none", !.verified = TRUE]
           verified == [light EXCEPT !.open = {1, 2},
                                     !.at = IF exchange = "light.send" THEN "decode" ELSE "opening"]
           decoded == [light EXCEPT !.at = "opening", !.settled = "none"]
           project == [light EXCEPT !.at = "project", !.settled = "none"]
           item == [light EXCEPT !.at = "item"]
           block == [light EXCEPT !.at = "item", !.blocks = Append(@, light.due), !.due = "none"]
           pull == [light EXCEPT !.at = "pull", !.settled = "none"]
<1>2. /\ LightLeaves(opened) /\ LightLeaves(genesis) /\ LightLeaves(ready)
      /\ LightLeaves(verified) /\ LightLeaves(decoded) /\ LightLeaves(project)
      /\ LightLeaves(item) /\ LightLeaves(block) /\ LightLeaves(pull)
  BY <1>0 DEF LightLeaves, LightSet
<1>3. CASE LightRefused
  BY <1>3, LightLeft DEF LightRefused
<1>4. CASE LightOpen
  <2>1. light' = LightChecked(light, opened)
    BY <1>4 DEF LightOpen
  <2> HIDE DEF opened
  <2> QED
    BY <1>2, <2>1, LightLeft
<1>5. CASE Identity \/ Genesis \/ DecodeTransaction
  <2>1. \E at : \E then \in {genesis, ready, decoded} : Awaited(at, then)
    BY <1>5 DEF Identity, Genesis, DecodeTransaction
  <2> HIDE DEF genesis, ready, decoded
  <2> QED
    BY <1>2, <2>1, AwaitedLeaves
<1>6. CASE Verified
  <2>1. light' = LightChecked(light, verified)
    BY <1>6 DEF Verified
  <2> HIDE DEF verified
  <2> QED
    BY <1>2, <2>1, LightLeft
<1>7. CASE Iterable
  <2> DEFINE got == [light EXCEPT !.foreign = {"iterable"}, !.at = "acquiring"]
  <2>1. light' \in {LightOver(light, "error"), LightChecked(got, got)}
    BY <1>7 DEF Iterable
  <2>2. got \in LightSet /\ got.sent = light.sent /\ got.returns = light.returns /\ got.at = "acquiring"
    BY <1>0 DEF LightSet, LightPlace, Objects
  <2> HIDE DEF got
  <2>3. LightLeaves(got)
    BY <2>2 DEF LightLeaves
  <2>4. LightLeaves(LightOver(got, "error"))
    BY <2>2, LightType, LightOverLeaves
  <2> QED
    BY <2>1, <2>3, <2>4, LightLeft DEF LightChecked
<1>8. CASE Iterator
  <2> DEFINE got == [light EXCEPT !.foreign = @ \cup {"iterator"}, !.at = "pull", !.settled = "none"]
  <2>1. light' \in {LightOver(light, "error"), LightChecked(got, got)}
    BY <1>8 DEF Iterator
  <2>2. got \in LightSet /\ got.sent = light.sent /\ got.returns = light.returns /\ got.at = "pull"
    BY <1>0 DEF LightSet, LightPlace, Objects, Settled
  <2> HIDE DEF got
  <2>3. LightLeaves(got)
    BY <2>2 DEF LightLeaves
  <2>4. LightLeaves(LightOver(got, "error"))
    BY <2>2, LightType, LightOverLeaves
  <2> QED
    BY <2>1, <2>3, <2>4, LightLeft DEF LightChecked
<1>9. CASE Pulled
  <2> DEFINE then ==
         CASE light.settled = "end" -> LightOver(light, IF Complete THEN "value" ELSE "error")
           [] light.settled \in {"fault", "malformed"} -> LightOver(light, "error")
           [] exchange = "light.transactions" /\ light.settled = "item" -> project
           [] OTHER -> IF Fits(light.due) THEN block ELSE LightOver(light, "error")
  <2>1. light' = LightChecked(light, then)
    BY <1>9 DEF Pulled
  <2> HIDE DEF project, block
  <2>2. then \in {LightOver(light, "value"), LightOver(light, "error"), project, block}
    BY DEF then
  <2> HIDE DEF then
  <2>3. LightLeaves(then)
    BY <1>2, <2>2, LightLeft
  <2> QED
    BY <2>1, <2>3, LightLeft
<1>10. CASE Project
  <2>1. \E then \in {item, LightOver(light, "value")} : Awaited("project", then)
    BY <1>10 DEF Project
  <2> HIDE DEF item
  <2> QED
    BY <1>2, <2>1, LightLeft, AwaitedLeaves
<1>11. CASE TipReply \/ TreeReply \/ UtxosReply \/ TransactionReply
  <2> HIDE DEF project
  <2>0. /\ TipReply => \E then \in {LightOver(light, "value"), LightOver(light, "error")} :
                         Awaited("reply", then)
        /\ TreeReply => \E then \in {LightOver(light, "value"), LightOver(light, "error")} :
                          Awaited("reply", then)
        /\ UtxosReply => \E then \in {LightOver(light, "value"), LightOver(light, "error")} :
                           Awaited("reply", then)
    BY DEF TipReply, TreeReply, UtxosReply, ReadReply, Asked
  <2>1. TransactionReply =>
          \E then \in {LightOver(light, "value"), LightOver(light, "error"), project} :
            Awaited("reply", then)
    BY DEF TransactionReply, ReadReply, project
  <2> QED
    BY <1>2, <1>11, <2>0, <2>1, LightLeft, AwaitedLeaves
<1>12. CASE SendReply
  <2>1. \E o : light' = LightOver(light, o)
    BY <1>12 DEF SendReply
  <2> QED
    BY <2>1, LightLeft
<1>13. CASE LightPull
  <2>1. light' = LightChecked(light, pull)
    BY <1>13 DEF LightPull
  <2> HIDE DEF pull
  <2> QED
    BY <1>2, <2>1, LightLeft
<1> QED
  BY <1>1, <1>3, <1>4, <1>5, <1>6, <1>7, <1>8, <1>9, <1>10, <1>11, <1>12, <1>13 DEF LightStep

\* Every step of the light client is one that an exchange may take.
LEMMA LightTakes ==
    ASSUME LightOK(light), LightNext
    PROVE  Takes(LightPart(light), LightPart(light'), MostSent)
<1>0. light \in LightSet
  BY LightType
<1>1. ASSUME LightLeaves(light'), light.at # "over"
      PROVE  Takes(LightPart(light), LightPart(light'), MostSent)
  BY <1>1 DEF Takes, LightLeaves, LightPart
<1>2. CASE CallTransport
  BY <1>2, LightSends
<1>3. CASE (LightStep \/ LightPull) /\ ~CallTransport
  BY <1>1, <1>3, LightStepsLeave
<1>4. CASE LightReturn
  <2>1. light.at \notin {"idle", "over"}
    BY <1>4 DEF LightReturn
  <2> QED
    BY <1>1, <1>4, <2>1, LightLeft DEF LightReturn
<1>5. CASE Prepared \/ Pushed \/ LightReplied
  <2>1. light.at \notin {"idle", "over"}
    BY <1>5 DEF Prepared, Pushed, LightReplied
  <2>2. LightLeaves(light')
    <3>1. CASE Prepared \/ LightReplied
      <4>1. PICK s : light' = [light EXCEPT !.settled = s]
        BY <3>1 DEF Prepared, LightReplied
      <4> QED
        BY <1>0, <2>1, <4>1 DEF LightLeaves, LightSet
    <3>2. CASE Pushed
      <4>1. PICK s, due : light' = [light EXCEPT !.settled = s, !.due = due]
        BY <3>2 DEF Pushed
      <4> QED
        BY <1>0, <2>1, <4>1 DEF LightLeaves, LightSet
    <3> QED
      BY <1>5, <3>1, <3>2
  <2> QED
    BY <1>1, <2>1, <2>2
<1>6. CASE LightAbort
  <2>1. CASE light.open = {}
    BY <1>6, <2>1 DEF LightAbort, Takes
  <2>2. CASE light.open # {}
    <3>1. light.at \notin {"idle", "over"} /\ light' = Cancel(light)
      BY <1>6, <2>2, LightType DEF LightAbort
    <3> QED
      BY <1>1, <3>1, LightLeft
  <2> QED
    BY <2>1, <2>2
<1>7. CASE LightServe
  BY <1>7 DEF LightServe, Takes
<1> QED
  BY <1>2, <1>3, <1>4, <1>5, <1>6, <1>7 DEF LightNext

\* A call that is over holds nothing, and what it told is true.
LEMMA LightHonest ==
    ASSUME LightOK(light), light.at = "over"
    PROVE  light.open = {} /\ Truthful(light.outcome, light.sent)
  BY DEF LightOK

-----------------------------------------------------------------------------
(* The public client *)

\* What EndpointCall sees of a call of the public client, and what a step that sends nothing
\* leaves.
PubPart(p) == [at |-> p.at, sent |-> p.sent, outcome |-> p.outcome, held |-> {}]

PubLeaves(y) == y.sent = pub.sent /\ y.at # "idle"

\* The types of a call of the public client.
LEMMA PubType == ASSUME PubOK(pub, best) PROVE pub \in PubSet
  BY DEF PubOK

\* A step that sends nothing is one that an exchange may take.
LEMMA PubLeft ==
    ASSUME PubOK(pub, best)
    PROVE  /\ \A o : PubLeaves(PubOver(pub, o))
           /\ \A o, answer : PubLeaves([PubOver(pub, o) EXCEPT !.answer = answer])
           /\ \A o, answer, header :
                PubLeaves([PubOver(pub, o) EXCEPT !.answer = answer, !.header = header])
<1>1. pub \in PubSet
  BY PubType
<1>2. ASSUME NEW o PROVE PubLeaves(PubOver(pub, o))
  BY <1>1 DEF PubLeaves, PubOver, PubSet
<1>3. ASSUME NEW o, NEW answer PROVE PubLeaves([PubOver(pub, o) EXCEPT !.answer = answer])
  BY <1>1 DEF PubLeaves, PubOver, PubSet
<1>4. ASSUME NEW o, NEW answer, NEW header
      PROVE  PubLeaves([PubOver(pub, o) EXCEPT !.answer = answer, !.header = header])
  BY <1>1 DEF PubLeaves, PubOver, PubSet
<1> QED
  BY <1>2, <1>3, <1>4

\* The call begins to read once, for a caller that has not aborted.
LEMMA PubSends ==
    ASSUME PubOK(pub, best), PubReady
    PROVE  Takes(PubPart(pub), PubPart(pub'), MostSent)
<1>1. pub.at = "ready" /\ pub.sent = 0 /\ pub \in PubSet /\ Public
  BY PubType DEF PubReady, PubRead, PubOK, Belongs, Public
<1> DEFINE at == CASE exchange = "public.block" -> "block"
                   [] exchange = "public.tree" -> "tree"
                   [] exchange = "public.utxos" -> "utxos"
                   [] exchange = "public.transaction" -> "transaction"
                   [] OTHER -> "tip"
           next == [pub EXCEPT !.sent = 1, !.at = at]
<1>2. pub' = IF cut THEN PubOver(pub, "error") ELSE next
  BY DEF PubReady, PubRead
<1>3. at \in {"block", "tree", "utxos", "transaction", "tip"}
  OBVIOUS
<1> HIDE DEF at
<1>4. next.sent = 1 /\ next.at = at
  BY <1>1 DEF PubSet
<1> HIDE DEF next
<1>5. MostSent > 0
  BY AttemptsAssumption DEF MostSent
<1>6. CASE cut
  <2>1. PubLeaves(pub')
    BY <1>2, <1>6, PubLeft
  <2> QED
    BY <1>1, <2>1 DEF Takes, PubLeaves, PubPart
<1>7. CASE ~cut
  <2>1. pub' = next
    BY <1>2, <1>7
  <2> QED
    BY <1>1, <1>3, <1>4, <1>5, <1>7, <2>1 DEF Takes, PubPart
<1> QED
  BY <1>6, <1>7

\* Every step of a call of the public client is one that an exchange may take.
LEMMA PubTakes ==
    ASSUME PubOK(pub, best), PubNext
    PROVE  Takes(PubPart(pub), PubPart(pub'), MostSent)
<1>0. pub \in PubSet
  BY PubType
<1>1. pub.at # "over"
  BY DEF PubNext, PubStep, PubRefused, PubOpen, PubReady, FirstTip, Utxos, Transaction, Block, Tree,
     Header, Roots, Root, RootsRead, SecondTip, Poll, WaitEnds, PubReturned, ReadFails, WaitElapses,
     Reorganize, PubAbort, PubRead, Waiting
<1>2. ASSUME PubLeaves(pub') PROVE Takes(PubPart(pub), PubPart(pub'), MostSent)
  BY <1>1, <1>2 DEF Takes, PubLeaves, PubPart
<1>3. ASSUME NEW at, NEW then, PubRead(at, then), PubLeaves(then)
      PROVE  Takes(PubPart(pub), PubPart(pub'), MostSent)
  BY <1>2, <1>3, PubLeft DEF PubRead
<1>4. CASE PubReady
  BY <1>4, PubSends
<1>5. CASE PubRefused \/ ReadFails \/ WaitEnds \/ PubReturned
  BY <1>2, <1>5, PubLeft DEF PubRefused, ReadFails, WaitEnds, PubReturned
<1>6. CASE PubOpen
  <2>1. PubLeaves([pub EXCEPT !.at = "ready"])
    BY <1>0 DEF PubLeaves, PubSet
  <2> QED
    BY <1>3, <1>6, <2>1 DEF PubOpen
<1>7. CASE FirstTip
  <2> DEFINE next == [pub EXCEPT !.before = Tip(Here), !.roots = <<>>,
                         !.at = IF exchange = "public.roots" THEN "roots" ELSE "transaction"]
             then == IF exchange = "public.tip" THEN PubOver(pub, "value") ELSE next
  <2>1. PubLeaves(next)
    BY <1>0 DEF PubLeaves, PubSet
  <2>2. PubRead("tip", then)
    BY <1>7 DEF FirstTip
  <2> HIDE DEF next
  <2>3. PubLeaves(then)
    BY <2>1, PubLeft
  <2> HIDE DEF then
  <2> QED
    BY <1>3, <2>2, <2>3
<1>8. CASE Utxos
  BY <1>3, <1>8, PubLeft DEF Utxos
<1>9. CASE Transaction
  <2> DEFINE height == CHOOSE h \in Inclusions(Here) : TRUE
             found(state) == IF state = "active"
                             THEN [state |-> "unknown", height |-> height, block |-> Here[height]]
                             ELSE [None EXCEPT !.state = state]
             then(state) == CASE state = "active" -> [pub EXCEPT !.found = found(state), !.at = "block"]
                              [] state # "active" /\ exchange = "public.transaction" ->
                                    [PubOver(pub, "value") EXCEPT !.answer = found(state)]
                              [] OTHER -> [pub EXCEPT !.found = found(state), !.at = "again"]
  <2>1. PICK state \in {"active", "notSeen", "mempool", "offMainChain"} :
          PubRead("transaction", then(state))
    BY <1>9 DEF Transaction
  <2> HIDE DEF found
  <2>2. /\ PubLeaves([pub EXCEPT !.found = found(state), !.at = "block"])
        /\ PubLeaves([pub EXCEPT !.found = found(state), !.at = "again"])
    BY <1>0 DEF PubLeaves, PubSet
  <2>3. then(state) \in {[pub EXCEPT !.found = found(state), !.at = "block"],
                         [pub EXCEPT !.found = found(state), !.at = "again"],
                         [PubOver(pub, "value") EXCEPT !.answer = found(state)]}
    BY DEF then
  <2>4. PubLeaves([PubOver(pub, "value") EXCEPT !.answer = found(state)])
    BY PubLeft
  <2> HIDE DEF then
  <2>5. PubLeaves(then(state))
    BY <2>2, <2>3, <2>4
  <2> QED
    BY <1>3, <2>1, <2>5
<1>10. CASE Block
  <2> DEFINE status == exchange # "public.block"
             height == IF status THEN pub.found.height ELSE AskedHeight
             one == [pub EXCEPT !.at = "header", !.pinned = Here[height]]
             two == [pub EXCEPT !.at = "header", !.pinned = Here[height],
                       !.found = [state |-> "mined", height |-> height, block |-> Here[height]]]
             none == PubOver(pub, IF status THEN "error" ELSE "value")
             then == CASE height > Len(Here) -> none
                       [] height <= Len(Here) /\ status /\ Here[height] # pub.found.block -> one
                       [] OTHER -> two
  <2>1. PubRead("block", then)
    BY <1>10 DEF Block
  <2> HIDE DEF height
  <2>2. PubLeaves(one) /\ PubLeaves(two)
    BY <1>0 DEF PubLeaves, PubSet
  <2>3. PubLeaves(none)
    BY PubLeft
  <2> HIDE DEF one, two, none
  <2>4. then \in {one, two, none}
    BY DEF then
  <2> HIDE DEF then
  <2>5. PubLeaves(then)
    BY <2>2, <2>3, <2>4
  <2> QED
    BY <1>3, <2>1, <2>5
<1>11. CASE Tree
  <2> DEFINE next == [pub EXCEPT !.at = "header", !.pinned = Here[AskedHeight],
                        !.found = [state |-> "mined", height |-> AskedHeight,
                                   block |-> Here[AskedHeight]]]
             then == IF AskedHeight > Len(Here) THEN PubOver(pub, "error") ELSE next
  <2>1. PubLeaves(next)
    BY <1>0 DEF PubLeaves, PubSet
  <2>2. PubRead("tree", then)
    BY <1>11 DEF Tree
  <2> HIDE DEF next
  <2>3. PubLeaves(then)
    BY <2>1, PubLeft
  <2> HIDE DEF then
  <2> QED
    BY <1>3, <2>2, <2>3
<1>12. CASE Header
  <2> DEFINE next == [pub EXCEPT !.at = "again"]
             told == [PubOver(pub, "value") EXCEPT !.answer = pub.found, !.header = Pinned]
             then == IF exchange \in {"public.block", "public.tree", "public.transaction"}
                     THEN told ELSE next
  <2>1. PubLeaves(next)
    BY <1>0 DEF PubLeaves, PubSet
  <2>2. PubRead("header", then)
    BY <1>12 DEF Header
  <2>3. PubLeaves(told)
    BY PubLeft
  <2> HIDE DEF next, told
  <2>4. PubLeaves(then)
    BY <2>1, <2>3
  <2> HIDE DEF then
  <2> QED
    BY <1>3, <2>2, <2>4
<1>13. CASE Roots \/ RootsRead \/ Poll
  <2>1. /\ PubLeaves([pub EXCEPT !.listed = Len(Here), !.at = "root"])
        /\ PubLeaves([pub EXCEPT !.at = "again"]) /\ PubLeaves([pub EXCEPT !.at = "tip"])
    BY <1>0 DEF PubLeaves, PubSet
  <2> QED
    BY <1>3, <1>13, <2>1 DEF Roots, RootsRead, Poll
<1>14. CASE Root
  <2> DEFINE height == RootHeights[NextRoot]
             root == [height |-> height, block |-> Here[height]]
             next == [pub EXCEPT !.roots = Append(@, root)]
             then == IF height > Len(Here) \/ ~InTip(root) THEN PubOver(pub, "error") ELSE next
  <2>1. PubRead("root", then)
    BY <1>14 DEF Root
  <2>2. pub.at = "root"
    BY <2>1 DEF PubRead
  <2> HIDE DEF root, height
  <2>3. PubLeaves(next)
    BY <1>0, <2>2 DEF PubLeaves, PubSet
  <2> HIDE DEF next
  <2>4. PubLeaves(then)
    BY <2>3, PubLeft
  <2> HIDE DEF then
  <2> QED
    BY <1>3, <2>1, <2>4
<1>15. CASE SecondTip
  <2> DEFINE told == [PubOver(pub, "value") EXCEPT !.answer = Observed]
             next == [pub EXCEPT !.at = "poll"]
             ended == PubOver(pub, IF Moved THEN "error" ELSE "value")
             then == CASE exchange = "public.status" -> told
                       [] exchange = "public.roots" -> ended
                       [] OTHER -> IF Confirmed(Observed) THEN told ELSE next
  <2>1. PubRead("again", then)
    BY <1>15 DEF SecondTip
  <2>2. PubLeaves(told) /\ PubLeaves(ended)
    BY PubLeft
  <2>3. PubLeaves(next)
    BY <1>0 DEF PubLeaves, PubSet
  <2> HIDE DEF told, next, ended
  <2>4. then \in {told, next, ended}
    BY DEF then
  <2> HIDE DEF then
  <2>5. PubLeaves(then)
    BY <2>2, <2>3, <2>4
  <2> QED
    BY <1>3, <2>1, <2>5
<1>16. CASE WaitElapses
  <2>1. PubLeaves(pub')
    BY <1>0, <1>16 DEF PubLeaves, PubSet, WaitElapses, Waiting
  <2> QED
    BY <1>2, <2>1
<1>17. CASE Reorganize \/ PubAbort
  BY <1>17 DEF Takes, Reorganize, PubAbort
<1> QED
  BY <1>4, <1>5, <1>6, <1>7, <1>8, <1>9, <1>10, <1>11, <1>12, <1>13, <1>14, <1>15, <1>16, <1>17
     DEF PubNext, PubStep

\* A call of the public client submits nothing (broadcastTransaction() is http.send), and one
\* that answers has read.
LEMMA PubHonest ==
    ASSUME PubOK(pub, best), pub.at = "over"
    PROVE  Truthful(pub.outcome, pub.sent)
<1>1. exchange \in PublicExchanges /\ (pub.outcome = "error" \/ (pub.outcome = "value" /\ pub.sent = 1))
  BY DEF PubOK, Belongs
<1> QED
  BY <1>1 DEF Truthful, Writing, PublicExchanges

-----------------------------------------------------------------------------
(* The artifacts *)

\* How many requests an acquisition may make: the manifest and each file of it.
MostRead == 1 + Len(art.inventory.files)

\* What a step of the acquisition that fetches nothing leaves.
ArtLeaves(y) == y.sent = art.sent /\ y.inventory = art.inventory /\ y.at # "idle"

\* What leaves nothing to tell.
ArtSame(y) ==
    /\ y.at = art.at /\ y.sent = art.sent /\ y.held = art.held /\ y.outcome = art.outcome
    /\ y.inventory = art.inventory

\* A step of an acquisition that an exchange may take.
ArtGoesOn(y) == Takes(art, y, MostRead) /\ y.inventory = art.inventory

\* The types of an acquisition.
LEMMA ArtType ==
    ASSUME ArtOK(art)
    PROVE  /\ art \in ArtSet /\ art.sent \in Nat /\ art.item \in Nat
           /\ art.held \in SUBSET Kept /\ Len(art.inventory.files) \in Nat
<1>1. art \in ArtSet
  BY DEF ArtOK
<1>2. art.inventory \in Inventories
  BY <1>1 DEF ArtSet
<1> QED
  BY <1>1, <1>2, FilesType DEF ArtSet

\* The end of the start fetches nothing (StartEnds).
LEMMA StartEndsLeaves ==
    ASSUME NEW a \in ArtSet, NEW o
    PROVE  /\ StartEnds(a, o).sent = a.sent /\ StartEnds(a, o).inventory = a.inventory
           /\ StartEnds(a, o).at = "over"
  BY DEF StartEnds, Discarded, ArtSet

\* Nor does giving up a body, the timer and the listener (Quieted, Unread).
LEMMA QuietedLeaves ==
    ASSUME NEW a \in ArtSet
    PROVE  /\ Quieted(a) \in ArtSet /\ Unread(a) \in ArtSet
           /\ Quieted(a).sent = a.sent /\ Quieted(a).inventory = a.inventory
           /\ Unread(a).sent = a.sent /\ Unread(a).inventory = a.inventory
<1>1. a.held \ {"body"} \in SUBSET Kept /\ a.held \ {"timer", "listener"} \in SUBSET Kept
  BY DEF ArtSet
<1> QED
  BY <1>1 DEF Quieted, Unread, ArtSet

\* Nor does a failure (Fail).
LEMMA FailLeaves ==
    ASSUME NEW a \in ArtSet, a.sent = art.sent, a.inventory = art.inventory
    PROVE  ArtLeaves(Fail(a))
<1> DEFINE unread == Unread(a)
           quiet == Quieted(unread)
<1>1. unread \in ArtSet /\ unread.sent = a.sent /\ unread.inventory = a.inventory
  BY QuietedLeaves
<1> HIDE DEF unread
<1>2. quiet \in ArtSet /\ quiet.sent = a.sent /\ quiet.inventory = a.inventory
  BY <1>1, QuietedLeaves
<1>3. Fail(a) = StartEnds(quiet, "error")
  BY DEF Fail, unread
<1> HIDE DEF quiet
<1> QED
  BY <1>2, <1>3, StartEndsLeaves DEF ArtLeaves

\* A step that fetches nothing is one that an exchange may take.
LEMMA ArtMoves == ASSUME ArtLeaves(art'), art.at # "over" PROVE ArtGoesOn(art')
  BY DEF ArtLeaves, ArtGoesOn, Takes

\* So is one that changes nothing that is told.
LEMMA ArtStays == ASSUME ArtSame(art') PROVE ArtGoesOn(art')
  BY DEF ArtSame, ArtGoesOn, Takes

\* A file is fetched, for an owner that has not been aborted.
LEMMA FileTakes ==
    ASSUME ArtOK(art), NEW a \in ArtSet, a.sent = art.sent, a.inventory = art.inventory, NEW i,
           art.at # "over", ~cut, art.sent < MostRead, art' = ReadFile(a, i)
    PROVE  ArtGoesOn(art')
<1>1. art'.at = "fetch" /\ art'.sent = art.sent + 1 /\ art'.inventory = art.inventory
  BY ArtType DEF ReadFile, ArtSet
<1> QED
  BY <1>1 DEF ArtGoesOn, Takes

\* An await of an acquisition is over: it fails, or goes on if it was not aborted
\* (ArtAwaited).
LEMMA ArtAwaitedTakes ==
    ASSUME ArtOK(art), NEW at \in Acquiring, NEW then, ArtAwaited(at, then), ~cut \/ ArtLeaves(then),
           ~art.stopped => ArtLeaves(then) \/ (art' = then => ArtGoesOn(art'))
    PROVE  ArtGoesOn(art')
<1>0. art.at # "over" /\ art \in ArtSet
  BY ArtType DEF ArtAwaited, Acquiring
<1> DEFINE orphaned == [art EXCEPT !.orphans = @ + 1]
<1>1. orphaned \in ArtSet /\ orphaned.sent = art.sent /\ orphaned.inventory = art.inventory
  BY <1>0 DEF ArtSet
<1>2. \/ art' = Fail(orphaned)
      \/ art' = Fail(art)
      \/ ~art.stopped /\ art' = then
  BY <1>0 DEF ArtAwaited, ArtSet
<1> HIDE DEF orphaned
<1>3. ArtLeaves(Fail(orphaned)) /\ ArtLeaves(Fail(art))
  BY <1>0, <1>1, FailLeaves
<1> QED
  BY <1>0, <1>2, <1>3, ArtMoves

\* The manifest is asked for, and a file read.
LEMMA ArtReadsTake ==
    ASSUME ArtOK(art), ArtRefused \/ ArtRequest \/ ArtFetched \/ ArtRead
    PROVE  ArtGoesOn(art')
<1>0. art \in ArtSet /\ ArtLeaves(Fail(art))
  BY ArtType, FailLeaves
<1>1. CASE ArtRefused
  BY <1>0, <1>1, ArtMoves DEF ArtRefused
<1>2. CASE ArtRequest
  <2>1. art.at = "idle" /\ art.sent = 0
    BY <1>2 DEF ArtRequest, ArtOK, ArtPart
  <2>2. CASE cut
    BY <1>0, <1>2, <2>1, <2>2, ArtMoves DEF ArtRequest
  <2>3. CASE ~cut
    <3> DEFINE a == [art EXCEPT !.held = {"startup", "timer", "listener"}]
    <3>1. a \in ArtSet /\ a.sent = art.sent /\ a.inventory = art.inventory
      BY <1>0 DEF ArtSet, Kept
    <3>2. art' = ReadFile(a, 0)
      BY <1>2, <2>3 DEF ArtRequest
    <3>3. art.sent < MostRead
      BY <2>1, ArtType DEF MostRead
    <3> HIDE DEF a
    <3> QED
      BY <2>1, <2>3, <3>1, <3>2, <3>3, FileTakes
  <2> QED
    BY <2>2, <2>3
<1>3. CASE ArtFetched
  <2> DEFINE next == [art EXCEPT !.at = "body", !.settled = "none", !.held = @ \cup {"bytes"}]
  <2>1. ArtLeaves(next)
    BY <1>0 DEF ArtLeaves, ArtSet
  <2>2. ArtAwaited("fetch", next)
    BY <1>3 DEF ArtFetched
  <2> HIDE DEF next
  <2> QED
    BY <2>1, <2>2, ArtAwaitedTakes DEF Acquiring
<1>4. CASE ArtRead
  <2> DEFINE unread == Unread(art)
             done == [unread EXCEPT !.at = "digest", !.settled = "none", !.kept = @ \cup {art.item}]
             more == [art EXCEPT !.size = @ + 1, !.settled = "none",
                                 !.altered = @ \/ art.settled = "other"]
             then == IF art.settled = "done"
                     THEN IF art.item > 0 /\ art.size # Room THEN Fail(art) ELSE done
                     ELSE IF art.size + 1 > Room THEN Fail(art) ELSE more
  <2>1. ArtAwaited("body", then)
    BY <1>4 DEF ArtRead
  <2>2. art.at = "body"
    BY <2>1 DEF ArtAwaited
  <2>3. ArtLeaves(more)
    BY <1>0, <2>2 DEF ArtLeaves, ArtSet
  <2>4. unread \in ArtSet /\ unread.sent = art.sent /\ unread.inventory = art.inventory
    BY <1>0, QuietedLeaves
  <2> HIDE DEF unread
  <2>5. ArtLeaves(done)
    BY <2>4 DEF ArtLeaves, ArtSet
  <2> HIDE DEF done, more
  <2>6. ArtLeaves(then)
    BY <1>0, <2>3, <2>5
  <2> HIDE DEF then
  <2> QED
    BY <2>1, <2>6, ArtAwaitedTakes DEF Acquiring
<1> QED
  BY <1>1, <1>2, <1>3, <1>4

\* A file is verified: the next one is fetched, if there is one, or the start begins
\* (ArtDigested).
LEMMA ArtDigestTakes == ASSUME ArtOK(art), ArtDigested PROVE ArtGoesOn(art')
<1> DEFINE then ==
        CASE ~Genuine -> Fail(art)
          [] Genuine /\ art.item = 0 ->
                IF Admissible(art.inventory) THEN ReadFile(art, 1) ELSE Fail(art)
          [] Genuine /\ art.item \in 1..(Len(Files) - 1) -> ReadFile(art, art.item + 1)
          [] OTHER -> Acquired(art)
<1>1. ArtAwaited("digest", then)
  BY DEF ArtDigested
<1>2. art.at = "digest" /\ art \in ArtSet /\ ArtLeaves(Fail(art))
  BY <1>1, ArtType, FailLeaves DEF ArtAwaited
<1>3. art.sent = art.item + 1 /\ (cut => art.stopped)
  BY <1>2 DEF ArtOK, ArtPart, Acquiring
<1>4. ArtLeaves(Acquired(art))
  <2> DEFINE quiet == Quieted(art)
             next == [quiet EXCEPT !.at = "modules", !.settled = "none"]
  <2>1. quiet \in ArtSet /\ quiet.sent = art.sent /\ quiet.inventory = art.inventory
    BY <1>2, QuietedLeaves
  <2> HIDE DEF quiet
  <2>2. ArtLeaves(next)
    BY <2>1 DEF ArtLeaves, ArtSet
  <2>3. Acquired(art) = Fail(art) \/ Acquired(art) = next
    BY DEF Acquired, quiet
  <2> HIDE DEF next
  <2> QED
    BY <1>2, <2>2, <2>3
<1>5. ASSUME ~art.stopped, NEW i, art' = ReadFile(art, i), art.sent < MostRead PROVE ArtGoesOn(art')
  BY <1>2, <1>3, <1>5, FileTakes
<1>6. art.item = 0 /\ Admissible(art.inventory) => art.sent < MostRead
  <2>1. Admissible(art.inventory) => Len(art.inventory.files) > 0
    <3>1. art.inventory \in Inventories
      BY <1>2 DEF ArtSet
    <3> QED
      BY <3>1, FilesType DEF Admissible, WellFormed
  <2> QED
    BY <1>3, <2>1, ArtType DEF MostRead
<1>7. art.item \in 1..(Len(Files) - 1) => art.sent < MostRead
  BY <1>3, ArtType DEF MostRead, Files
<1>8. \/ ArtLeaves(then)
      \/ then = ReadFile(art, 1) /\ art.sent < MostRead
      \/ then = ReadFile(art, art.item + 1) /\ art.sent < MostRead
  <2>1. CASE ~Genuine
    BY <1>2, <2>1
  <2>2. CASE Genuine /\ art.item = 0 /\ Admissible(art.inventory)
    BY <1>6, <2>2
  <2>3. CASE Genuine /\ art.item = 0 /\ ~Admissible(art.inventory)
    BY <1>2, <2>3
  <2>4. CASE Genuine /\ art.item # 0 /\ art.item \in 1..(Len(Files) - 1)
    BY <1>7, <2>4
  <2>5. CASE Genuine /\ art.item # 0 /\ art.item \notin 1..(Len(Files) - 1)
    <3>1. then = Acquired(art)
      BY <2>5
    <3> QED
      BY <1>4, <3>1
  <2> QED
    BY <2>1, <2>2, <2>3, <2>4, <2>5
<1> HIDE DEF then
<1>9. \/ art' = then /\ ~art.stopped
      \/ ArtLeaves(art')
  <2> DEFINE orphaned == [art EXCEPT !.orphans = @ + 1]
  <2>1. ArtLeaves(Fail(orphaned))
    <3>1. orphaned \in ArtSet /\ orphaned.sent = art.sent /\ orphaned.inventory = art.inventory
      BY <1>2 DEF ArtSet
    <3> HIDE DEF orphaned
    <3> QED
      BY <3>1, FailLeaves
  <2>2. \/ art' = Fail(orphaned)
        \/ art' = Fail(art)
        \/ ~art.stopped /\ art' = then
    BY <1>1, <1>2 DEF ArtAwaited, ArtSet
  <2> HIDE DEF orphaned
  <2> QED
    BY <1>2, <2>1, <2>2
<1> QED
  BY <1>2, <1>5, <1>8, <1>9, ArtMoves

\* The steps of the start.
LEMMA ArtStartsTake ==
    ASSUME ArtOK(art), Stages \/ Spawns \/ StartStopped \/ WorkerAnswers
    PROVE  ArtGoesOn(art')
<1>0. art \in ArtSet /\ ArtLeaves(Fail(art))
  BY ArtType, FailLeaves
<1>1. art.at \in {"modules", "staged", "starting"}
  BY DEF Stages, Spawns, StartStopped, WorkerAnswers
<1> DEFINE staged == [art EXCEPT !.at = "staged", !.held = @ \cup {"directory"}, !.staged = TRUE]
           removed == [art EXCEPT !.held = @ \ {"directory"}]
           starting == [art EXCEPT !.at = "starting"]
<1>2. ArtLeaves(staged) /\ ArtLeaves(starting)
  BY <1>0 DEF ArtLeaves, ArtSet
<1>3. ArtLeaves(Fail(removed))
  <2>1. art.held \ {"directory"} \in SUBSET Kept
    BY ArtType
  <2>2. removed \in ArtSet /\ removed.sent = art.sent /\ removed.inventory = art.inventory
    BY <1>0, <2>1 DEF ArtSet
  <2> HIDE DEF removed
  <2> QED
    BY <2>2, FailLeaves
<1>4. ArtLeaves(StartEnds(art, "value"))
  BY <1>0, StartEndsLeaves DEF ArtLeaves
<1>5. art' \in {Fail(art), staged, Fail(removed), starting, StartEnds(art, "value")}
  BY DEF Stages, Spawns, StartStopped, WorkerAnswers
<1> HIDE DEF staged, removed, starting
<1>6. ArtLeaves(art')
  BY <1>0, <1>2, <1>3, <1>4, <1>5
<1> QED
  BY <1>1, <1>6, ArtMoves

\* Every step of the acquisition and of the start is one that an exchange may take.
LEMMA ArtTakes == ASSUME ArtOK(art), ArtNext PROVE ArtGoesOn(art')
<1>0. art \in ArtSet
  BY ArtType
<1>1. CASE ArtRefused \/ ArtRequest \/ ArtFetched \/ ArtRead
  BY <1>1, ArtReadsTake
<1>2. CASE ArtDigested
  BY <1>2, ArtDigestTakes
<1>3. CASE Stages \/ Spawns \/ StartStopped \/ WorkerAnswers
  BY <1>3, ArtStartsTake
<1>4. ASSUME NEW at \in Acquiring, NEW S, Settle(at, S) PROVE ArtGoesOn(art')
  <2>1. PICK s \in S : art' = [art EXCEPT !.settled = s,
                                          !.held = @ \cup IF at = "fetch" THEN {"body"} ELSE {}]
    BY <1>4 DEF Settle
  <2>2. art.at \notin {"idle", "over"}
    BY <1>4 DEF Settle, Acquiring
  <2>3. ArtLeaves(art')
    BY <1>0, <2>1, <2>2 DEF ArtLeaves, ArtSet
  <2> QED
    BY <2>2, <2>3, ArtMoves
<1>5. CASE ArtResponds \/ ArtChunk \/ ArtDigests
  BY <1>4, <1>5 DEF ArtResponds, ArtChunk, ArtDigests, Acquiring
<1>6. CASE ArtRespondsLate \/ ArtElapse \/ ArtTimer \/ StartupTimer \/ ArtAbort
  <2>1. ArtSame(art')
    BY <1>0, <1>6 DEF ArtSame, ArtSet, ArtRespondsLate, ArtElapse, ArtTimer, StartupTimer, ArtAbort
  <2> QED
    BY <2>1, ArtStays
<1> QED
  BY <1>1, <1>2, <1>3, <1>5, <1>6 DEF ArtNext, ArtStep

\* An acquisition that is over keeps nothing, and what it told is true.
LEMMA ArtHonest ==
    ASSUME ArtOK(art), art.at = "over"
    PROVE  art.held = {} /\ Truthful(art.outcome, art.sent)
<1>1. Loading /\ art.held = {} /\ (art.outcome = "error" \/ (art.outcome = "value" /\ art.sent > 0))
  BY DEF ArtOK, ArtPart
<1> QED
  BY <1>1 DEF Truthful, Writing, Loading

-----------------------------------------------------------------------------
(* The proving assets *)

\* What a step of the load that begins no asset leaves, and what leaves nothing to tell.
ProveLeaves(y) == y.sent = prove.sent /\ y.at # "idle"
ProveSame(y) ==
    y.at = prove.at /\ y.sent = prove.sent /\ y.held = prove.held /\ y.outcome = prove.outcome

\* A step that begins the next asset, for an owner that has not been aborted.
ProveSends(y) == y.sent = prove.sent + 1 /\ y.at \notin {"idle", "over"} /\ ~cut /\ prove.sent < 2

\* A step that begins at most one asset is one that an exchange may take.
LEMMA ProveMoved ==
    ASSUME ProveLeaves(prove') \/ ProveSends(prove'), prove.at # "over"
    PROVE  Takes(prove, prove', 2)
  BY DEF ProveLeaves, ProveSends, Takes

\* So is one that changes nothing that is told.
LEMMA ProveStays == ASSUME ProveSame(prove') PROVE Takes(prove, prove', 2)
  BY DEF ProveSame, Takes

\* A failure begins no asset (ProveFails).
LEMMA ProveFailsLeave ==
    ASSUME NEW p \in ProveSet, p.sent = prove.sent
    PROVE  ProveLeaves(ProveFails(p))
  BY DEF ProveFails, ProveEnds, ProveLeaves, ProveSet

\* The next turn begins one (Proceed).
LEMMA ProceedBegins ==
    ASSUME NEW p \in ProveSet, NEW given, NEW held
    PROVE  /\ Proceed([p EXCEPT !.given = given, !.held = held]).sent = p.sent + 1
           /\ Proceed([p EXCEPT !.given = given, !.held = held]).at \notin {"idle", "over"}
<1> DEFINE next == [p EXCEPT !.given = given, !.held = held, !.asset = p.asset + 1,
                             !.sent = p.sent + 1, !.value = "none"]
           q == Proceed([p EXCEPT !.given = given, !.held = held])
           loader == [Silent EXCEPT !.at = IF p.options.loader = "package" THEN "head"
                                           ELSE "asked"]
<1>1. \/ q = [next EXCEPT !.at = "digest", !.value = "whole"]
      \/ q = [next EXCEPT !.at = "open"]
      \/ q = [next EXCEPT !.at = "ask", !.loader = loader]
  BY DEF Proceed, Ask, ProveSet
<1>2. next.sent = p.sent + 1 /\ "at" \in DOMAIN next /\ "sent" \in DOMAIN next
      /\ "value" \in DOMAIN next /\ "loader" \in DOMAIN next
  BY DEF ProveSet
<1>3. q.sent = p.sent + 1 /\ q.at \notin {"idle", "over"}
  <2> HIDE DEF loader, next, q
  <2>1. CASE q = [next EXCEPT !.at = "digest", !.value = "whole"]
    BY <1>2, <2>1
  <2>2. CASE q = [next EXCEPT !.at = "open"]
    BY <1>2, <2>2
  <2>3. CASE q = [next EXCEPT !.at = "ask", !.loader = loader]
    BY <1>2, <2>3
  <2> QED
    BY <1>1, <2>1, <2>2, <2>3
<1> HIDE DEF q
<1> QED
  BY <1>3 DEF q

\* The end of a turn: no asset after the second, and none for a caller that has given up
\* (Collect).
LEMMA CollectTakes ==
    ASSUME ProveOK(prove), NEW p \in ProveSet, p.sent = prove.sent, p.asset = prove.asset,
           prove.at \in Working
    PROVE  ProveLeaves(Collect(p)) \/ ProveSends(Collect(p))
<1> DEFINE given == Append(p.given, p.value)
           q == [p EXCEPT !.given = given]
<1>1. ProveLeaves(ProveFails(p))
  BY ProveFailsLeave
<1>2. prove.sent = prove.asset /\ prove.sent \in Nat
  BY ProveType DEF ProveBody, ProveSet
<1>3. q = [p EXCEPT !.given = given, !.held = p.held]
  BY DEF ProveSet
<1> HIDE DEF given
<1>4. Proceed(q).sent = p.sent + 1 /\ Proceed(q).at \notin {"idle", "over"}
  <2>1. /\ Proceed([p EXCEPT !.given = given, !.held = p.held]).sent = p.sent + 1
        /\ Proceed([p EXCEPT !.given = given, !.held = p.held]).at \notin {"idle", "over"}
    BY ProceedBegins
  <2> QED
    BY <1>3, <2>1
<1>5. ProveLeaves(ProveEnds(q, "value"))
  BY DEF ProveEnds, ProveLeaves, ProveSet
<1>6. \/ Collect(p) = ProveFails(p)
      \/ Collect(p) = ProveEnds(q, "value")
      \/ Collect(p) = Proceed(q) /\ ~cut /\ p.asset \in Asset /\ p.asset + 1 \in Asset
  BY DEF Collect, Stopped, given
<1> HIDE DEF q
<1> QED
  BY <1>1, <1>2, <1>4, <1>5, <1>6 DEF ProveSends, Asset

\* The first asset is begun (ProveStart).
LEMMA ProveBeginsTake == ASSUME ProveOK(prove), ProveRefused \/ ProveStart PROVE Takes(prove, prove', 2)
<1>1. prove \in ProveSet /\ prove.at = "idle" /\ prove.sent = 0
  BY ProveType DEF ProveRefused, ProveStart, ProveBody
<1>2. CASE ProveRefused
  BY <1>1, <1>2, ProveFailsLeave, ProveMoved DEF ProveRefused
<1>3. CASE ProveStart
  <2> DEFINE q == [prove EXCEPT !.held = {"signals"}]
  <2>1. q = [prove EXCEPT !.given = prove.given, !.held = {"signals"}]
    BY <1>1 DEF ProveSet
  <2>2. prove' = Proceed(q) /\ ~cut
    BY <1>3 DEF ProveStart, Stopped
  <2>3. /\ Proceed([prove EXCEPT !.given = prove.given, !.held = {"signals"}]).sent = prove.sent + 1
        /\ Proceed([prove EXCEPT !.given = prove.given, !.held = {"signals"}]).at
              \notin {"idle", "over"}
    BY <1>1, ProceedBegins
  <2> HIDE DEF q
  <2>4. ProveSends(prove')
    BY <1>1, <2>1, <2>2, <2>3 DEF ProveSends
  <2> QED
    BY <1>1, <2>4, ProveMoved
<1> QED
  BY <1>2, <1>3

\* The steps of a read from the cache.
LEMMA CacheTakes ==
    ASSUME ProveOK(prove), CacheOpened \/ CacheRead \/ CacheShut \/ CacheDigest
    PROVE  Takes(prove, prove', 2)
<1>1. prove \in ProveSet /\ prove.at \in Working /\ prove.at # "over"
  BY ProveType DEF CacheOpened, CacheRead, CacheShut, CacheDigest, ProveAwaited, Working, Storing
<1> DEFINE held == prove.held \ {"file"}
           shut == [prove EXCEPT !.held = held]
           loader == [Silent EXCEPT !.at = IF prove.options.loader = "package" THEN "head"
                                           ELSE "asked"]
           asked == [prove EXCEPT !.at = "ask", !.loader = loader]
<1>2. ProveLeaves(ProveFails(prove)) /\ ProveLeaves([prove EXCEPT !.at = "shut"])
  BY <1>1, ProveFailsLeave DEF ProveLeaves, ProveSet
<1>3. shut \in ProveSet /\ shut.sent = prove.sent
  <2>1. held \in SUBSET Handles
    BY <1>1 DEF ProveSet
  <2> HIDE DEF held
  <2> QED
    BY <1>1, <2>1 DEF ProveSet
<1>4. Ask(prove) = asked
  BY DEF Ask
<1> HIDE DEF held, loader
<1>5. ProveLeaves(Ask(prove))
  BY <1>1, <1>4 DEF ProveLeaves, ProveSet
<1>6. ProveLeaves([shut EXCEPT !.at = "digest"]) /\ ProveLeaves(ProveFails(shut))
  BY <1>3, ProveFailsLeave DEF ProveLeaves, ProveSet
<1>7. CASE CacheOpened
  <2> DEFINE read == [prove EXCEPT !.at = "read", !.held = prove.held \cup {"file"}]
  <2>1. ProveLeaves(read)
    BY <1>1 DEF ProveLeaves, ProveSet
  <2>2. prove' \in {ProveFails(prove), Ask(prove), read}
    BY <1>7 DEF CacheOpened, ProveAwaited
  <2> HIDE DEF read
  <2> QED
    BY <1>1, <1>2, <1>5, <2>1, <2>2, ProveMoved
<1>8. CASE CacheRead
  <2> DEFINE value == IF OnDisk = "short" THEN "none" ELSE OnDisk
             full == [prove EXCEPT !.at = "shut", !.value = value]
  <2>1. prove' \in {[prove EXCEPT !.at = "shut"], full}
    BY <1>8 DEF CacheRead, ProveAwaited
  <2> HIDE DEF value
  <2>2. ProveLeaves(full)
    BY <1>1 DEF ProveLeaves, ProveSet
  <2> QED
    BY <1>1, <1>2, <2>1, <2>2, ProveMoved
<1>9. CASE CacheShut
  <2>1. prove' \in {ProveFails(shut), [shut EXCEPT !.at = "digest"]}
    BY <1>9 DEF CacheShut, ProveAwaited, held
  <2> HIDE DEF shut
  <2> QED
    BY <1>1, <1>6, <2>1, ProveMoved
<1>10. CASE CacheDigest
  <2>1. prove' \in {ProveFails(prove), Collect(prove)}
    BY <1>10 DEF CacheDigest, ProveAwaited
  <2> QED
    BY <1>1, <1>2, <2>1, CollectTakes, ProveMoved
<1> QED
  BY <1>7, <1>8, <1>9, <1>10

\* The callback answers: to a load that waits for it, or to none.
LEMMA DeliverTakes ==
    ASSUME ProveOK(prove), NEW content, prove' = Deliver(prove, content)
    PROVE  Takes(prove, prove', 2)
<1> DEFINE answered == [prove EXCEPT !.loader = Silent]
           taken == [answered EXCEPT !.at = "verify", !.value = content]
<1>1. prove \in ProveSet
  BY ProveType
<1>2. Silent \in LoaderSet
  BY DEF Silent, LoaderSet
<1>3. answered \in ProveSet /\ answered.sent = prove.sent /\ ProveSame(answered)
  BY <1>1, <1>2 DEF ProveSet, ProveSame
<1>4. CASE prove.at # "ask"
  BY <1>3, <1>4, ProveStays DEF Deliver
<1>5. CASE prove.at = "ask"
  <2>1. prove' \in {ProveFails(answered), taken}
    BY <1>5 DEF Deliver
  <2>2. ProveLeaves(taken)
    BY <1>3 DEF ProveLeaves, ProveSet
  <2>3. ProveLeaves(ProveFails(answered))
    BY <1>3, ProveFailsLeave
  <2> HIDE DEF answered, taken
  <2> QED
    BY <1>5, <2>1, <2>2, <2>3, ProveMoved
<1> QED
  BY <1>4, <1>5

\* The steps of the loader.
LEMMA LoaderTakes ==
    ASSUME ProveOK(prove),
           ProveStopped \/ PackageCut \/ PackageOpened \/ PackageChunk \/ ApplicationAnswers
    PROVE  Takes(prove, prove', 2)
<1>1. prove \in ProveSet /\ prove.loader \in LoaderSet
  BY ProveType
<1>2. CASE ProveStopped
  BY <1>1, <1>2, ProveFailsLeave, ProveMoved DEF ProveStopped
<1>3. ASSUME NEW content, prove' = Deliver(prove, content) PROVE Takes(prove, prove', 2)
  BY <1>3, DeliverTakes
<1>4. CASE PackageCut
  BY <1>3, <1>4 DEF PackageCut
<1>5. CASE ApplicationAnswers
  BY <1>3, <1>5 DEF ApplicationAnswers
<1>6. ASSUME NEW loader, prove' = [prove EXCEPT !.loader = loader] PROVE Takes(prove, prove', 2)
  <2>1. ProveSame(prove')
    BY <1>1, <1>6 DEF ProveSame, ProveSet
  <2> QED
    BY <2>1, ProveStays
<1>7. CASE PackageOpened
  <2>1. [prove EXCEPT !.loader.at = "body"]
           = [prove EXCEPT !.loader = [prove.loader EXCEPT !.at = "body"]]
    BY <1>1 DEF ProveSet
  <2>2. PICK y \in {Deliver(prove, "failed"), [prove EXCEPT !.loader.at = "body"]} : prove' = y
    BY <1>7 DEF PackageOpened
  <2> QED
    BY <1>3, <1>6, <2>1, <2>2
<1>8. CASE PackageChunk
  <2>1. ASSUME NEW altered \in BOOLEAN
        PROVE  [prove EXCEPT !.loader.size = @ + 1, !.loader.altered = @ \/ altered]
                 = [prove EXCEPT !.loader = [prove.loader EXCEPT !.size = prove.loader.size + 1,
                                                !.altered = (prove.loader.altered \/ altered)]]
    BY <1>1 DEF ProveSet, LoaderSet
  <2>2. \/ \E content : prove' = Deliver(prove, content)
        \/ \E altered \in BOOLEAN :
              prove' = [prove EXCEPT !.loader.size = @ + 1, !.loader.altered = @ \/ altered]
    BY <1>8 DEF PackageChunk
  <2> QED
    BY <1>3, <1>6, <2>1, <2>2
<1> QED
  BY <1>2, <1>4, <1>5, <1>7, <1>8

\* What is stored changes the cache alone (Store).
LEMMA StoreLeaves ==
    ASSUME ProveOK(prove), prove.at \in {"put", "rename"}
    PROVE  /\ Store(prove) \in ProveSet /\ Store(prove).sent = prove.sent
           /\ Store(prove).asset = prove.asset
<1> DEFINE disk == [prove.disk EXCEPT ![prove.asset] = "whole"]
<1>1. prove \in ProveSet
  BY ProveType
<1>2. Store(prove) = [prove EXCEPT !.disk = disk]
  BY <1>1 DEF Store, ProveSet
<1> HIDE DEF disk
<1>3. Store(prove).sent = prove.sent
  BY <1>1, <1>2 DEF ProveSet
<1> QED
  BY <1>3, StoreKeeps

\* What was loaded is verified, and stored or collected (LoadDigest).
LEMMA DigestTakes == ASSUME ProveOK(prove), LoadDigest PROVE Takes(prove, prove', 2)
<1> DEFINE memory == prove.memory \cup {prove.asset}
           q == [prove EXCEPT !.memory = memory]
           directory == [prove EXCEPT !.at = "directory"]
<1>1. prove \in ProveSet /\ prove.at = "verify" /\ prove.at \in Working /\ prove.asset \in Asset
  BY ProveType DEF LoadDigest, ProveAwaited, ProveBody, Working
<1>2. memory \in SUBSET Asset
  BY <1>1 DEF ProveSet
<1>3. prove' \in {ProveFails(prove), directory, Collect(q)}
  BY DEF LoadDigest, ProveAwaited
<1> HIDE DEF memory
<1>4. q \in ProveSet /\ q.sent = prove.sent /\ q.asset = prove.asset
  BY <1>1, <1>2 DEF ProveSet
<1> HIDE DEF q
<1>5. ProveLeaves(Collect(q)) \/ ProveSends(Collect(q))
  BY <1>1, <1>4, CollectTakes
<1>6. ProveLeaves(directory) /\ ProveLeaves(ProveFails(prove))
  BY <1>1, ProveFailsLeave DEF ProveLeaves, ProveSet
<1> HIDE DEF directory
<1> QED
  BY <1>1, <1>3, <1>5, <1>6, ProveMoved

\* The steps of a write to the cache.
LEMMA WriteTakes ==
    ASSUME ProveOK(prove), DirectoryMade \/ EntryPut \/ TemporaryWritten \/ Renamed \/ Unlinked
    PROVE  Takes(prove, prove', 2)
<1>1. prove \in ProveSet /\ prove.at \in Working /\ prove.at # "over"
  BY ProveType DEF DirectoryMade, EntryPut, TemporaryWritten, Renamed, Unlinked, ProveAwaited,
                   Working, Storing
<1>2. ProveLeaves(ProveFails(prove))
  BY <1>1, ProveFailsLeave
<1>3. ASSUME NEW p \in ProveSet, p.sent = prove.sent, NEW value PROVE ProveLeaves(Tidy(p, value))
  BY <1>3 DEF Tidy, ProveLeaves, ProveSet
<1>4. CASE DirectoryMade
  <2> DEFINE write == [prove EXCEPT !.at = "write", !.held = prove.held \cup {"temporary"},
                                    !.temporary = "part"]
             put == [prove EXCEPT !.at = "put"]
  <2>1. prove' \in {ProveFails(prove), write, put}
    BY <1>4 DEF DirectoryMade, ProveAwaited
  <2>2. ProveLeaves(write) /\ ProveLeaves(put)
    BY <1>1 DEF ProveLeaves, ProveSet
  <2> HIDE DEF write, put
  <2> QED
    BY <1>1, <1>2, <2>1, <2>2, ProveMoved
<1>5. CASE EntryPut
  <2>1. prove.at = "put" /\ prove' \in {ProveFails(prove), Collect(Store(prove))}
    BY <1>5 DEF EntryPut, ProveAwaited
  <2>2. ProveLeaves(Collect(Store(prove))) \/ ProveSends(Collect(Store(prove)))
    BY <1>1, <2>1, StoreLeaves, CollectTakes
  <2> QED
    BY <1>1, <1>2, <2>1, <2>2, ProveMoved
<1>6. CASE TemporaryWritten
  <2> DEFINE whole == [prove EXCEPT !.temporary = "whole"]
             rename == [prove EXCEPT !.at = "rename", !.temporary = "whole"]
  <2>1. prove' \in {Tidy(prove, "none"), Tidy(whole, "none"), rename}
    BY <1>6 DEF TemporaryWritten, ProveAwaited
  <2>2. whole \in ProveSet /\ whole.sent = prove.sent
    BY <1>1 DEF ProveSet
  <2>3. ProveLeaves(rename)
    BY <1>1 DEF ProveLeaves, ProveSet
  <2> HIDE DEF whole, rename
  <2>4. ProveLeaves(Tidy(prove, "none")) /\ ProveLeaves(Tidy(whole, "none"))
    BY <1>1, <1>3, <2>2
  <2> QED
    BY <1>1, <2>1, <2>3, <2>4, ProveMoved
<1>7. CASE Renamed
  <2> DEFINE stored == [Store(prove) EXCEPT !.temporary = "none"]
  <2>1. prove.at = "rename" /\ prove' \in {Tidy(prove, "none"), Tidy(stored, "whole")}
    BY <1>7 DEF Renamed, ProveAwaited
  <2>2. Store(prove) \in ProveSet /\ Store(prove).sent = prove.sent
    BY <2>1, StoreLeaves
  <2>3. stored \in ProveSet /\ stored.sent = prove.sent
    BY <2>2 DEF ProveSet
  <2> HIDE DEF stored
  <2>4. ProveLeaves(Tidy(prove, "none")) /\ ProveLeaves(Tidy(stored, "whole"))
    BY <1>1, <1>3, <2>3
  <2> QED
    BY <1>1, <2>1, <2>4, ProveMoved
<1>8. CASE Unlinked
  <2> DEFINE held == prove.held \ {"temporary"}
             tidy == [prove EXCEPT !.held = held]
             gone == [tidy EXCEPT !.temporary = "none"]
  <2>1. prove' \in {ProveFails(tidy), Collect(tidy), ProveFails(gone), Collect(gone)}
    BY <1>8 DEF Unlinked, ProveAwaited
  <2>2. held \in SUBSET Handles
    BY <1>1 DEF ProveSet
  <2> HIDE DEF held
  <2>3. tidy \in ProveSet /\ tidy.sent = prove.sent /\ tidy.asset = prove.asset
    BY <1>1, <2>2 DEF ProveSet
  <2> HIDE DEF tidy
  <2>4. gone \in ProveSet /\ gone.sent = prove.sent /\ gone.asset = prove.asset
    BY <2>3 DEF ProveSet
  <2> HIDE DEF gone
  <2>5. ProveLeaves(ProveFails(tidy)) /\ ProveLeaves(ProveFails(gone))
    BY <2>3, <2>4, ProveFailsLeave
  <2>6. ProveLeaves(Collect(tidy)) \/ ProveSends(Collect(tidy))
    BY <1>1, <2>3, CollectTakes
  <2>7. ProveLeaves(Collect(gone)) \/ ProveSends(Collect(gone))
    BY <1>1, <2>4, CollectTakes
  <2> QED
    BY <1>1, <2>1, <2>5, <2>6, <2>7, ProveMoved
<1> QED
  BY <1>4, <1>5, <1>6, <1>7, <1>8

\* Every step of a load of the proving assets is one that an exchange may take.
LEMMA ProveTakes == ASSUME ProveOK(prove), ProveNext PROVE Takes(prove, prove', 2)
<1>0. prove \in ProveSet
  BY ProveType
<1>1. CASE ProveRefused \/ ProveStart
  BY <1>1, ProveBeginsTake
<1>2. CASE CacheOpened \/ CacheRead \/ CacheShut \/ CacheDigest
  BY <1>2, CacheTakes
<1>3. CASE ProveStopped \/ PackageCut \/ PackageOpened \/ PackageChunk \/ ApplicationAnswers
  BY <1>3, LoaderTakes
<1>4. CASE LoadDigest
  BY <1>4, DigestTakes
<1>5. CASE DirectoryMade \/ EntryPut \/ TemporaryWritten \/ Renamed \/ Unlinked
  BY <1>5, WriteTakes
<1>6. CASE AssetsClosed \/ CloseAssets \/ ProveAbort
  <2>1. ProveSame(prove')
    BY <1>0, <1>6 DEF ProveSame, ProveSet, AssetsClosed, CloseAssets, ProveAbort
  <2> QED
    BY <2>1, ProveStays
<1>7. CASE OtherStores
  <2>1. PICK i \in Asset : prove' = [prove EXCEPT !.disk[i] = "whole"]
    BY <1>7 DEF OtherStores
  <2>2. prove' = [prove EXCEPT !.disk = [prove.disk EXCEPT ![i] = "whole"]]
    BY <1>0, <2>1 DEF ProveSet
  <2>3. ProveSame(prove')
    BY <1>0, <2>2 DEF ProveSame, ProveSet
  <2> QED
    BY <2>3, ProveStays
<1> QED
  BY <1>1, <1>2, <1>3, <1>4, <1>5, <1>6, <1>7 DEF ProveNext, ProveStep

\* A load that is over holds nothing, and what it told is true.
LEMMA ProveHonest ==
    ASSUME ProveOK(prove), prove.at = "over"
    PROVE  prove.held = {} /\ Truthful(prove.outcome, prove.sent)
<1>1. Proving /\ prove.held = {}
      /\ (prove.outcome = "error" \/ (prove.outcome = "value" /\ prove.sent > 0))
  BY DEF ProveOK, ProveBody, HeldAt
<1> QED
  BY <1>1 DEF Truthful, Writing, Proving

-----------------------------------------------------------------------------
(* The parts together *)

\* The exchanges, by the part that makes them.
Loads == {"artifacts"}
Proofs == {"proving"}
Exchanges == Http \cup Web \cup Rpc \cup Light \cup PublicExchanges \cup Loads \cup Proofs

\* What a step of the exchanges S does to the caller, and to the server's answer; y is what
\* the exchange x becomes.
CallerMoves(S, x, y) ==
    /\ exchange' = exchange
    /\ cut => cut'
    /\ UNCHANGED caller \/ exchange \in S
    /\ \/ served' = served
       \/ served = "none" /\ served' \in {"accepted", "refused"} /\ x.sent > 0 /\ y = x

\* Of a JSON-RPC call: only its own abort and its own server touch the caller.
LEMMA HttpCaller == ASSUME HttpNext PROVE CallerMoves(Http, http, http')
<1>1. CASE HttpAbort
  BY <1>1 DEF HttpAbort, CallerMoves, Http
<1>2. CASE HttpServe
  BY <1>2 DEF HttpServe, Sending, Serve, CallerMoves, Http
<1>3. CASE ~HttpAbort /\ ~HttpServe
  <2>1. UNCHANGED caller
    BY <1>3 DEF HttpNext, HttpStep, Refused, Request, Headers, Fetched, Read, DelayEnds, Supplied,
                Responded, Answered, RespondedLate, Elapse, Timer
  <2> QED
    BY <2>1 DEF CallerMoves, caller
<1> QED
  BY <1>1, <1>2, <1>3

\* Of a call on gRPC-web.
LEMMA WebCaller == ASSUME WebNext PROVE CallerMoves(Web, web, web')
<1>1. CASE WebAbort
  BY <1>1 DEF WebAbort, CallerMoves, Web
<1>2. CASE ~WebAbort
  <2>1. UNCHANGED caller
    BY <1>2 DEF WebNext, WebStep, WebRefused, Start, Pull, Unary, Return, WebHeaders, WebFetched,
                WebRead, Decode, MoreBytes, WebSupplied, WebResponded, Chunk, BodyEnds, WebElapse,
                WebTimer, caller
  <2> QED
    BY <2>1 DEF CallerMoves, caller
<1> QED
  BY <1>1, <1>2

\* Of a call on gRPC.
LEMMA RpcCaller == ASSUME RpcNext PROVE CallerMoves(Rpc, rpc, rpc')
<1>1. CASE RpcAbort
  BY <1>1 DEF RpcAbort, CallerMoves, Rpc
<1>2. CASE RpcServe
  BY <1>2 DEF RpcServe, Serve, CallerMoves, Rpc
<1>3. CASE ~RpcAbort /\ ~RpcServe
  <2>1. UNCHANGED caller
    BY <1>3 DEF RpcNext, RpcStep, RpcRefused, Open, Platform, Channel, Dispatch, Replying, Item,
                Status, RpcDelayEnds, PullNext, Returned, Loaded, Replied, Finished, RpcElapse,
                RpcTimer
  <2> QED
    BY <2>1 DEF CallerMoves, caller
<1> QED
  BY <1>1, <1>2, <1>3

\* Of a call of the light client.
LEMMA LightCaller == ASSUME LightNext PROVE CallerMoves(Light, light, light')
<1>1. CASE LightAbort
  BY <1>1 DEF LightAbort, CallerMoves, Light
<1>2. CASE LightServe
  BY <1>2 DEF LightServe, Serve, CallerMoves, Light, LightUnary
<1>3. CASE ~LightAbort /\ ~LightServe
  <2>1. UNCHANGED caller
    BY <1>3 DEF LightNext, LightStep, LightRefused, LightOpen, Identity, Genesis, Verified,
                DecodeTransaction, Awaited, CallTransport, Iterable, Iterator, Pulled, Project,
                ReadReply, TipReply, TreeReply, UtxosReply, TransactionReply, SendReply, LightPull,
                LightReturn, Prepared, Pushed, LightReplied
  <2> QED
    BY <2>1 DEF CallerMoves, caller
<1> QED
  BY <1>1, <1>2, <1>3

\* Of a call of the public client.
LEMMA PubCaller == ASSUME PubNext PROVE CallerMoves(PublicExchanges, pub, pub')
<1>1. CASE PubAbort
  BY <1>1 DEF PubAbort, CallerMoves, Public
<1>2. CASE ~PubAbort
  <2>1. UNCHANGED caller
    BY <1>2 DEF PubNext, PubStep, PubRead, PubRefused, PubOpen, PubReady, ReadFails, FirstTip,
                Utxos, Transaction, Block, Tree, Header, Roots, Root, RootsRead, SecondTip, Poll,
                WaitEnds, PubReturned, WaitElapses, Reorganize
  <2> QED
    BY <2>1 DEF CallerMoves, caller
<1> QED
  BY <1>1, <1>2

\* Of an acquisition.
LEMMA ArtCaller == ASSUME ArtNext PROVE CallerMoves(Loads, art, art')
<1>1. CASE ArtAbort
  BY <1>1 DEF ArtAbort, CallerMoves, Loads, Loading
<1>2. CASE ~ArtAbort
  <2>1. UNCHANGED caller
    BY <1>2 DEF ArtNext, ArtStep, ArtRefused, ArtRequest, ArtFetched, ArtRead, ArtDigested, Stages,
                Spawns, StartStopped, ArtAwaited, ArtResponds, ArtChunk, ArtDigests, Settle,
                ArtRespondsLate, WorkerAnswers, ArtElapse, ArtTimer, StartupTimer
  <2> QED
    BY <2>1 DEF CallerMoves, caller
<1> QED
  BY <1>1, <1>2

\* Of a load of the proving assets.
LEMMA ProveCaller == ASSUME ProveNext PROVE CallerMoves(Proofs, prove, prove')
<1>1. CASE ProveAbort
  BY <1>1 DEF ProveAbort, CallerMoves, Proofs, Proving
<1>2. CASE ~ProveAbort
  <2>1. UNCHANGED caller
    BY <1>2 DEF ProveNext, ProveStep, ProveRefused, ProveStart, ProveStopped, PackageCut, AssetsClosed,
                CacheOpened, CacheRead, CacheShut, CacheDigest, LoadDigest, DirectoryMade, EntryPut,
                TemporaryWritten, Renamed, Unlinked, ProveAwaited, PackageOpened, PackageChunk,
                ApplicationAnswers, CloseAssets, OtherStores
  <2> QED
    BY <2>1 DEF CallerMoves, caller
<1> QED
  BY <1>1, <1>2

-----------------------------------------------------------------------------

\* A step of other exchanges leaves what is known of one: its caller is as it was, or it
\* has not begun.
Apart(S) == exchange' = exchange /\ (UNCHANGED caller \/ exchange \notin S)

\* What is known of a JSON-RPC call stays true in the steps of others.
LEMMA HttpApart == ASSUME HttpOK(http), http' = http, Apart(Http) PROVE HttpOK(http)'
<1>1. CASE UNCHANGED caller
  BY <1>1, HttpCalm
<1>2. CASE exchange \notin Http
  <2>1. http.at = "idle"
    BY <1>2 DEF HttpOK
  <2> QED
    BY <1>2, <2>1 DEF Apart, HttpOK, HttpSent, Sending, Http
<1> QED
  BY <1>1, <1>2 DEF Apart

\* And of a call on gRPC-web.
LEMMA WebApart ==
    ASSUME WebOK(web, frame, wire), UNCHANGED <<web, frame, wire>>, Apart(Web)
    PROVE  WebOK(web, frame, wire)'
<1>1. WebData(web, frame, wire)'
  BY DEF WebOK, WebData
<1>2. CASE UNCHANGED caller
  BY <1>1, <1>2 DEF WebOK, WebBody, caller
<1>3. CASE exchange \notin Web
  <2>1. web.at = "idle"
    BY <1>3 DEF WebOK, WebBody, Web
  <2> QED
    BY <1>1, <1>3, <2>1 DEF Apart, WebOK, WebBody
<1> QED
  BY <1>2, <1>3 DEF Apart

\* And of a call on gRPC.
LEMMA RpcApart == ASSUME RpcOK(rpc), rpc' = rpc, Apart(Rpc) PROVE RpcOK(rpc)'
<1>1. CASE UNCHANGED caller
  BY <1>1 DEF RpcOK, RpcSent, Answers, Streaming, Truthful, Writing, caller
<1>2. CASE exchange \notin Rpc
  <2>1. rpc.at = "idle"
    BY <1>2 DEF RpcOK
  <2> QED
    BY <1>2, <2>1 DEF Apart, RpcOK, RpcSent
<1> QED
  BY <1>1, <1>2 DEF Apart

\* And of a call of the light client.
LEMMA LightApart == ASSUME LightOK(light), light' = light, Apart(Light) PROVE LightOK(light)'
<1>1. CASE UNCHANGED caller
  BY <1>1 DEF LightOK, LightBelongs, Replies, Truthful, Writing, caller
<1>2. CASE exchange \notin Light
  <2>1. light.at = "idle" /\ light.outcome = "none"
    BY <1>2 DEF LightOK, LightBelongs, Light
  <2> QED
    BY <1>2, <2>1 DEF Apart, LightOK, LightBelongs, Replies
<1> QED
  BY <1>1, <1>2 DEF Apart

\* And of a call of the public client.
LEMMA PubApart ==
    ASSUME PubOK(pub, best), UNCHANGED <<pub, best>>, Apart(PublicExchanges)
    PROVE  PubOK(pub, best)'
  BY DEF Apart, PubOK, Belongs, AnswerTrue

\* And of an acquisition.
LEMMA ArtApart == ASSUME ArtOK(art), art' = art, Apart(Loads) PROVE ArtOK(art)'
<1>1. CASE UNCHANGED caller
  BY <1>1 DEF ArtOK, ArtPart, Loading, caller
<1>2. CASE exchange \notin Loads
  <2>1. art.at = "idle"
    BY <1>2 DEF ArtOK, Loads, Loading
  <2> QED
    BY <1>2, <2>1 DEF Apart, ArtOK, ArtPart, Acquiring, Starts
<1> QED
  BY <1>1, <1>2 DEF Apart

\* And of a load of the proving assets.
LEMMA ProveApart == ASSUME ProveOK(prove), prove' = prove, Apart(Proofs) PROVE ProveOK(prove)'
  BY DEF Apart, ProveOK, ProveBody, Proving

-----------------------------------------------------------------------------

\* What is known of every part.
EndpointsOK ==
    /\ exchange \in Exchanges
    /\ HttpOK(http)
    /\ WebOK(web, frame, wire)
    /\ RpcOK(rpc)
    /\ LightOK(light)
    /\ PubOK(pub, best)
    /\ ArtOK(art)
    /\ ProveOK(prove)

\* The exchanges of the parts are their own.
LEMMA Disjoint ==
    /\ Http \cap Web = {} /\ Http \cap Rpc = {} /\ Http \cap Light = {}
    /\ Http \cap PublicExchanges = {} /\ Http \cap Loads = {} /\ Http \cap Proofs = {}
    /\ Web \cap Rpc = {} /\ Web \cap Light = {} /\ Web \cap PublicExchanges = {}
    /\ Web \cap Loads = {} /\ Web \cap Proofs = {}
    /\ Rpc \cap Light = {} /\ Rpc \cap PublicExchanges = {} /\ Rpc \cap Loads = {}
    /\ Rpc \cap Proofs = {}
    /\ Light \cap PublicExchanges = {} /\ Light \cap Loads = {} /\ Light \cap Proofs = {}
    /\ PublicExchanges \cap Loads = {} /\ PublicExchanges \cap Proofs = {}
    /\ Loads \cap Proofs = {}
  BY DEF Http, Web, Rpc, Light, LightStreams, LightUnary, PublicExchanges, Loads, Proofs

\* A step of one part, for the others.
LEMMA OthersApart ==
    ASSUME NEW S, NEW x, NEW y, CallerMoves(S, x, y), NEW T, S \cap T = {}
    PROVE  Apart(T)
  BY DEF CallerMoves, Apart

-----------------------------------------------------------------------------

\* The states of one exchange.
Limit == CASE Loading -> 1 + Len(Files) [] Proving -> 2 [] OTHER -> Attempts

\* A step of the exchange at work: it takes what an exchange may, and tells the truth.
Acts(x, y, most) ==
    /\ Takes(x, y, most)
    /\ x.at # "over" => x.outcome = "none"
    /\ y.at # "over" => y.outcome = "none"
    /\ x.at # "over" /\ y.at = "over" => y.held = {} /\ Truthful(y.outcome, y.sent)

\* What EndpointCall sees of the exchange is x.
Seen(x) == At = x.at /\ Part.sent = x.sent /\ Part.outcome = x.outcome /\ Part.held = x.held

\* A step that an exchange may take, and that tells the truth, is a step of EndpointCall: a
\* transaction is sent at most once, nothing is sent after an abort, and what is over holds
\* nothing.
LEMMA ActsImplement ==
    ASSUME NEW S, NEW x, NEW y, CallerMoves(S, x, y), Acts(x, y, IF Writing THEN 1 ELSE Limit),
           Seen(x), At' = y.at, Part.sent' = y.sent, Part.outcome' = y.outcome, Part.held' = y.held,
           Limit' = Limit
    PROVE  Call!Next
<1> DEFINE write == exchange \in {"http.send", "rpc.send", "light.send"}
<1>1. exchange' = exchange /\ (cut => cut')
  BY DEF CallerMoves
<1>2. Part.sent' = Part.sent \/ Call!Send
  <2>1. CASE y.sent = x.sent
    BY <2>1 DEF Seen
  <2>2. CASE y.sent # x.sent
    <3>1. /\ y.sent = x.sent + 1 /\ ~cut /\ x.sent < (IF Writing THEN 1 ELSE Limit)
          /\ y.at \notin {"idle", "over"} /\ x.at # "over"
      BY <2>2 DEF Acts, Takes
    <3> QED
      BY <3>1 DEF Call!Send, Seen, Writing, Limit
  <2> QED
    BY <2>1, <2>2
<1>3. \/ served' = served
      \/ served = "none" /\ Part.sent > 0 /\ served' \in {"accepted", "refused"}
  BY DEF CallerMoves, Seen
<1>4. CASE x.at = "over"
  <2>1. At' = At /\ Part.outcome' = Part.outcome /\ Part.held' = Part.held /\ At = "over"
    BY <1>4 DEF Acts, Takes, Seen
  <2> QED
    BY <1>1, <1>2, <1>3, <2>1 DEF Call!Next, Limit
<1>5. CASE x.at # "over" /\ y.at = "over"
  <2>1. Call!Honest(Part.outcome') /\ Part.held' = {} /\ At' = "over" /\ At # "over"
    <3>1. Truthful(y.outcome, y.sent) /\ y.sent = x.sent
      BY <1>5 DEF Acts, Takes
    <3> QED
      BY <1>5, <3>1 DEF Acts, Seen, Call!Honest, Truthful, Writing
  <2> QED
    BY <1>1, <1>2, <1>3, <2>1 DEF Call!Next, Limit
<1>6. CASE x.at # "over" /\ y.at # "over"
  <2>1. /\ Part.outcome' = Part.outcome /\ At # "over" /\ At' # "over"
        /\ At' = "idle" => At = "idle" /\ Part.held' = Part.held
    BY <1>6 DEF Acts, Takes, Seen
  <2> QED
    BY <1>1, <1>2, <1>3, <2>1 DEF Call!Next, Limit
<1> QED
  BY <1>4, <1>5, <1>6

\* A step that changes neither the exchange nor its caller is none of EndpointCall.
LEMMA Stutters ==
    ASSUME UNCHANGED caller, At' = At, Part' = Part, Limit' = Limit
    PROVE  UNCHANGED Call!call
  BY DEF Call!call, caller, Limit

\* A step of the JSON-RPC transport keeps what is known of every part, and is one of
\* EndpointCall.
LEMMA HttpActs ==
    ASSUME EndpointsOK, HttpNext, UNCHANGED <<web, frame, wire, rpc, light, pub, best, art, prove>>
    PROVE  EndpointsOK' /\ [Call!Next]_(Call!call)
<1>1. CallerMoves(Http, http, http')
  BY HttpCaller
<1>2. exchange' = exchange /\ exchange \in Exchanges /\ HttpOK(http)
  BY <1>1 DEF CallerMoves, EndpointsOK
<1>3. HttpOK(http)'
  BY <1>2, HttpStepOK
<1>4. WebOK(web, frame, wire)'
  BY <1>1, Disjoint, OthersApart, WebApart DEF EndpointsOK
<1>5. RpcOK(rpc)'
  BY <1>1, Disjoint, OthersApart, RpcApart DEF EndpointsOK
<1>6. LightOK(light)'
  BY <1>1, Disjoint, OthersApart, LightApart DEF EndpointsOK
<1>7. PubOK(pub, best)'
  BY <1>1, Disjoint, OthersApart, PubApart DEF EndpointsOK
<1>8. ArtOK(art)'
  BY <1>1, Disjoint, OthersApart, ArtApart DEF EndpointsOK
<1>9. ProveOK(prove)'
  BY <1>1, Disjoint, OthersApart, ProveApart DEF EndpointsOK
<1>10. EndpointsOK'
  BY <1>2, <1>3, <1>4, <1>5, <1>6, <1>7, <1>8, <1>9 DEF EndpointsOK
<1>11. CASE exchange \notin Http
  <2>1. UNCHANGED caller
    BY <1>1, <1>11 DEF CallerMoves
  <2>2. At' = At /\ Part' = Part /\ Limit' = Limit
    BY <1>2, <1>11 DEF At, Part, Limit, Loading, Proving, Files
  <2> QED
    BY <1>10, <2>1, <2>2, Stutters
<1>12. CASE exchange \in Http
  <2>1. Seen(http)
    BY <1>12, Disjoint DEF Seen, At, Part, Loading, Proving, Loads, Proofs
  <2>2. /\ At' = http'.at /\ Part.sent' = http'.sent /\ Part.outcome' = http'.outcome
        /\ Part.held' = http'.held
    BY <1>2, <1>12, Disjoint DEF At, Part, Loading, Proving, Loads, Proofs
  <2>3. Limit' = Limit /\ Limit = Attempts
    BY <1>2, <1>12, Disjoint DEF Limit, Loading, Proving, Loads, Proofs
  <2>4. Takes(http, http', IF Writing THEN 1 ELSE Limit)
    BY <1>2, <2>3, HttpStepOK DEF MostSent
  <2>5. (http.at # "over" => http.outcome = "none") /\ (http'.at # "over" => http'.outcome = "none")
    BY <1>2, <1>3 DEF HttpOK
  <2>6. http.at # "over" /\ http'.at = "over" =>
          http'.held = {} /\ Truthful(http'.outcome, http'.sent)
    <3> SUFFICES ASSUME http.at # "over", http'.at = "over"
                 PROVE  http'.held = {} /\ Truthful(http'.outcome, http'.sent)
      OBVIOUS
    <3>1. http'.held = {} /\ Truthful(http.outcome, http.sent)'
      BY <1>3 DEF HttpOK
    <3>2. served' = served
      BY <1>1 DEF CallerMoves
    <3> QED
      BY <1>2, <3>1, <3>2 DEF Truthful, Writing
  <2>7. Acts(http, http', IF Writing THEN 1 ELSE Limit)
    BY <2>4, <2>5, <2>6 DEF Acts
  <2> QED
    BY <1>1, <1>10, <2>1, <2>2, <2>3, <2>7, ActsImplement
<1> QED
  BY <1>11, <1>12

\* So is a step of the gRPC-web transport.
LEMMA WebActs ==
    ASSUME EndpointsOK, WebNext, UNCHANGED <<http, rpc, light, pub, best, art, prove>>
    PROVE  EndpointsOK' /\ [Call!Next]_(Call!call)
<1>1. CallerMoves(Web, web, web')
  BY WebCaller
<1>2. exchange' = exchange /\ exchange \in Exchanges /\ WebOK(web, frame, wire)
  BY <1>1 DEF CallerMoves, EndpointsOK
<1>3. WebOK(web, frame, wire)'
  BY <1>2, WebStepOK
<1>4. HttpOK(http)'
  BY <1>1, Disjoint, OthersApart, HttpApart DEF EndpointsOK
<1>5. RpcOK(rpc)'
  BY <1>1, Disjoint, OthersApart, RpcApart DEF EndpointsOK
<1>6. LightOK(light)'
  BY <1>1, Disjoint, OthersApart, LightApart DEF EndpointsOK
<1>7. PubOK(pub, best)'
  BY <1>1, Disjoint, OthersApart, PubApart DEF EndpointsOK
<1>8. ArtOK(art)'
  BY <1>1, Disjoint, OthersApart, ArtApart DEF EndpointsOK
<1>9. ProveOK(prove)'
  BY <1>1, Disjoint, OthersApart, ProveApart DEF EndpointsOK
<1>10. EndpointsOK'
  BY <1>2, <1>3, <1>4, <1>5, <1>6, <1>7, <1>8, <1>9 DEF EndpointsOK
<1>11. CASE exchange \notin Web
  <2>1. UNCHANGED caller
    BY <1>1, <1>11 DEF CallerMoves
  <2>2. At' = At /\ Part' = Part /\ Limit' = Limit
    BY <1>2, <1>11 DEF At, Part, Limit, Loading, Proving, Files
  <2> QED
    BY <1>10, <2>1, <2>2, Stutters
<1>12. CASE exchange \in Web
  <2>1. Seen(web)
    BY <1>12, Disjoint DEF Seen, At, Part, Loading, Proving, Loads, Proofs
  <2>2. /\ At' = web'.at /\ Part.sent' = web'.sent /\ Part.outcome' = web'.outcome
        /\ Part.held' = web'.held
    BY <1>2, <1>12, Disjoint DEF At, Part, Loading, Proving, Loads, Proofs
  <2>3. Limit' = Limit /\ Limit = Attempts
    BY <1>2, <1>12, Disjoint DEF Limit, Loading, Proving, Loads, Proofs
  <2>4. Takes(web, web', IF Writing THEN 1 ELSE Limit)
    <3>1. Takes(web, web', 1)
      BY <1>2, WebTakes
    <3>2. Attempts \in Nat \ {0} /\ web.sent \in 0..1 /\ ~Writing
      BY <1>2, <1>12, AttemptsAssumption DEF WebOK, WebBody, WebSet, Writing, Web
    <3> QED
      BY <2>3, <3>1, <3>2 DEF Takes
  <2>5. (web.at # "over" => web.outcome = "none") /\ (web'.at # "over" => web'.outcome = "none")
    BY <1>2, <1>3 DEF WebOK, WebBody
  <2>6. web.at # "over" /\ web'.at = "over" => web'.held = {} /\ Truthful(web'.outcome, web'.sent)
    <3> SUFFICES ASSUME web.at # "over", web'.at = "over"
                 PROVE  web'.held = {} /\ Truthful(web'.outcome, web'.sent)
      OBVIOUS
    <3>1. web'.held = {}
          /\ (web'.outcome = "error" \/ (web'.outcome = "value" /\ web'.sent > 0))
      BY <1>3 DEF WebOK, WebBody
    <3> QED
      BY <1>12, <3>1 DEF Truthful, Writing, Web
  <2>7. Acts(web, web', IF Writing THEN 1 ELSE Limit)
    BY <2>4, <2>5, <2>6 DEF Acts
  <2> QED
    BY <1>1, <1>10, <2>1, <2>2, <2>3, <2>7, ActsImplement
<1> QED
  BY <1>11, <1>12

\* So is a step of the gRPC transport.
LEMMA RpcActs ==
    ASSUME EndpointsOK, RpcNext, UNCHANGED <<http, web, frame, wire, light, pub, best, art, prove>>
    PROVE  EndpointsOK' /\ [Call!Next]_(Call!call)
<1>1. CallerMoves(Rpc, rpc, rpc')
  BY RpcCaller
<1>2. exchange' = exchange /\ exchange \in Exchanges /\ RpcOK(rpc)
  BY <1>1 DEF CallerMoves, EndpointsOK
<1>3. RpcOK(rpc)'
  BY <1>2, RpcStepOK
<1>4. HttpOK(http)'
  BY <1>1, Disjoint, OthersApart, HttpApart DEF EndpointsOK
<1>5. WebOK(web, frame, wire)'
  BY <1>1, Disjoint, OthersApart, WebApart DEF EndpointsOK
<1>6. LightOK(light)'
  BY <1>1, Disjoint, OthersApart, LightApart DEF EndpointsOK
<1>7. PubOK(pub, best)'
  BY <1>1, Disjoint, OthersApart, PubApart DEF EndpointsOK
<1>8. ArtOK(art)'
  BY <1>1, Disjoint, OthersApart, ArtApart DEF EndpointsOK
<1>9. ProveOK(prove)'
  BY <1>1, Disjoint, OthersApart, ProveApart DEF EndpointsOK
<1>10. EndpointsOK'
  BY <1>2, <1>3, <1>4, <1>5, <1>6, <1>7, <1>8, <1>9 DEF EndpointsOK
<1>11. CASE exchange \notin Rpc
  <2>1. UNCHANGED caller
    BY <1>1, <1>11 DEF CallerMoves
  <2>2. At' = At /\ Part' = Part /\ Limit' = Limit
    BY <1>2, <1>11 DEF At, Part, Limit, Loading, Proving, Files
  <2> QED
    BY <1>10, <2>1, <2>2, Stutters
<1>12. CASE exchange \in Rpc
  <2>1. Seen(rpc)
    BY <1>12, Disjoint DEF Seen, At, Part, Loading, Proving, Loads, Proofs
  <2>2. /\ At' = rpc'.at /\ Part.sent' = rpc'.sent /\ Part.outcome' = rpc'.outcome
        /\ Part.held' = rpc'.held
    BY <1>2, <1>12, Disjoint DEF At, Part, Loading, Proving, Loads, Proofs
  <2>3. Limit' = Limit /\ Limit = Attempts
    BY <1>2, <1>12, Disjoint DEF Limit, Loading, Proving, Loads, Proofs
  <2>4. Takes(rpc, rpc', IF Writing THEN 1 ELSE Limit)
    BY <1>2, <2>3, RpcStepOK DEF MostSent
  <2>5. (rpc.at # "over" => rpc.outcome = "none") /\ (rpc'.at # "over" => rpc'.outcome = "none")
    BY <1>2, <1>3 DEF RpcOK
  <2>6. rpc.at # "over" /\ rpc'.at = "over" => rpc'.held = {} /\ Truthful(rpc'.outcome, rpc'.sent)
    <3> SUFFICES ASSUME rpc.at # "over", rpc'.at = "over"
                 PROVE  rpc'.held = {} /\ Truthful(rpc'.outcome, rpc'.sent)
      OBVIOUS
    <3>1. rpc'.held = {} /\ Truthful(rpc.outcome, rpc.sent)'
      BY <1>3 DEF RpcOK
    <3>2. served' = served
      BY <1>1 DEF CallerMoves
    <3> QED
      BY <1>2, <3>1, <3>2 DEF Truthful, Writing
  <2>7. Acts(rpc, rpc', IF Writing THEN 1 ELSE Limit)
    BY <2>4, <2>5, <2>6 DEF Acts
  <2> QED
    BY <1>1, <1>10, <2>1, <2>2, <2>3, <2>7, ActsImplement
<1> QED
  BY <1>11, <1>12

\* So is a step of the light client.
LEMMA LightActs ==
    ASSUME EndpointsOK, LightNext, UNCHANGED <<http, web, frame, wire, rpc, pub, best, art, prove>>
    PROVE  EndpointsOK' /\ [Call!Next]_(Call!call)
<1>1. CallerMoves(Light, light, light')
  BY LightCaller
<1>2. exchange' = exchange /\ exchange \in Exchanges /\ LightOK(light)
  BY <1>1 DEF CallerMoves, EndpointsOK
<1>3. LightOK(light)'
  BY <1>2, LightStepOK
<1>4. HttpOK(http)'
  BY <1>1, Disjoint, OthersApart, HttpApart DEF EndpointsOK
<1>5. WebOK(web, frame, wire)'
  BY <1>1, Disjoint, OthersApart, WebApart DEF EndpointsOK
<1>6. RpcOK(rpc)'
  BY <1>1, Disjoint, OthersApart, RpcApart DEF EndpointsOK
<1>7. PubOK(pub, best)'
  BY <1>1, Disjoint, OthersApart, PubApart DEF EndpointsOK
<1>8. ArtOK(art)'
  BY <1>1, Disjoint, OthersApart, ArtApart DEF EndpointsOK
<1>9. ProveOK(prove)'
  BY <1>1, Disjoint, OthersApart, ProveApart DEF EndpointsOK
<1>10. EndpointsOK'
  BY <1>2, <1>3, <1>4, <1>5, <1>6, <1>7, <1>8, <1>9 DEF EndpointsOK
<1>11. CASE exchange \notin Light
  <2>1. UNCHANGED caller
    BY <1>1, <1>11 DEF CallerMoves
  <2>2. At' = At /\ Part' = Part /\ Limit' = Limit
    BY <1>2, <1>11 DEF At, Part, Limit, Loading, Proving, Files
  <2> QED
    BY <1>10, <2>1, <2>2, Stutters
<1>12. CASE exchange \in Light
  <2>1. Seen(LightPart(light))
    BY <1>12, Disjoint DEF Seen, At, Part, Loading, Proving, Loads, Proofs, LightPart
  <2>2. /\ At' = LightPart(light').at
        /\ Part.sent' = LightPart(light').sent
        /\ Part.outcome' = LightPart(light').outcome
        /\ Part.held' = LightPart(light').held
    BY <1>2, <1>12, Disjoint DEF At, Part, Loading, Proving, Loads, Proofs, LightPart
  <2>3. Limit' = Limit /\ Limit = Attempts
    BY <1>2, <1>12, Disjoint DEF Limit, Loading, Proving, Loads, Proofs
  <2>4. Takes(LightPart(light), LightPart(light'), IF Writing THEN 1 ELSE Limit)
    BY <1>2, <2>3, LightTakes DEF MostSent
  <2>5. (LightPart(light).at # "over" => LightPart(light).outcome = "none")
        /\ (LightPart(light').at # "over" => LightPart(light').outcome = "none")
    BY <1>2, <1>3 DEF LightOK, LightPart
  <2>6. LightPart(light).at # "over" /\ LightPart(light').at = "over" =>
          LightPart(light').held = {} /\ Truthful(LightPart(light').outcome, LightPart(light').sent)
    <3> SUFFICES ASSUME LightPart(light).at # "over", LightPart(light').at = "over"
                 PROVE  LightPart(light').held = {} /\ Truthful(LightPart(light').outcome, LightPart(light').sent)
      OBVIOUS
    <3>1. LightPart(light').held = {} /\ Truthful(light.outcome, light.sent)'
      BY <1>3 DEF LightOK, LightPart
    <3>2. served' = served
      BY <1>1 DEF CallerMoves, LightPart
    <3> QED
      BY <1>2, <3>1, <3>2 DEF Truthful, Writing, LightPart
  <2>7. Acts(LightPart(light), LightPart(light'), IF Writing THEN 1 ELSE Limit)
    BY <2>4, <2>5, <2>6 DEF Acts
  <2>8. CallerMoves(Light, LightPart(light), LightPart(light'))
    BY <1>1 DEF CallerMoves, LightPart
  <2> QED
    BY <1>10, <2>1, <2>2, <2>3, <2>7, <2>8, ActsImplement
<1> QED
  BY <1>11, <1>12

\* So is a step of the public client.
LEMMA PubActs ==
    ASSUME EndpointsOK, PubNext, UNCHANGED <<http, web, frame, wire, rpc, light, art, prove>>
    PROVE  EndpointsOK' /\ [Call!Next]_(Call!call)
<1>1. CallerMoves(PublicExchanges, pub, pub')
  BY PubCaller
<1>2. exchange' = exchange /\ exchange \in Exchanges /\ PubOK(pub, best)
  BY <1>1 DEF CallerMoves, EndpointsOK
<1>3. PubOK(pub, best)'
  BY <1>2, PubStepOK DEF PubOK, Belongs, AnswerTrue
<1>4. HttpOK(http)'
  BY <1>1, Disjoint, OthersApart, HttpApart DEF EndpointsOK
<1>5. WebOK(web, frame, wire)'
  BY <1>1, Disjoint, OthersApart, WebApart DEF EndpointsOK
<1>6. RpcOK(rpc)'
  BY <1>1, Disjoint, OthersApart, RpcApart DEF EndpointsOK
<1>7. LightOK(light)'
  BY <1>1, Disjoint, OthersApart, LightApart DEF EndpointsOK
<1>8. ArtOK(art)'
  BY <1>1, Disjoint, OthersApart, ArtApart DEF EndpointsOK
<1>9. ProveOK(prove)'
  BY <1>1, Disjoint, OthersApart, ProveApart DEF EndpointsOK
<1>10. EndpointsOK'
  BY <1>2, <1>3, <1>4, <1>5, <1>6, <1>7, <1>8, <1>9 DEF EndpointsOK
<1>11. CASE exchange \notin PublicExchanges
  <2>1. UNCHANGED caller
    BY <1>1, <1>11 DEF CallerMoves
  <2>2. At' = At /\ Part' = Part /\ Limit' = Limit
    BY <1>2, <1>11 DEF At, Part, Limit, Loading, Proving, Files, Exchanges, Loads, Proofs
  <2> QED
    BY <1>10, <2>1, <2>2, Stutters
<1>12. CASE exchange \in PublicExchanges
  <2>1. Seen(PubPart(pub))
    BY <1>12, Disjoint DEF Seen, At, Part, Loading, Proving, Loads, Proofs, PubPart
  <2>2. /\ At' = PubPart(pub').at
        /\ Part.sent' = PubPart(pub').sent
        /\ Part.outcome' = PubPart(pub').outcome
        /\ Part.held' = PubPart(pub').held
    BY <1>2, <1>12, Disjoint DEF At, Part, Loading, Proving, Loads, Proofs, PubPart
  <2>3. Limit' = Limit /\ Limit = Attempts
    BY <1>2, <1>12, Disjoint DEF Limit, Loading, Proving, Loads, Proofs
  <2>4. Takes(PubPart(pub), PubPart(pub'), IF Writing THEN 1 ELSE Limit)
    BY <1>2, <2>3, PubTakes DEF MostSent
  <2>5. (PubPart(pub).at # "over" => PubPart(pub).outcome = "none")
        /\ (PubPart(pub').at # "over" => PubPart(pub').outcome = "none")
    BY <1>2, <1>3 DEF PubOK, PubPart
  <2>6. PubPart(pub).at # "over" /\ PubPart(pub').at = "over" =>
          PubPart(pub').held = {} /\ Truthful(PubPart(pub').outcome, PubPart(pub').sent)
    <3> SUFFICES ASSUME PubPart(pub).at # "over", PubPart(pub').at = "over"
                 PROVE  PubPart(pub').held = {} /\ Truthful(PubPart(pub').outcome, PubPart(pub').sent)
      OBVIOUS
    <3>1. PubPart(pub').held = {}
          /\ (PubPart(pub').outcome = "error" \/ (PubPart(pub').outcome = "value" /\ PubPart(pub').sent > 0))
      BY <1>3 DEF PubOK, PubPart
    <3> QED
      BY <1>12, <3>1 DEF Truthful, Writing, PublicExchanges
  <2>7. Acts(PubPart(pub), PubPart(pub'), IF Writing THEN 1 ELSE Limit)
    BY <2>4, <2>5, <2>6 DEF Acts
  <2>8. CallerMoves(PublicExchanges, PubPart(pub), PubPart(pub'))
    BY <1>1 DEF CallerMoves, PubPart
  <2> QED
    BY <1>10, <2>1, <2>2, <2>3, <2>7, <2>8, ActsImplement
<1> QED
  BY <1>11, <1>12

\* So is a step of an acquisition.
LEMMA ArtActs ==
    ASSUME EndpointsOK, ArtNext, UNCHANGED <<http, web, frame, wire, rpc, light, pub, best, prove>>
    PROVE  EndpointsOK' /\ [Call!Next]_(Call!call)
<1>1. CallerMoves(Loads, art, art')
  BY ArtCaller
<1>2. exchange' = exchange /\ exchange \in Exchanges /\ ArtOK(art)
  BY <1>1 DEF CallerMoves, EndpointsOK
<1>3. ArtOK(art)'
  BY <1>2, ArtStepOK
<1>4. HttpOK(http)'
  BY <1>1, Disjoint, OthersApart, HttpApart DEF EndpointsOK
<1>5. WebOK(web, frame, wire)'
  BY <1>1, Disjoint, OthersApart, WebApart DEF EndpointsOK
<1>6. RpcOK(rpc)'
  BY <1>1, Disjoint, OthersApart, RpcApart DEF EndpointsOK
<1>7. LightOK(light)'
  BY <1>1, Disjoint, OthersApart, LightApart DEF EndpointsOK
<1>8. PubOK(pub, best)'
  BY <1>1, Disjoint, OthersApart, PubApart DEF EndpointsOK
<1>9. ProveOK(prove)'
  BY <1>1, Disjoint, OthersApart, ProveApart DEF EndpointsOK
<1>10. EndpointsOK'
  BY <1>2, <1>3, <1>4, <1>5, <1>6, <1>7, <1>8, <1>9 DEF EndpointsOK
<1>11. CASE exchange \notin Loads
  <2>1. UNCHANGED caller
    BY <1>1, <1>11 DEF CallerMoves
  <2>2. At' = At /\ Part' = Part /\ Limit' = Limit
    BY <1>2, <1>11 DEF At, Part, Limit, Loading, Proving, Loads, Files
  <2> QED
    BY <1>10, <2>1, <2>2, Stutters
<1>12. CASE exchange \in Loads
  <2>1. Seen(art)
    BY <1>12, Disjoint DEF Seen, At, Part, Loading, Proving, Loads, Proofs
  <2>2. /\ At' = art'.at /\ Part.sent' = art'.sent /\ Part.outcome' = art'.outcome
        /\ Part.held' = art'.held
    BY <1>2, <1>12, Disjoint DEF At, Part, Loading, Proving, Loads, Proofs
  <2>3. Limit' = Limit /\ MostRead = Limit /\ ~Writing /\ Takes(art, art', MostRead)
    <3>1. Takes(art, art', MostRead) /\ art'.inventory = art.inventory
      BY <1>2, ArtTakes DEF ArtGoesOn
    <3>2. exchange = "artifacts" /\ exchange' = "artifacts"
      BY <1>2, <1>12 DEF Loads
    <3>3. Limit = MostRead
      BY <3>2 DEF Limit, MostRead, Files, Loading, Proving
    <3>4. Limit' = Limit
      BY <3>1, <3>2 DEF Limit, Files, Loading, Proving
    <3>5. ~Writing
      BY <3>2 DEF Writing
    <3> QED
      BY <3>1, <3>3, <3>4, <3>5
  <2>4. Takes(art, art', IF Writing THEN 1 ELSE Limit)
    BY <2>3
  <2>5. (art.at # "over" => art.outcome = "none") /\ (art'.at # "over" => art'.outcome = "none")
    BY <1>2, <1>3 DEF ArtOK, ArtPart
  <2>6. art.at # "over" /\ art'.at = "over" => art'.held = {} /\ Truthful(art'.outcome, art'.sent)
    <3> SUFFICES ASSUME art.at # "over", art'.at = "over"
                 PROVE  art'.held = {} /\ Truthful(art'.outcome, art'.sent)
      OBVIOUS
    <3>1. art'.held = {}
          /\ (art'.outcome = "error" \/ (art'.outcome = "value" /\ art'.sent > 0))
      BY <1>3 DEF ArtOK, ArtPart
    <3> QED
      BY <1>12, <3>1 DEF Truthful, Writing, Loads
  <2>7. Acts(art, art', IF Writing THEN 1 ELSE Limit)
    BY <2>4, <2>5, <2>6 DEF Acts
  <2> QED
    BY <1>1, <1>10, <2>1, <2>2, <2>3, <2>7, ActsImplement
<1> QED
  BY <1>11, <1>12

\* So is a step of a load of the proving assets.
LEMMA ProveActs ==
    ASSUME EndpointsOK, ProveNext, UNCHANGED <<http, web, frame, wire, rpc, light, pub, best, art>>
    PROVE  EndpointsOK' /\ [Call!Next]_(Call!call)
<1>1. CallerMoves(Proofs, prove, prove')
  BY ProveCaller
<1>2. exchange' = exchange /\ exchange \in Exchanges /\ ProveOK(prove)
  BY <1>1 DEF CallerMoves, EndpointsOK
<1>3. ProveOK(prove)'
  BY <1>2, ProveStepOK
<1>4. HttpOK(http)'
  BY <1>1, Disjoint, OthersApart, HttpApart DEF EndpointsOK
<1>5. WebOK(web, frame, wire)'
  BY <1>1, Disjoint, OthersApart, WebApart DEF EndpointsOK
<1>6. RpcOK(rpc)'
  BY <1>1, Disjoint, OthersApart, RpcApart DEF EndpointsOK
<1>7. LightOK(light)'
  BY <1>1, Disjoint, OthersApart, LightApart DEF EndpointsOK
<1>8. PubOK(pub, best)'
  BY <1>1, Disjoint, OthersApart, PubApart DEF EndpointsOK
<1>9. ArtOK(art)'
  BY <1>1, Disjoint, OthersApart, ArtApart DEF EndpointsOK
<1>10. EndpointsOK'
  BY <1>2, <1>3, <1>4, <1>5, <1>6, <1>7, <1>8, <1>9 DEF EndpointsOK
<1>11. CASE exchange \notin Proofs
  <2>1. UNCHANGED caller
    BY <1>1, <1>11 DEF CallerMoves
  <2>2. At' = At /\ Part' = Part /\ Limit' = Limit
    BY <1>2, <1>11 DEF At, Part, Limit, Loading, Proving, Proofs, Files
  <2> QED
    BY <1>10, <2>1, <2>2, Stutters
<1>12. CASE exchange \in Proofs
  <2>1. Seen(prove)
    BY <1>12, Disjoint DEF Seen, At, Part, Loading, Proving, Loads, Proofs
  <2>2. /\ At' = prove'.at /\ Part.sent' = prove'.sent /\ Part.outcome' = prove'.outcome
        /\ Part.held' = prove'.held
    BY <1>2, <1>12, Disjoint DEF At, Part, Loading, Proving, Loads, Proofs
  <2>3. Limit' = Limit /\ Limit = 2 /\ ~Writing
    BY <1>2, <1>12 DEF Limit, Loading, Proving, Proofs, Writing
  <2>4. Takes(prove, prove', IF Writing THEN 1 ELSE Limit)
    BY <1>2, <2>3, ProveTakes
  <2>5. (prove.at # "over" => prove.outcome = "none")
        /\ (prove'.at # "over" => prove'.outcome = "none")
    BY <1>2, <1>3 DEF ProveOK, ProveBody
  <2>6. prove.at # "over" /\ prove'.at = "over" =>
          prove'.held = {} /\ Truthful(prove'.outcome, prove'.sent)
    <3> SUFFICES ASSUME prove.at # "over", prove'.at = "over"
                 PROVE  prove'.held = {} /\ Truthful(prove'.outcome, prove'.sent)
      OBVIOUS
    <3>1. prove'.held = {}
          /\ (prove'.outcome = "error" \/ (prove'.outcome = "value" /\ prove'.sent > 0))
      BY <1>3 DEF ProveOK, ProveBody, HeldAt
    <3> QED
      BY <1>12, <3>1 DEF Truthful, Writing, Proofs
  <2>7. Acts(prove, prove', IF Writing THEN 1 ELSE Limit)
    BY <2>4, <2>5, <2>6 DEF Acts
  <2> QED
    BY <1>1, <1>10, <2>1, <2>2, <2>3, <2>7, ActsImplement
<1> QED
  BY <1>11, <1>12

-----------------------------------------------------------------------------
(* The theorems *)

\* What is known of every part holds in the beginning.
LEMMA EndpointsBegin == ASSUME Init PROVE EndpointsOK
<1>1. exchange \in Exchanges
  BY DEF Init, Exchanges, Loads, Proofs
<1>2. CallerInit /\ HttpInit /\ RpcInit /\ PubInit /\ ProveInit /\ ArtInit /\ WebInit /\ LightInit
  BY DEF Init
<1> QED
  BY <1>1, <1>2, HttpInitOK, WebInitOK, RpcInitOK, LightInitOK, PubInitOK, ArtInitOK, ProveInitOK
     DEF EndpointsOK

\* The states in which an exchange begins are those of EndpointCall.
LEMMA CallBegins == ASSUME Init PROVE Call!Init
<1>1. At = "idle" /\ Part.sent = 0 /\ Part.outcome = "none" /\ Part.held = {}
  BY DEF Init, CallerInit, HttpInit, RpcInit, PubInit, ProveInit, ArtInit, WebInit, LightInit, At, Part
<1>2. served = "none" /\ cut = FALSE
  BY DEF Init, CallerInit
<1>3. Limit \in Nat
  <2>1. Len(Files) \in Nat
    BY EndpointsBegin, ArtType DEF EndpointsOK, Files
  <2> QED
    BY <2>1, AttemptsAssumption DEF Limit
<1> QED
  BY <1>1, <1>2, <1>3 DEF Call!Init, Limit

\* Every step keeps what is known of every part, and is one of EndpointCall or none.
LEMMA EndpointsStep ==
    ASSUME EndpointsOK, [Next]_vars
    PROVE  EndpointsOK' /\ [Call!Next]_(Call!call)
<1>1. CASE UNCHANGED vars
  <2>1. UNCHANGED <<http, web, frame, wire, rpc, light, pub, best, art, prove>> /\ UNCHANGED caller
    BY <1>1 DEF vars
  <2>2. exchange' = exchange
    BY <2>1 DEF caller
  <2>3. EndpointsOK'
    BY <2>1, <2>2, HttpApart, WebApart, RpcApart, LightApart, PubApart, ArtApart, ProveApart
       DEF Apart, EndpointsOK
  <2>4. At' = At /\ Part' = Part /\ Limit' = Limit
    BY <2>1, <2>2 DEF At, Part, Limit, Loading, Proving, Files
  <2> QED
    BY <2>1, <2>3, <2>4, Stutters
<1>2. CASE Next /\ ~UNCHANGED vars
  BY <1>2, HttpActs, WebActs, RpcActs, LightActs, PubActs, ArtActs, ProveActs DEF Next, Done
<1> QED
  BY <1>1, <1>2

\* What is known of the transports and the clients holds in every state: the invariant from
\* which the others follow.
THEOREM Endpoints == Spec => []EndpointsOK
  BY EndpointsBegin, EndpointsStep, PTL DEF Spec

\* Whatever branches the node moves to and whenever, what the public client tells of a
\* transaction, a block or the roots is true of the chain whose tip it tells with it.
THEOREM AnswersAreTrue == Spec => []AnswersTrue
<1>1. EndpointsOK => AnswersTrue
  BY DEF EndpointsOK, PubOK, AnswerTrue, TrueOf, AnswersTrue, Single
<1> QED
  BY <1>1, Endpoints, PTL

\* Every object of a transport that a light client took is returned to it once, and a wallet
\* that is closed keeps no asset, no handle and no load.
THEOREM AllIsGivenBack == Spec => []GivenBack
<1>1. EndpointsOK => GivenBack
  BY LightExact, AssetExact DEF EndpointsOK, GivenBack
<1> QED
  BY <1>1, Endpoints, PTL

\* For bodies of any frames in any chunks, ranges of any length, manifests of any files: a
\* stream gives on what was sent, whole and in order; blocks are linked; nothing of an
\* executable is used before all of it is verified; the prover gets the pinned assets.
THEOREM StreamsAreExact == Spec => []StreamsExact
<1>1. EndpointsOK => StreamsExact
  BY WebExact, LightExact, ArtExact, AssetExact DEF EndpointsOK, StreamsExact
<1> QED
  BY <1>1, Endpoints, PTL

\* Each exchange keeps what EndpointCall promises: a transaction is sent at most once and
\* never for a caller that has aborted, a failure is told only of one that was not sent, and
\* when the exchange is over it holds nothing.
THEOREM EndpointsImplementCall == Spec => ImplementsCall
<1>1. Init => Call!Init
  BY CallBegins
<1>2. EndpointsOK /\ [Next]_vars => [Call!Next]_(Call!call)
  BY EndpointsStep
<1> QED
  BY <1>1, <1>2, Endpoints, PTL DEF Spec, ImplementsCall, Call!Spec
=============================================================================
