---------------------------- MODULE PublicReads ----------------------------
(***************************************************************************)
(* The public client (public.ts, public-*-reads.ts): answers put together  *)
(* from several reads of a chain that moves between any two of them.       *)
(*                                                                         *)
(* A block and a tree state are read, and then the header of their block   *)
(* by its hash, so that the two parts are about one block.  A status reads *)
(* the tip, the transaction, the block at its height, its header, and the  *)
(* tip again; subtree roots read the tip, the roots, the header of each    *)
(* completing block, and the tip again.  waitForTransaction() polls the    *)
(* status until it has enough confirmations.  One RPC is one read of the   *)
(* best chain, or a failure (HttpTransport is about the RPC itself).       *)
(***************************************************************************)
EXTENDS Endpoint, Sequences, SequencesExt

CONSTANTS
    Chains,          \* the best chains of the node, in order: sequences of blocks from height 1
    Carriers,        \* the blocks that hold the transaction
    RootHeights,     \* the heights at which subtrees are completed
    AskedHeight,     \* the height of the block or tree state that is asked for
    Confirmations    \* what waitForTransaction() waits for

\* The node moves to a chain of more work and never comes back to one it has left.
ASSUME ChainsAssumption ==
    /\ Chains # <<>> /\ Chains \in Seq(Seq(STRING))
    /\ \A i \in DOMAIN Chains : Chains[i] # <<>>
    /\ \A i, j \in DOMAIN Chains : i # j => Last(Chains[i]) # Last(Chains[j])
ASSUME HeightsAssumption ==
    /\ RootHeights \in Seq(Nat \ {0}) /\ {AskedHeight, Confirmations} \subseteq Nat \ {0}
    /\ \A i, j \in DOMAIN RootHeights : i <= j => RootHeights[i] <= RootHeights[j]

VARIABLES
    pub,     \* the call, see below
    best     \* the chain the node is on

\* at      the read that comes next, "idle", "poll" or "over"; sent: one has been made
\* before  the tip read first, after the tip read last
\* found   the transaction: [state, height, block]
\* pinned  the block whose header is read, header the block that the header is of
\* roots   the completing blocks of the subtree roots: [height, block]
\* listed  the length of the chain whose roots were listed
\* timed   the wait was given a time limit; late: it has passed
\* answer  what the caller is told, outcome as in HttpTransport
pubVars == <<pub, best, caller>>

PublicExchanges ==
    {"public.tip", "public.block", "public.tree", "public.utxos", "public.transaction",
     "public.status", "public.wait", "public.roots"}
Public == exchange \in PublicExchanges
Here == Chains[best]
Tip(chain) == [height |-> Len(chain), block |-> Last(chain)]
Inclusions(chain) == {h \in DOMAIN chain : chain[h] \in Carriers}
None == [state |-> "none", height |-> 0, block |-> "none"]

PubInit ==
    /\ \E timed \in BOOLEAN :
          pub = [at |-> "idle", before |-> None, found |-> None, pinned |-> "none",
                 header |-> "none", roots |-> <<>>, listed |-> 0, timed |-> timed,
                 late |-> FALSE, sent |-> 0, answer |-> None, outcome |-> "none"]
    /\ best = 1

-----------------------------------------------------------------------------

PubOver(p, o) == [p EXCEPT !.at = "over", !.outcome = o]

\* The caller's signal ends every read (operation, bridgeSignal).
PubRead(at, then) ==
    /\ pub.at = at
    /\ pub' = IF cut THEN PubOver(pub, "error") ELSE then
    /\ UNCHANGED <<best, caller>>

\* checkSignal(), and the arguments that are refused unsent.
PubRefused ==
    /\ Public /\ pub.at = "idle"
    /\ pub' = PubOver(pub, "error")
    /\ UNCHANGED <<best, caller>>

PubOpen == Public /\ PubRead("idle", [pub EXCEPT !.at = "ready"])

\* ready(): the first call of a client verifies the genesis block of the server.
PubReady ==
    PubRead("ready", [pub EXCEPT !.sent = 1,
                                 !.at = CASE exchange = "public.block" -> "block"
                                          [] exchange = "public.tree" -> "tree"
                                          [] exchange = "public.utxos" -> "utxos"
                                          [] exchange = "public.transaction" -> "transaction"
                                          [] OTHER -> "tip"])

\* A read that fails ends the call; there is no partial answer.
ReadFails ==
    /\ pub.at \in {"ready", "tip", "utxos", "transaction", "block", "tree", "header", "roots", "root", "again"}
    /\ pub' = PubOver(pub, "error")
    /\ UNCHANGED <<best, caller>>

FirstTip ==
    PubRead("tip",
      IF exchange = "public.tip" THEN PubOver(pub, "value")
      ELSE [pub EXCEPT !.before = Tip(Here), !.roots = <<>>,
                       !.at = IF exchange = "public.roots" THEN "roots" ELSE "transaction"])

\* getaddressutxos: the outputs and the tip they are unspent at come in one answer.
Utxos == PubRead("utxos", PubOver(pub, "value"))

\* What the node says of a transaction: it is in the best chain, known otherwise, or not seen.
Known(state) ==
    IF Inclusions(Here) # {} THEN state = "active" ELSE state \in {"notSeen", "mempool", "offMainChain"}

\* getrawtransaction.
Transaction == \E state \in {"active", "notSeen", "mempool", "offMainChain"} :
    /\ Known(state)
    /\ LET height == CHOOSE h \in Inclusions(Here) : TRUE
           found == IF state = "active" THEN [state |-> "unknown", height |-> height, block |-> Here[height]]
                    ELSE [None EXCEPT !.state = state]
       IN  PubRead("transaction",
                   CASE state = "active" -> [pub EXCEPT !.found = found, !.at = "block"]
                     [] state # "active" /\ exchange = "public.transaction" ->
                           [PubOver(pub, "value") EXCEPT !.answer = found]
                     [] OTHER -> [pub EXCEPT !.found = found, !.at = "again"])

\* getblock by its height.  For a transaction, another block leaves it unknown, and none
\* is an error; a caller who asked for the block is told that there is none.
Block ==
    LET status == exchange # "public.block"
        height == IF status THEN pub.found.height ELSE AskedHeight
    IN  PubRead("block",
          CASE height > Len(Here) -> PubOver(pub, IF status THEN "error" ELSE "value")
            [] height <= Len(Here) /\ status /\ Here[height] # pub.found.block ->
                  [pub EXCEPT !.at = "header", !.pinned = Here[height]]
            [] OTHER -> [pub EXCEPT !.at = "header", !.pinned = Here[height],
                                    !.found = [state |-> "mined", height |-> height, block |-> Here[height]]])

\* z_gettreestate by its height.
Tree ==
    PubRead("tree",
      IF AskedHeight > Len(Here) THEN PubOver(pub, "error")
      ELSE [pub EXCEPT !.at = "header", !.pinned = Here[AskedHeight],
                       !.found = [state |-> "mined", height |-> AskedHeight, block |-> Here[AskedHeight]]])

\* getblockheader by the hash of the block, wherever the chain has gone by then.
Pinned == pub.pinned
Header ==
    PubRead("header",
      IF exchange \in {"public.block", "public.tree", "public.transaction"}
      THEN [PubOver(pub, "value") EXCEPT !.answer = pub.found, !.header = Pinned]
      ELSE [pub EXCEPT !.at = "again"])

\* z_getsubtreesbyindex, then the header at the height of each root that it lists.
Roots == PubRead("roots", [pub EXCEPT !.listed = Len(Here), !.at = "root"])

NextRoot == Len(pub.roots) + 1
Listed == NextRoot \in DOMAIN RootHeights /\ RootHeights[NextRoot] <= pub.listed

InTip(root) ==
    /\ root.height <= pub.before.height
    /\ root.height = pub.before.height => root.block = pub.before.block

Root ==
    /\ Listed
    /\ LET height == RootHeights[NextRoot]
       IN  PubRead("root",
             IF height > Len(Here) \/ ~InTip([height |-> height, block |-> Here[height]])
             THEN PubOver(pub, "error")
             ELSE [pub EXCEPT !.roots = Append(@, [height |-> height, block |-> Here[height]])])

RootsRead ==
    /\ ~Listed
    /\ PubRead("root", [pub EXCEPT !.at = "again"])

MovedHeight == Tip(Here).height # pub.before.height     \* plausible bug: heights only
\* The tip that is read last is the tip that was read first.
Moved == Tip(Here) # pub.before
\* The observation that the reads make together.
Observed ==
    LET found == pub.found
        tip == Tip(Here)
    IN  CASE Moved -> None
          [] /\ ~Moved /\ found.state = "mined"
             /\ found.height > tip.height \/ (found.height = tip.height /\ found.block # tip.block) ->
                [None EXCEPT !.state = "unknown"]
          [] OTHER -> found

Confirmed(o) == o.state = "mined" /\ Len(Here) - o.height + 1 >= Confirmations

\* The tip once more: a chain that has moved makes the observation unknown, and the
\* roots an error.
SecondTip ==
    PubRead("again",
      CASE exchange = "public.status" -> [PubOver(pub, "value") EXCEPT !.answer = Observed]
        [] exchange = "public.roots" -> PubOver(pub, IF Moved THEN "error" ELSE "value")
        [] OTHER -> IF Confirmed(Observed) THEN [PubOver(pub, "value") EXCEPT !.answer = Observed]
                    ELSE [pub EXCEPT !.at = "poll"])

\* waitForTransaction(): the next poll, or the end of the time it was given, if it was.
Poll == PubRead("poll", [pub EXCEPT !.at = "tip"])

Waiting == exchange = "public.wait" /\ pub.at \notin {"idle", "over"}
WaitEnds ==
    /\ Waiting /\ (pub.late \/ cut)
    /\ pub' = PubOver(pub, "error")
    /\ UNCHANGED <<best, caller>>

PubStep ==
    \/ PubRefused \/ PubOpen \/ PubReady \/ FirstTip \/ Utxos \/ Transaction \/ Block \/ Tree \/ Header
    \/ Roots \/ Root \/ RootsRead \/ SecondTip \/ Poll \/ WaitEnds

-----------------------------------------------------------------------------

\* return(): the stream of roots is given back, also while it is read.
PubReturned ==
    /\ exchange = "public.roots" /\ pub.at \notin {"idle", "over"}
    /\ pub' = PubOver(pub, "error")
    /\ UNCHANGED <<best, caller>>

WaitElapses ==
    /\ Waiting /\ pub.timed /\ ~pub.late
    /\ pub' = [pub EXCEPT !.late = TRUE]
    /\ UNCHANGED <<best, caller>>

\* The node: another branch, or another block.
Reorganize ==
    /\ Public /\ pub.at # "over"
    /\ best < Len(Chains)
    /\ best' \in best + 1..Len(Chains)
    /\ UNCHANGED <<pub, caller>>

PubAbort ==
    /\ Public /\ ~cut /\ pub.at # "over"
    /\ cut' = TRUE
    /\ UNCHANGED <<pub, best, exchange, served>>

PubNext == PubStep \/ PubReturned \/ ReadFails \/ WaitElapses \/ Reorganize \/ PubAbort

-----------------------------------------------------------------------------

\* What is told of a transaction or of the roots is true of one chain, the one whose tip
\* is told with it: a block that left the best chain while it was read never counts, and
\* a transaction of that chain is never reported as not seen (status, getSubtreeRoots).
\* The parts of a block, of a tree state or of an inclusion are of one block (getBlock,
\* getTreeState, getTransaction).
AnswersTrue ==
    /\ pub.answer.state = "mined" /\ exchange \in {"public.block", "public.tree", "public.transaction"} =>
          pub.header = pub.answer.block
    /\ \A i \in DOMAIN Chains :
          Tip(Chains[i]) = pub.before /\ pub.outcome = "value" =>
            /\ pub.answer.state = "mined" =>
                  /\ pub.answer.height \in DOMAIN Chains[i]
                  /\ Chains[i][pub.answer.height] = pub.answer.block
            /\ pub.answer.state = "notSeen" => Inclusions(Chains[i]) = {}
            /\ exchange = "public.wait" =>
                  pub.answer.state = "mined" /\ Len(Chains[i]) - pub.answer.height + 1 >= Confirmations
            /\ \A k \in DOMAIN pub.roots : Chains[i][pub.roots[k].height] = pub.roots[k].block
=============================================================================
