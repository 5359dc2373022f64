------------------------------ MODULE ScanRun ------------------------------
(***************************************************************************)
(* One finite sync run of a wallet, block by block.                        *)
(*                                                                         *)
(* A run (sync.ts: WalletSync.run, syncWallet, syncPass) pins a target,    *)
(* finds out how far the wallet agrees with the source, rewinds if it does *)
(* not, scans batches up to the target, answers the wallet's enhancement   *)
(* requests (enhancement.ts) and completes.  Every read of the source is   *)
(* an await, and the source may change its chain between any two of them,  *)
(* there and back; every write needs the revision it was planned at, and   *)
(* other commands of the wallet (payments, accounts) change the revision   *)
(* between any two calls.                                                  *)
(*                                                                         *)
(* A chain is the sequence of its blocks and a block's hash is the prefix  *)
(* that ends in it, so a hash tells its height and its ancestors.  The     *)
(* wallet's database is external: it gives a plan, checks the revision and *)
(* the continuity of what it is given, and it scans upwards from its       *)
(* birthday (the backend's "Verify" ranges come first).                    *)
(***************************************************************************)
EXTENDS Integers, Sequences, FiniteSets, SequencesExt

CONSTANTS
    Requests,      \* the kinds of enhancement requests the wallet may have
    Chains,        \* the chains the source may be on
    Birthday,      \* the first height the wallet scans
    ScanBatchSize, \* blocks in a batch
    MaxAttempts,   \* targets a run pins at most (3 in the code)
    MaxPasses,     \* passes for a target at most (3 in the code)
    Stream,        \* transactions the source streams for an address
    AddressBatch,  \* transactions of an address in a batch (16 in the code)
    MaxRequests    \* requests a pass takes up (1024 in the code)

ASSUME ChainsAssumption == \A c \in Chains : c \in Seq(Nat) /\ Len(c) >= Birthday
ASSUME BoundsAssumption ==
    {Birthday, ScanBatchSize, MaxAttempts, MaxPasses, Stream, AddressBatch,
     MaxRequests} \subseteq Nat \ {0}

VARIABLES
    source,        \* the chain the source is on
    scanned,       \* the wallet's chain up to the last block it scanned
    outstanding,   \* the enhancement requests the wallet has
    fresh,         \* the revision the run holds is the wallet's revision
    at,            \* where the run is
    run,           \* the target, whether the caller named it, attempts, passes, abort
    pass,          \* what the pass has gathered: see NewPass
    held           \* history: the target has been on the source's chain since
                   \* the wallet's blocks last changed

vars == <<source, scanned, outstanding, fresh, at, run, pass, held>>

None == <<>>                               \* no hash
Hash(chain, h) == SubSeq(chain, 1, h)
Has(chain, hash) == IsPrefix(hash, chain)
Points == UNION {{Hash(c, h) : h \in Birthday..Len(c)} : c \in Chains}
Agreed(a, b) == Len(LongestCommonPrefix({a, b}))
Retained(h) == h \in Birthday..Len(scanned)        \* scan.block finds it

Request == {"status", "enhancement", "address", "unspent"}

NoRun == [target |-> None, named |-> FALSE, attempt |-> 0, pass |-> 0, cut |-> FALSE]

NewPass ==
    [height |-> 0, fork |-> FALSE,             \* the fork search,
     least |-> 0, most |-> 0,                  \* history: how long a prefix the wallet
                                               \* and the source shared during it
     last |-> 0, prior |-> None, blocks |-> <<>>,  \* the batch, and what precedes it
     visited |-> {}, request |-> "none",       \* the requests taken up, the current one,
     before |-> None,                          \* the tip read before its inventory,
     tied |-> FALSE,                           \* whether the inventory named its tip,
     inventory |-> None, evidence |-> None,    \* history: the chains that the inventory and
                                               \* its transactions were read from,
     moves |-> 0,                              \* and the source's moves since that tip, to 2,
     read |-> 0, kept |-> 0, given |-> 0]      \* the transactions of an address

Init ==
    /\ source \in Chains
    /\ scanned \in {Hash(c, Birthday - 1) : c \in Chains} \cup Points
    /\ outstanding \in {{}, Requests}
    /\ fresh = FALSE /\ at = "idle" /\ held = FALSE
    /\ run = NoRun
    /\ pass = NewPass

Running == at \notin {"idle", "reached", "failed"}
Searching == at \in {"local", "remote", "rewind"}
Viewing == at \in {"localTip", "inventory", "evidence", "tipAfter"}

-----------------------------------------------------------------------------
(* The rest of the world *)

\* A reorganization, growth, or another server behind the same address.
SourceMoves ==
    /\ source' \in Chains \ {source}
    /\ pass' = CASE Searching ->
                      LET n == Agreed(source', scanned) IN
                      [pass EXCEPT !.least = Min({@, n}), !.most = Max({@, n})]
                 [] Viewing -> [pass EXCEPT !.moves = IF @ = 0 THEN 1 ELSE 2]
                 [] OTHER -> pass
    /\ held' = (held \/ (Running /\ run.target # None /\ Has(source', run.target)))
    /\ UNCHANGED <<scanned, outstanding, fresh, at, run>>

\* Another command of the wallet commits between two calls of the run.
ForeignWrite ==
    /\ fresh
    /\ fresh' = FALSE
    /\ UNCHANGED <<source, scanned, outstanding, at, run, pass, held>>

\* The signal of the caller, or of stop(), is aborted.
Abort ==
    /\ Running /\ ~run.cut
    /\ run' = [run EXCEPT !.cut = TRUE]
    /\ UNCHANGED <<source, scanned, outstanding, fresh, at, pass, held>>

-----------------------------------------------------------------------------
(* How a pass goes on or ends.  Each of these sets at, run, pass, fresh. *)

Goto(place) == at' = place /\ UNCHANGED <<run, pass, fresh>>
GoWith(place, p) == at' = place /\ pass' = p /\ UNCHANGED <<run, fresh>>
Revised(place, p) == at' = place /\ pass' = p /\ fresh' = TRUE /\ UNCHANGED run
Anew(place, r) == at' = place /\ run' = r /\ pass' = NewPass /\ fresh' = FALSE

Fail == Anew("failed", NoRun)

StaleForever ==                  \* plausible bug: contention is not bounded
    IF run.cut THEN Fail ELSE Anew("pin", run)
\* syncWallet() plans anew when a revision was refused, a bounded number of times.
Stale ==
    IF run.pass >= MaxPasses \/ run.cut THEN Fail
    ELSE Anew("pin", [run EXCEPT !.pass = @ + 1])

\* run() pins again when the source was seen to change (sourceChanged): the same
\* target if the caller named one, otherwise the tip of the moment.
Changed ==
    IF run.attempt >= MaxAttempts \/ run.cut THEN Fail
    ELSE Anew(IF run.named THEN "pin" ELSE "tip",
              [run EXCEPT !.attempt = @ + 1, !.pass = 1])

\* The wallet's blocks changed: has the source the target now?
Rescanned(chain) ==
    /\ scanned' = chain
    /\ held' = Has(source, run.target)
    /\ UNCHANGED source

Network == {"tip", "pin", "remote", "prior", "stream", "repin", "reprior", "transaction",
            "history", "tipBefore", "inventory", "evidence", "tipAfter", "finalPin"}
Native == {"local", "rewind", "plan", "ingest", "requests", "apply", "flush", "localTip",
           "state", "complete"}

\* A read of the source fails or its answer is malformed, a call of the wallet
\* fails, or the aborted signal ends what is awaited.
CallFails ==
    /\ at \in Network \cup Native
    /\ Fail
    /\ UNCHANGED <<source, scanned, outstanding, held>>

-----------------------------------------------------------------------------
(* Pinning the target *)

Start(target) ==
    /\ ~Running
    /\ Anew(IF target = None THEN "tip" ELSE "pin",
            [target |-> target, named |-> target # None, attempt |-> 1, pass |-> 1,
             cut |-> FALSE])
    /\ held' = (target # None /\ Has(source, target))
    /\ UNCHANGED <<source, scanned, outstanding>>

Tip ==
    /\ at = "tip"
    /\ Anew("pin", [run EXCEPT !.target = source])
    /\ held' = TRUE
    /\ UNCHANGED <<source, scanned, outstanding>>

\* The tree state at the target's height must be the target's; a source that is
\* shorter has none.  The fork search starts at the last scanned block or below.
Pin ==
    /\ at = "pin"
    /\ Len(source) >= Len(run.target)
    /\ IF Has(source, run.target)
       THEN LET top == IF Retained(Len(scanned)) THEN Len(scanned) ELSE 0
                n == Agreed(source, scanned) IN
            GoWith("local", [pass EXCEPT !.height = Min({top, Len(run.target)}),
                                         !.least = n, !.most = n])
       ELSE Changed
    /\ UNCHANGED <<source, scanned, outstanding, held>>

-----------------------------------------------------------------------------
(* The fork search *)

\* scan.block: the hash and the revision.  A height that is not retained ends the
\* search: there is nothing to compare, or there is no common checkpoint.
ReadLocal ==
    /\ at = "local"
    /\ IF Retained(pass.height) THEN Revised("remote", pass)
       ELSE IF pass.fork THEN Fail ELSE GoWith("plan", NewPass)
    /\ UNCHANGED <<source, scanned, outstanding, held>>

RewindBlindly ==                 \* plausible bug: below the first difference all is common
    /\ at = "remote"
    /\ Len(source) >= pass.height
    /\ IF ~Has(source, Hash(scanned, pass.height))
       THEN GoWith("rewind", [pass EXCEPT !.height = @ - 1, !.fork = TRUE])
       ELSE IF pass.fork THEN Goto("rewind") ELSE GoWith("plan", NewPass)
    /\ UNCHANGED <<source, scanned, outstanding, held>>
ReadRemote ==
    /\ at = "remote"
    /\ Len(source) >= pass.height
    /\ IF ~Has(source, Hash(scanned, pass.height))
       THEN GoWith("local", [pass EXCEPT !.height = @ - 1, !.fork = TRUE])
       ELSE IF pass.fork THEN Goto("rewind") ELSE GoWith("plan", NewPass)
    /\ UNCHANGED <<source, scanned, outstanding, held>>

\* scan.rewind, with the revision of the block that was compared.  The wallet may
\* have to go further back than it was asked to.
Rewind ==
    /\ at = "rewind"
    /\ IF fresh
       THEN /\ \E h \in Birthday - 1 .. pass.height : Rescanned(Hash(scanned, h))
            /\ Anew("plan", run)
       ELSE Stale /\ UNCHANGED <<source, scanned, held>>
    /\ UNCHANGED outstanding

-----------------------------------------------------------------------------
(* Scanning *)

\* scan.plan gives the next range and the revision, or no range up to the target.
Plan ==
    /\ at = "plan"
    /\ LET end == Min({Len(run.target), Len(scanned) + ScanBatchSize}) IN
       IF Len(scanned) >= Len(run.target) THEN Goto("requests")
       ELSE \E last \in Len(scanned) + 1 .. end : Revised("prior", [NewPass EXCEPT !.last = last])
    /\ UNCHANGED <<source, scanned, outstanding, held>>

\* The tree state before the batch must be the one the wallet scanned from, if it
\* knows it; it does not when it has scanned nothing yet.
Prior ==
    /\ at = "prior"
    /\ Len(source) >= Len(scanned)
    /\ IF Retained(Len(scanned)) /\ ~Has(source, scanned) THEN Changed
       ELSE GoWith("stream", [pass EXCEPT !.prior = Hash(source, Len(scanned))])
    /\ UNCHANGED <<source, scanned, outstanding, held>>

\* The next block of the stream, whatever chain the source is on by now.
Block ==
    /\ at = "stream"
    /\ LET h == Len(scanned) + Len(pass.blocks) + 1 IN
       /\ h <= Min({pass.last, Len(source)})
       /\ GoWith("stream", [pass EXCEPT !.blocks = Append(@, Hash(source, h))])
    /\ UNCHANGED <<source, scanned, outstanding, held>>

\* The stream ends, or the byte limit cuts the batch; it must not be empty.
StreamEnds ==
    /\ at = "stream"
    /\ pass.blocks # <<>>
    /\ Goto("ingest")
    /\ UNCHANGED <<source, scanned, outstanding, held>>

\* What the native scanner checks of a batch.
Continuous(from, blocks) ==
    /\ Front(blocks[1]) = from
    /\ \A i \in 1..Len(blocks) - 1 : Front(blocks[i + 1]) = blocks[i]

\* scan.ingest.  A batch that is not continuous is no proof of a reorganization:
\* unless the run was aborted, the pins are read again.
Ingest ==
    /\ at = "ingest"
    /\ IF fresh /\ Continuous(pass.prior, pass.blocks)
       THEN /\ Rescanned(Last(pass.blocks))
            /\ outstanding' \in {outstanding, Requests}
            /\ Anew("plan", run)
       ELSE /\ CASE ~fresh -> Stale
                 [] fresh /\ run.cut -> Fail
                 [] fresh /\ ~run.cut -> Goto("repin")
            /\ UNCHANGED <<source, scanned, outstanding, held>>

\* A changed target or predecessor allows a new attempt; otherwise the rejection stands.
Repin ==
    /\ at = "repin"
    /\ Len(source) >= Len(run.target)
    /\ IF Has(source, run.target) THEN Goto("reprior") ELSE Changed
    /\ UNCHANGED <<source, scanned, outstanding, held>>

Reprior ==
    /\ at = "reprior"
    /\ Len(source) >= Len(pass.prior)
    /\ IF Has(source, pass.prior) THEN Fail ELSE Changed
    /\ UNCHANGED <<source, scanned, outstanding, held>>

-----------------------------------------------------------------------------
(* Enhancement: each outstanding request once in a pass *)

Served == GoWith("requests", [NewPass EXCEPT !.visited = pass.visited])

\* The next request, unless the pass has taken up too many.
TakeUp(r) ==
    /\ at = "requests"
    /\ r \in outstanding \ pass.visited
    /\ IF Cardinality(pass.visited) >= MaxRequests THEN Fail
       ELSE Revised(CASE r \in {"status", "enhancement"} -> "transaction"
                      [] r = "address" -> "history"
                      [] r = "unspent" -> "tipBefore",
                    [NewPass EXCEPT !.visited = pass.visited \cup {r}, !.request = r])
    /\ UNCHANGED <<source, scanned, outstanding, held>>

\* Nothing is left but requests about addresses that are not due yet.
NothingDue ==
    /\ at = "requests"
    /\ outstanding \ pass.visited \subseteq {"address", "unspent"}
    /\ GoWith("finalPin", NewPass)
    /\ UNCHANGED <<source, scanned, outstanding, held>>

\* The transaction of a request, which the source knows or not.
ReadTransaction ==
    /\ at = "transaction"
    /\ Goto("apply")
    /\ UNCHANGED <<source, scanned, outstanding, held>>

\* enhancement.apply of a whole answer.  A request for a status may stay.
Apply ==
    /\ at = "apply"
    /\ IF fresh
       THEN /\ \/ outstanding' = outstanding \ {pass.request}
               \/ pass.request = "status" /\ UNCHANGED outstanding
            /\ Served
       ELSE Stale /\ UNCHANGED outstanding
    /\ UNCHANGED <<source, scanned, held>>

\* A transaction of an address: into the batch, or, when that is full, kept in
\* hand while the batch is given to the wallet.
ReadHistory ==
    /\ at = "history" /\ pass.read < Stream
    /\ LET full == pass.kept = AddressBatch IN
       GoWith(IF full THEN "flush" ELSE "history",
              [pass EXCEPT !.read = @ + 1, !.kept = @ + (IF full THEN 0 ELSE 1)])
    /\ UNCHANGED <<source, scanned, outstanding, held>>

FlushLosing ==                   \* plausible bug: the transaction in hand is forgotten
    /\ at = "flush"
    /\ IF fresh THEN GoWith("history", [pass EXCEPT !.given = @ + pass.kept, !.kept = 0])
                ELSE Stale
    /\ UNCHANGED <<source, scanned, outstanding, held>>
\* The full batch is applied without completing the request, and the revision is
\* read again.  The wallet may not need the rest any more.
Flush ==
    /\ at = "flush"
    /\ IF ~fresh THEN Stale /\ UNCHANGED outstanding
       ELSE \/ /\ GoWith("history", [pass EXCEPT !.given = @ + pass.kept, !.kept = 1])
               /\ UNCHANGED outstanding
            \/ Served /\ outstanding' = outstanding \ {"address"}
    /\ UNCHANGED <<source, scanned, held>>

\* Only the end of the stream completes the request.
HistoryEnds ==
    /\ at = "history" /\ pass.read = Stream
    /\ GoWith("apply", [pass EXCEPT !.given = @ + pass.kept, !.kept = 0])
    /\ UNCHANGED <<source, scanned, outstanding, held>>

-----------------------------------------------------------------------------
(* Unspent outputs: evidence that must come from one view of the chain *)

TipBefore ==
    /\ at = "tipBefore"
    /\ GoWith("localTip", [pass EXCEPT !.before = source])
    /\ UNCHANGED <<source, scanned, outstanding, held>>

LocalTipUnchecked ==             \* plausible bug: heights are compared, hashes are not
    /\ at = "localTip"
    /\ IF ~fresh THEN Stale
       ELSE IF Len(pass.before) = Len(scanned) THEN Goto("inventory") ELSE Served
    /\ UNCHANGED <<source, scanned, outstanding, held>>
\* The wallet's state and block must still have the revision of the request.  A tip
\* above the wallet's, or below it, leaves the request to another run; a tip that
\* is not a block of the wallet is an inconsistency.
LocalTip ==
    /\ at = "localTip"
    /\ IF ~fresh THEN Stale
       ELSE IF Len(pass.before) > Len(scanned) THEN Served
       ELSE IF ~Retained(Len(pass.before)) \/ ~Has(scanned, pass.before) THEN Fail
       ELSE IF Len(pass.before) = Len(scanned) THEN Goto("inventory") ELSE Served
    /\ UNCHANGED <<source, scanned, outstanding, held>>

\* The inventory may name the tip it belongs to, which then must be the one read before.
Inventory ==
    /\ at = "inventory"
    /\ \E tied \in BOOLEAN :
          IF tied /\ source # pass.before THEN Fail
          ELSE GoWith("evidence", [pass EXCEPT !.tied = tied, !.inventory = source])
    /\ UNCHANGED <<source, scanned, outstanding, held>>

\* The transactions of the inventory, each mined at the height the inventory has for it,
\* in whatever block that is by now.
Evidence ==
    /\ at = "evidence"
    /\ GoWith("tipAfter", [pass EXCEPT !.evidence = source])
    /\ UNCHANGED <<source, scanned, outstanding, held>>

TipAfterUnread ==                \* plausible bug: the first tip is trusted to the end
    /\ at = "tipAfter"
    /\ Goto("apply")
    /\ UNCHANGED <<source, scanned, outstanding, held>>
\* An inventory gathered over a moving view is discarded.
TipAfter ==
    /\ at = "tipAfter"
    /\ IF source = pass.before THEN Goto("apply") ELSE Served
    /\ UNCHANGED <<source, scanned, outstanding, held>>

-----------------------------------------------------------------------------
(* Completion *)

FinalPinSkipped ==               \* plausible bug: the first pin is trusted to the end
    /\ at = "finalPin"
    /\ Goto("state")
    /\ UNCHANGED <<source, scanned, outstanding, held>>
FinalPin ==
    /\ at = "finalPin"
    /\ Len(source) >= Len(run.target)
    /\ IF Has(source, run.target) THEN Goto("state") ELSE Changed
    /\ UNCHANGED <<source, scanned, outstanding, held>>

ReadState ==
    /\ at = "state"
    /\ Revised("complete", pass)
    /\ UNCHANGED <<source, scanned, outstanding, held>>

\* scan.complete: the wallet checks that its blocks cover the target and contain it.
Complete ==
    /\ at = "complete"
    /\ IF ~fresh THEN Stale
       ELSE IF Has(scanned, run.target)
       THEN Anew("reached", [run EXCEPT !.attempt = 0, !.pass = 0])
       ELSE Fail
    /\ UNCHANGED <<source, scanned, outstanding, held>>

Step ==
    \/ Tip \/ Pin \/ ReadLocal \/ ReadRemote \/ Rewind
    \/ Plan \/ Prior \/ Block \/ StreamEnds \/ Ingest \/ Repin \/ Reprior
    \/ (\E r \in Request : TakeUp(r)) \/ NothingDue
    \/ ReadTransaction \/ Apply \/ ReadHistory \/ Flush \/ HistoryEnds
    \/ TipBefore \/ LocalTip \/ Inventory \/ Evidence \/ TipAfter
    \/ FinalPin \/ ReadState \/ Complete \/ CallFails

Next ==
    \/ \E target \in {None} \cup Points : Start(target)
    \/ SourceMoves \/ ForeignWrite \/ Abort
    \/ Step

Spec == Init /\ [][Next]_vars
\* Every call of a run returns, and its source answers or fails.
FairSpec == Spec /\ WF_vars(Step)

-----------------------------------------------------------------------------
(* Properties *)

\* A run that reports its target reached leaves the wallet on a chain that has, at
\* the target's height, the target itself, and the source was on a chain with the
\* target after the wallet's last block was written: nobody is told of a target that
\* the source had left before the scan was over (sync.ts: the final pin, reached).
TargetServed == at = "reached" => Has(scanned, run.target) /\ held

\* A rewind is never a guess: it asks for a block that the source had on its chain
\* during this search, and the block above that one was off the source's chain
\* during this search (sync.ts: the fork search), however the source moved meanwhile.
RewindJustified ==
    [][at = "rewind" /\ at' = "plan" =>
          pass.height \in pass.least..pass.most]_vars

\* An address is complete only when every transaction of the stream has been given
\* to the wallet.  An inventory of unspent outputs is applied to the wallet's last block
\* only: an inventory that named its tip was read at that very block, and so were any
\* inventory and its transactions, unless the source left the block and came back to it
\* between the two reads of its tip, which two equal tips do not show (enhancement.ts:
\* flush, unspent).
EvidenceCoherent ==
    [][at = "apply" /\ at' = "requests" =>
          /\ pass.request = "address" => pass.given = Stream
          /\ pass.request = "unspent" =>
                /\ pass.before = scanned
                /\ pass.tied => pass.inventory = scanned
                /\ pass.moves < 2 => {pass.inventory, pass.evidence} = {scanned}]_vars

\* Every run ends, on a source that never settles and a wallet that never stops
\* writing: attempts, passes and requests are bounded, and nothing undoes progress
\* within a pass (sync.ts: run, syncWallet, syncPass).
RunEnds == []<>~Running
=============================================================================
