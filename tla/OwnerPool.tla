----------------------------- MODULE OwnerPool ------------------------------
(***************************************************************************)
(* The native owners behind the wallets of one process.                    *)
(*                                                                         *)
(* Wallets opened with the same executable and limits share one native     *)
(* owner, a worker with an engine (runtime/wallet.ts).  An owner is leased *)
(* by wallets and by signers (mnemonic.ts), which may outlive their        *)
(* wallet; the last lease destroys it.  Beside its lease a wallet takes a  *)
(* slot of a limited capacity, which an abandoned opening keeps until the  *)
(* worker has settled it.  A threaded start that fails may fall back to    *)
(* the baseline executable.                                                *)
(*                                                                         *)
(* The model follows one key of the map of owners.  The worker's side is   *)
(* reduced to its answers (wallet-worker.ts).                              *)
(***************************************************************************)
EXTENDS Integers, FiniteSets

CONSTANTS
    Wallet,        \* callers of openWalletRuntime()
    Signer,        \* mnemonic signers
    MaxOwners,     \* bound: how many owners are created, one after the other
    MaxWallets,    \* runtime.maxQueuedJobs, also the limit of wallets per owner
    Workers,       \* threading.workers: the compute workers of a threaded start
    Threaded       \* threading.mode is "prefer-threaded", and supported

ASSUME OwnersAssumption == MaxOwners \in Nat \ {0}
ASSUME WalletsAssumption == MaxWallets \in Nat \ {0}
ASSUME WorkersAssumption == Workers \in Nat \ {0}
ASSUME ThreadedAssumption == Threaded \in BOOLEAN
ASSUME UsersAssumption == IsFiniteSet(Wallet) /\ IsFiniteSet(Signer)

VARIABLES
    current,       \* owners.get(key), or None
    owner,         \* owner[o]: the entry and its worker
    wallet,        \* wallet[w]: a call of openWalletRuntime() and what became of it
    signer         \* signer[s]: a signer's lease

vars == <<current, owner, wallet, signer>>

Owner == 1..MaxOwners
None == 0

NewOwner == [refs |-> 0, wallets |-> 0, orphans |-> 0, aborted |-> FALSE, ready |-> "unused",
             attempt |-> IF Threaded THEN "threaded" ELSE "baseline",
             phase |-> "assets", stopped |-> FALSE, torn |-> "no", live |-> {},
             loaded |-> 0]
NewWallet == [call |-> "none", of |-> None, request |-> "none",
              lease |-> FALSE, last |-> FALSE]
NewSigner == [state |-> "none", of |-> None]

Init ==
    /\ current = None
    /\ owner = [o \in Owner |-> NewOwner]
    /\ wallet = [w \in Wallet |-> NewWallet]
    /\ signer = [s \in Signer |-> NewSigner]

-----------------------------------------------------------------------------
(* stop() and the end of a lease *)

Stopped(r) == [r EXCEPT !.stopped = TRUE]

\* What the wallets of owner o notice when it stops: openings are rejected and
\* sessions crash.
Notified(o) ==
    [w \in Wallet |->
        [wallet[w] EXCEPT !.request =
            CASE wallet[w].of = o /\ @ = "posted" -> "rejected"
              [] wallet[w].of = o /\ @ \in {"session", "closing"} -> "crashed"
              [] OTHER -> @]]

\* A stopped owner is not handed out any more, if it had been admitted; a start that
\* fails keeps its place until it has cleaned up.
Stop(o) ==
    /\ owner' = [owner EXCEPT ![o] = Stopped(@)]
    /\ wallet' = Notified(o)
    /\ current' = IF current = o /\ owner[o].phase = "admitted" THEN None ELSE current

\* One lease less.  The last one aborts the owner's signal, and that stops it.
Left(r) ==
    IF r.refs > 1 THEN [r EXCEPT !.refs = @ - 1]
    ELSE [Stopped(r) EXCEPT !.refs = @ - 1, !.aborted = TRUE]

\* release(): the call or the session of w ends, and with it its lease; the slot of an
\* opening that the worker has not settled stays taken by an orphan.  Who ends the
\* last lease awaits the destruction of the owner, others return.
Release(w, orphans, call) ==
    LET o == wallet[w].of
        last == owner[o].refs = 1
        r == [owner[o] EXCEPT !.wallets = @ - 1 + orphans, !.orphans = @ + orphans]
    IN  /\ owner' = [owner EXCEPT ![o] = Left(r)]
        /\ current' = IF last /\ current = o THEN None ELSE current
        /\ wallet' = [(IF last THEN Notified(o) ELSE wallet) EXCEPT
                        ![w] = IF ~last /\ call # "open" THEN NewWallet
                               ELSE [@ EXCEPT !.lease = FALSE, !.last = last,
                                              !.call = call, !.request = "none"]]
        /\ UNCHANGED signer

\* release() of the last lease awaits the start's end and the worker's termination.
Destroyed(o) == owner[o].ready # "pending" /\ owner[o].torn # "no"

-----------------------------------------------------------------------------
(* The start of an owner: createOwner() *)

Starting(o) == owner[o].ready = "pending" /\ ~owner[o].stopped

\* The executable is verified and staged, and the worker spawned.
Stage(o) ==
    /\ Starting(o) /\ owner[o].phase = "assets"
    /\ owner' = [owner EXCEPT ![o].phase = "executing", ![o].live = @ \cup {owner[o].attempt}]
    /\ UNCHANGED <<current, wallet, signer>>

\* The worker has prepared the memory its engine shares with compute workers (initialize),
\* and they are spawned.
PoolStarts(o) ==
    /\ Starting(o) /\ owner[o].phase = "executing" /\ owner[o].attempt = "threaded"
    /\ owner' = [owner EXCEPT ![o].phase = "pool", ![o].live = @ \cup {"compute"}]
    /\ UNCHANGED <<current, wallet, signer>>

\* A compute worker has entered the engine; the last one lets the worker build the pool.
ComputeLoads(o) ==
    /\ Starting(o) /\ owner[o].phase = "pool" /\ owner[o].loaded < Workers
    /\ owner' = [owner EXCEPT ![o].loaded = @ + 1]
    /\ UNCHANGED <<current, wallet, signer>>

\* The engine is there, threaded only with the whole pool (handle: initialize, pool-build).
Initialized(r) ==
    IF r.attempt = "threaded" THEN r.phase = "pool" /\ r.loaded = Workers
                              ELSE r.phase = "executing"
Ready(o) ==
    /\ Starting(o) /\ Initialized(owner[o])
    /\ owner' = [owner EXCEPT ![o].phase = "ready"]
    /\ UNCHANGED <<current, wallet, signer>>

\* The channel of the signers is installed, and the owner is handed out.
Admit(o) ==
    /\ Starting(o) /\ owner[o].phase = "ready"
    /\ owner' = [owner EXCEPT ![o].phase = "admitted", ![o].ready = "ok"]
    /\ UNCHANGED <<current, wallet, signer>>

\* Only failures in this phase of a start permit a fallback.
Bootstrapping(o) ==
    owner[o].attempt = "threaded" /\ owner[o].phase \in {"executing", "pool"}

\* A timeout, a worker's error or exit, or an answer that is out of place.
Fails(o) ==
    /\ owner[o].ready \in {"pending", "ok"} /\ ~owner[o].stopped
    /\ Stop(o)
    /\ UNCHANGED signer

\* destroy(), once: every worker is terminated, or one cannot be.
TearDown(o) ==
    /\ owner[o].stopped /\ owner[o].torn = "no"
    /\ \/ owner' = [owner EXCEPT ![o].torn = "done", ![o].live = {}]
       \/ owner[o].live # {} /\ owner' = [owner EXCEPT ![o].torn = "failed"]
    /\ UNCHANGED <<current, wallet, signer>>

MayFallBack(o) ==
    /\ Bootstrapping(o) /\ owner[o].torn = "done" /\ ~owner[o].aborted

FallBackEarly(o) ==              \* plausible bug: the baseline starts during the teardown
    /\ owner[o].ready = "pending" /\ owner[o].stopped /\ ~owner[o].aborted
    /\ Bootstrapping(o)
    /\ owner' = [owner EXCEPT ![o].attempt = "baseline", ![o].phase = "assets",
                              ![o].stopped = FALSE, ![o].torn = "no", ![o].loaded = 0]
    /\ UNCHANGED <<current, wallet, signer>>
\* After its teardown a failed threaded start begins again as a baseline.
FallBack(o) ==
    /\ owner[o].ready = "pending" /\ MayFallBack(o)
    /\ owner' = [owner EXCEPT ![o].attempt = "baseline", ![o].phase = "assets",
                              ![o].stopped = FALSE, ![o].torn = "no", ![o].loaded = 0]
    /\ UNCHANGED <<current, wallet, signer>>

\* Otherwise, or with an error that does not permit it, the start has failed for all
\* who wait for it.
GiveUp(o) ==
    /\ owner[o].ready = "pending" /\ owner[o].torn # "no"
    /\ owner' = [owner EXCEPT ![o].ready = "failed"]
    /\ current' = IF current = o THEN None ELSE current
    /\ UNCHANGED <<wallet, signer>>

-----------------------------------------------------------------------------
(* openWalletRuntime() *)

Leased(o, w, r) ==
    /\ owner' = [owner EXCEPT ![o] = [r EXCEPT !.refs = @ + 1, !.wallets = @ + 1]]
    /\ wallet' = [wallet EXCEPT ![w] = [NewWallet EXCEPT !.call = "waiting", !.of = o,
                                            !.lease = TRUE]]

Calls(w) == wallet[w].call = "none"

OpenNew(w) ==
    /\ Calls(w) /\ current = None
    /\ \E o \in Owner :
          /\ owner[o].ready = "unused" /\ \A p \in 1..(o - 1) : owner[p].ready # "unused"
          /\ Leased(o, w, [owner[o] EXCEPT !.ready = "pending"])
          /\ current' = o
    /\ UNCHANGED signer

\* At the limit the call is refused and changes nothing.
OpenShared(w) ==
    /\ Calls(w) /\ current # None /\ owner[current].wallets < MaxWallets
    /\ Leased(current, w, owner[current])
    /\ UNCHANGED <<current, signer>>

\* The owner is there: the opening is posted to its worker, unless it has stopped.
Proceed(w) ==
    /\ wallet[w].call = "waiting" /\ owner[wallet[w].of].ready = "ok"
    /\ wallet' = [wallet EXCEPT ![w].call = "opening",
                    ![w].request = IF ~owner[wallet[w].of].stopped THEN "posted"
                                                                       ELSE "rejected"]
    /\ UNCHANGED <<current, owner, signer>>

StartFailed(w) ==
    /\ wallet[w].call = "waiting" /\ owner[wallet[w].of].ready = "failed"
    /\ Release(w, 0, "failing")

\* The caller aborts while it waits for the owner.
Abort(w) ==
    /\ wallet[w].call = "waiting"
    /\ Release(w, 0, "failing")

\* The caller aborts, or the deadline passes, while the worker opens: the lease ends,
\* and the slot stays with the opening.
Abandon(w) ==
    /\ wallet[w].call = "opening" /\ wallet[w].request = "posted"
    /\ Release(w, 1, "failing")

\* The worker has opened the storage.  If the caller has aborted meanwhile, it is
\* closed again.
Opened(w) ==
    /\ wallet[w].request = "posted"
    /\ \/ wallet' = [wallet EXCEPT ![w].call = "open", ![w].request = "session"]
       \/ wallet' = [wallet EXCEPT ![w].call = "failing", ![w].request = "closing"]
    /\ UNCHANGED <<current, owner, signer>>

\* The worker could not open the storage, and may be unusable afterwards.
Refused(w) ==
    /\ wallet[w].request = "posted"
    /\ \/ /\ wallet' = [wallet EXCEPT ![w].request = "rejected"]
          /\ UNCHANGED <<current, owner>>
       \/ Stop(wallet[w].of)
    /\ UNCHANGED signer

Rejected(w) == wallet[w].request = "rejected" /\ Release(w, 0, "failing")

OrphanIsForgotten(o) ==          \* plausible bug: only the worker settles an opening
    /\ owner[o].orphans > 0 /\ ~owner[o].stopped
    /\ owner' = [owner EXCEPT ![o].orphans = @ - 1, ![o].wallets = @ - 1]
    /\ UNCHANGED <<current, wallet, signer>>
\* The worker settles an abandoned opening, what it has opened is closed again, and
\* the slot comes back.  When the owner stops, its openings are settled by that.
OrphanSettles(o) ==
    /\ owner[o].orphans > 0
    /\ owner' = [owner EXCEPT ![o].orphans = @ - 1, ![o].wallets = @ - 1]
    /\ UNCHANGED <<current, wallet, signer>>

-----------------------------------------------------------------------------
(* The end of a wallet *)

\* close() of a wallet; one whose session has crashed has been disposed of already,
\* or will be.
Close(w) ==
    /\ wallet[w].call = "open"
    /\ wallet' = [wallet EXCEPT ![w].call = "closing",
                                ![w].request = IF @ = "session" THEN "closing" ELSE @]
    /\ UNCHANGED <<current, owner, signer>>

SessionEndsTwice(w) ==           \* plausible bug: close() releases beside dispose()
    /\ \/ wallet[w].request \in {"closing", "crashed"}
       \/ wallet[w].call = "closing" /\ wallet[w].request = "none"
    /\ Release(w, 0, wallet[w].call)
\* The session is disposed of: its engine has closed, or it has crashed.
SessionEnds(w) ==
    /\ wallet[w].request \in {"closing", "crashed"}
    /\ Release(w, 0, wallet[w].call)

Returns(w, call) ==
    /\ wallet[w].call = call /\ ~wallet[w].lease
    /\ wallet[w].last => Destroyed(wallet[w].of)
    /\ wallet' = [wallet EXCEPT ![w] = NewWallet]
    /\ UNCHANGED <<current, owner, signer>>

OpenFails(w) == Returns(w, "failing")
Closed(w) == Returns(w, "closing")

-----------------------------------------------------------------------------
(* Signers *)

RetainUnchecked(s) ==            \* plausible bug: retain() without owner.check()
    /\ signer[s].state = "none"
    /\ \E w \in Wallet :
          /\ wallet[w].call \in {"open", "closing"}
          /\ owner' = [owner EXCEPT ![wallet[w].of].refs = @ + 1]
          /\ signer' = [signer EXCEPT ![s] = [NewSigner EXCEPT !.state = "held",
                                                            !.of = wallet[w].of]]
    /\ UNCHANGED <<current, wallet>>
\* An open wallet creates a signer, or one that is being closed.
Retain(s) ==
    /\ signer[s].state = "none"
    /\ \E w \in Wallet :
          LET o == wallet[w].of
          IN  /\ wallet[w].call \in {"open", "closing"}
              /\ ~owner[o].aborted /\ ~owner[o].stopped
              /\ owner' = [owner EXCEPT ![o].refs = @ + 1]
              /\ signer' = [signer EXCEPT ![s] = [NewSigner EXCEPT !.state = "held",
                                                                !.of = o]]
    /\ UNCHANGED <<current, wallet>>

\* The signer is disposed of, or was not created after all.
Dispose(s) ==
    /\ signer[s].state = "held"
    /\ signer' = [signer EXCEPT ![s].state = "releasing"]
    /\ UNCHANGED <<current, owner, wallet>>

\* The token cannot be released: its owner must end.
Invalidate(s) ==
    /\ signer[s].state = "releasing"
    /\ Stop(signer[s].of)
    /\ signer' = [signer EXCEPT ![s].state = "invalid"]

\* The token is gone, or was never issued, or its owner was destroyed: releaseOwner().
LetGo(s) ==
    LET o == signer[s].of
        last == owner[o].refs = 1
    IN  /\ \/ signer[s].state = "releasing"
           \/ signer[s].state = "invalid" /\ owner[o].torn # "no"
        /\ owner' = [owner EXCEPT ![o] = Left(@)]
        /\ current' = IF last /\ current = o THEN None ELSE current
        /\ wallet' = IF last THEN Notified(o) ELSE wallet
        /\ signer' = [signer EXCEPT ![s] = IF last THEN [@ EXCEPT !.state = "leaving"]
                                                    ELSE NewSigner]

SignerReturns(s) ==
    /\ signer[s].state = "leaving" /\ Destroyed(signer[s].of)
    /\ signer' = [signer EXCEPT ![s] = NewSigner]
    /\ UNCHANGED <<current, owner, wallet>>

-----------------------------------------------------------------------------
Startup(o) == Stage(o) \/ PoolStarts(o) \/ ComputeLoads(o) \/ Ready(o) \/ Admit(o)
Teardown(o) == TearDown(o) \/ FallBack(o) \/ GiveUp(o)
Calling(w) == Proceed(w) \/ StartFailed(w) \/ Rejected(w) \/ OpenFails(w)
Ending(w) == SessionEnds(w) \/ Closed(w)

\* Everything has ended, and the bound permits no other owner.
Quiet ==
    /\ current = None /\ \A o \in Owner : owner[o].ready \in {"ok", "failed"}
    /\ \A w \in Wallet : Calls(w)
    /\ UNCHANGED vars

Next ==
    \/ Quiet
    \/ \E o \in Owner : Startup(o) \/ Fails(o) \/ Teardown(o) \/ OrphanSettles(o)
    \/ \E w \in Wallet :
          \/ OpenNew(w) \/ OpenShared(w) \/ Abort(w) \/ Abandon(w)
          \/ Calling(w) \/ Opened(w) \/ Refused(w) \/ Close(w) \/ Ending(w)
    \/ \E s \in Signer :
          \/ Retain(s) \/ Dispose(s) \/ Invalidate(s) \/ LetGo(s) \/ SignerReturns(s)

\* Timers fire, promises settle, a worker's termination settles, and an engine that
\* is asked to close answers.  A worker that opens a storage need not.
Fairness ==
    /\ \A o \in Owner :
          /\ WF_vars(Startup(o) \/ (owner[o].ready = "pending" /\ Fails(o)))
          /\ WF_vars(Teardown(o))
          /\ WF_vars(owner[o].stopped /\ OrphanSettles(o))
    /\ \A w \in Wallet : WF_vars(Calling(w)) /\ WF_vars(Abandon(w)) /\ WF_vars(Ending(w))

Spec == Init /\ [][Next]_vars /\ Fairness

-----------------------------------------------------------------------------
(* Properties *)

Wallets(o) == Cardinality({w \in Wallet : wallet[w].of = o /\ wallet[w].lease})
Signers(o) ==
    Cardinality({s \in Signer : signer[s].of = o
                            /\ signer[s].state \in {"held", "releasing", "invalid"}})

\* On every path that ends an opening, a session or a signer, exactly one lease and one
\* slot come back: the counters are what is leased, and an owner never serves more
\* wallets than its limit, openings that were abandoned included.
LeasesExact ==
    \A o \in Owner :
       /\ owner[o].refs = Wallets(o) + Signers(o)
       /\ owner[o].wallets = Wallets(o) + owner[o].orphans
       /\ owner[o].wallets <= MaxWallets

\* An owner that was aborted is never handed out again, to a wallet or to a signer; the
\* one in the map is leased, and has not stopped after it was admitted.
NotHandedOut ==
    /\ \A o \in Owner : owner[o].aborted => owner[o].refs = 0
    /\ current # None =>
          /\ owner[current].refs > 0
          /\ owner[current].phase = "admitted" => ~owner[current].stopped

\* A baseline worker never runs beside the threaded one it replaces, or beside the compute
\* workers of that one.  When all calls of an owner's users have returned and no lease is
\* left, no worker of it is alive, unless one could not be terminated.
NoStrayWorker ==
    \A o \in Owner :
       /\ ~({"baseline", "threaded"} \subseteq owner[o].live)
       /\ ~({"baseline", "compute"} \subseteq owner[o].live)
       /\ /\ owner[o].ready # "unused" /\ owner[o].refs = 0
          /\ \A w \in Wallet : wallet[w].of # o
          /\ \A s \in Signer : signer[s].of # o
          => owner[o].live = {} \/ owner[o].torn = "failed"

\* Opening a wallet returns, although the worker may never answer; an abandoned opening
\* may keep its slot as long as its owner lives, but not longer.
OpensReturn ==
    /\ \A w \in Wallet :
          wallet[w].call \in {"waiting", "opening", "failing"} ~>
          wallet[w].call \notin {"waiting", "opening", "failing"}
    /\ \A o \in Owner : owner[o].aborted ~> owner[o].wallets = 0
=============================================================================
