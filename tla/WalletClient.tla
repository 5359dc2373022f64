---------------------------- MODULE WalletClient ----------------------------
(***************************************************************************)
(* The wallet client: its roles, its signer bindings, and its close().     *)
(*                                                                         *)
(* wallet.ts wraps every method in call(): it is refused once close() has  *)
(* begun, and its signal aborts with the caller's and with close().  The   *)
(* methods here are those that hold something over their awaits:           *)
(*   create (accounts.ts, mnemonic.ts, memory-signer.ts) makes an account  *)
(*     and a native signer token, which the caller must get or give back;  *)
(*   attachSigner, detachSigner, remove (accounts.ts) change the binding   *)
(*     of an account and the native binding of a mnemonic signer;          *)
(*   send, prove, sign, finalize (execute.ts, proposals.ts, sign.ts) build,*)
(*     prove, authorize and finalize one operation, holding the owner's    *)
(*     proof slot and loading proving assets through the application.      *)
(* One account, one operation and one port are modelled; the commands go   *)
(* through the port's queue in order (WalletHost), and the engine's side   *)
(* of a command is external.  A call is the list of steps it has left.     *)
(***************************************************************************)
EXTENDS Integers, Sequences, FiniteSets

CONSTANTS
    Call,          \* the calls made over the client's life
    Work,          \* the methods they may be
    Memory,        \* mnemonic signers: a token of the native engine
    Custom,        \* signers of the application
    MaxTrouble,    \* how many commands may fail, the loss of the worker included
    None

Signer == Memory \cup Custom
Asset == 1..2      \* the spend and output parameters

ASSUME CallAssumption == IsFiniteSet(Call) /\ None \notin Call
ASSUME NoneAssumption == None \notin [signer : Signer, unbind : {"no", "asked", "failed"}]
ASSUME WorkAssumption ==
    Work \subseteq {"create", "attach", "detach", "remove", "send", "prove", "sign", "finalize"}
ASSUME SignerAssumption == None \notin Signer /\ Memory \cap Custom = {}
ASSUME TroubleAssumption == MaxTrouble \in Nat

VARIABLES
    call,          \* call[c]: [does, signer, plan, cut], plan being the steps left
    attaching,     \* the call that attaches a signer (attaching)
    binding,       \* [signer, unbind]: the account's binding (bindings), or None
    queue,         \* the commands at the port, the first one running
    engine,        \* "open", "crashed" or "closed"
    tokens,        \* the calls whose signer token lives in the engine
    given,         \* those whose caller has been given the signer
    bound,         \* the mnemonic signers the engine has bound to the account
    stray,         \* those whose unbind it refused while an attachment unwound
    finalized,     \* how often the engine has finalized the operation
    slot,          \* the call that holds the proof slot (proving.active)
    assets,        \* [memory, asset, phase, life]: what is kept, and the load that runs
    closing,       \* "open", or how far close() is
    trouble        \* how many commands have failed

signers == <<tokens, given, bound, stray>>
native == <<queue, engine, signers, finalized, trouble>>
vars == <<call, attaching, binding, slot, assets, closing, native>>

-----------------------------------------------------------------------------
(* Steps *)

Proving(load) == <<"retained">> \o load \o <<"prove">>
Finalizing(load) == <<"finalized", "retained">> \o load \o <<"finalize">>
Signing == <<"restore", "authorize", "import">>

\* What a method awaits, in order.  Steps of one party between which nothing is kept
\* or checked are one step.  A custom signer that can authorize an unproved artifact
\* does so first; only a transaction with sapling inputs loads the assets.
Plans(does, s) ==
    LET load == {<<>>, <<"load">>}
    IN  CASE does = "create" -> {<<"issue", "describe">>}
          [] does = "attach" ->
               {IF s \in Memory THEN <<"replace", "bind">>
                                ELSE <<"replace", "account", "ask", "check">>}
          [] does = "detach" -> {<<"replace">>}
          [] does = "remove" -> {<<"remove", "replace">>}
          [] does = "send" ->
               IF s \in Memory THEN {<<"state", "load", "fused">>}
               ELSE UNION {{<<"state", "ask", "build">> \o Proving(l) \o Signing \o Finalizing(l),
                            <<"state", "ask", "build">> \o Signing \o Proving(l) \o Finalizing(l)}
                           : l \in load}
          [] does = "prove" -> {Proving(l) : l \in load}
          [] does = "sign" -> {Signing}
          [] does = "finalize" -> {Finalizing(l) : l \in load}

\* Who signs: the signer to attach, or the one a payment is given or finds attached.
Choice(does) == IF does \in {"attach", "send"} THEN Signer ELSE {None}

\* The steps that wait for the application, those that hold the proof slot, and those
\* that are commands.  One that is sent without a signal cannot be withdrawn, and the
\* answer to an unsignalled one is for nobody.
Asking == {"ask", "authorize"}
SlotHeld == {"retained", "load", "prove", "finalize", "fused"}
Unsignalled == {"report", "unwind", "release"}
Command == {"state", "build", "retained", "prove", "finalized", "finalize", "fused",
            "restore", "import", "account", "check", "bind", "remove", "issue",
            "describe"} \cup Unsignalled

Withdrawable == Command \ (Unsignalled \cup {"describe"})

At(c, step) == call[c].plan # <<>> /\ Head(call[c].plan) = step
AtAny(c, steps) == call[c].plan # <<>> /\ Head(call[c].plan) \in steps
Live(c) == call[c].plan # <<>>

Init ==
    /\ call = [c \in Call |-> [does |-> "nothing", signer |-> None, plan |-> <<>>, cut |-> FALSE]]
    /\ attaching = None /\ binding = None /\ slot = None
    /\ queue = <<>> /\ engine = "open" /\ tokens = {} /\ given = {} /\ bound = {} /\ stray = {}
    /\ finalized = 0 /\ trouble = 0
    /\ assets = [memory |-> {}, asset |-> 0, phase |-> "idle", life |-> "open"]
    /\ closing = "open"

\* The call goes on with plan p, q being the queue its handler found: a command is
\* posted, the proof slot is taken or given back.
Moves(c, p, q) ==
    /\ call' = [call EXCEPT ![c].plan = p]
    /\ queue' = IF p # <<>> /\ Head(p) \in Command
                  THEN Append(q, [by |-> c, op |-> Head(p)]) ELSE q
    /\ slot' = IF p # <<>> /\ Head(p) \in SlotHeld THEN c
               ELSE IF slot = c THEN None ELSE slot
    /\ attaching' = IF attaching = c /\ (p = <<>> \/ Head(p) = "unwind") THEN None ELSE attaching

FailsSilently(c, p, q) ==        \* plausible bug: a bind that was answered is not undone
    Moves(c, IF call[c].does = "send" /\ engine = "open" THEN <<"report">> ELSE <<>>, q)
\* The call fails where it had plan p left.  An attachment that reached its bind undoes
\* it, and a signer that nobody gets is released; a payment reads the state of its
\* operation for the error.
Fails(c, p, q) ==
    Moves(c, IF engine # "open" THEN <<>>
             ELSE CASE call[c].does = "attach" /\ p = <<"bind">> -> <<"unwind">>
                    [] call[c].does = "create" /\ p = <<"describe">> -> <<"release">>
                    [] call[c].does = "send" -> <<"report">>
                    [] OTHER -> <<>>, q)

BusyAllowed(c, p) == TRUE        \* plausible bug: startProof() does not look
\* startProof() refuses a second proof.
SlotFree(c, p) == slot \in {None, c} \/ Head(p) \notin SlotHeld

\* The call goes on with plan p if nothing stops it before the next await.
Goes(c, p, q) ==
    IF p # <<>> /\ (~SlotFree(c, p) \/ call[c].cut \/ engine # "open")
      THEN Fails(c, p, q)
      ELSE Moves(c, p, q)

-----------------------------------------------------------------------------
(* Calls *)

\* call(): refused after close() or the loss of the worker.  A second attachment is
\* refused, and so are a detachment and a removal beside one.
Begin(c) ==
    /\ closing = "open" /\ engine = "open"
    /\ call[c].does = "nothing"
    /\ \E does \in Work : \E s \in Choice(does) : \E p \in Plans(does, s) :
         /\ does \in {"attach", "detach", "remove"} => attaching = None
         /\ SlotFree(c, p)
         /\ call' = [call EXCEPT ![c] = [does |-> does, signer |-> s, plan |-> p, cut |-> FALSE]]
         /\ attaching' = IF does = "attach" THEN c ELSE attaching
         /\ slot' = IF Head(p) \in SlotHeld THEN c ELSE slot
         /\ queue' = IF Head(p) \in Command THEN Append(queue, [by |-> c, op |-> Head(p)])
                     ELSE queue
    /\ UNCHANGED <<binding, assets, closing, engine, signers, finalized, trouble>>

\* The caller aborts.
Abort(c) ==
    /\ Live(c) /\ ~call[c].cut
    /\ call' = [call EXCEPT ![c].cut = TRUE]
    /\ UNCHANGED <<attaching, binding, slot, assets, closing, native>>

RacedNowhere == {}               \* plausible bug: a callback is awaited without the signal
Raced == Asking
\* The abort reaches what is awaited: a queued command is withdrawn, a running one is
\* awaited, a callback is left alone.
Interrupted(c) ==
    /\ call[c].cut
    /\ \/ /\ AtAny(c, Raced)
          /\ Fails(c, call[c].plan, queue)
       \/ /\ AtAny(c, Withdrawable)
          /\ \E i \in DOMAIN queue :
               /\ queue[i].by = c /\ i > 1
               /\ Fails(c, call[c].plan,
                        SubSeq(queue, 1, i - 1) \o SubSeq(queue, i + 1, Len(queue)))
    /\ UNCHANGED <<binding, assets, closing, engine, signers, finalized, trouble>>

\* The application answers a callback, or fails; it need not do either.
Answered(c) ==
    /\ AtAny(c, Asking)
    /\ \/ Goes(c, Tail(call[c].plan), queue)
       \/ Fails(c, call[c].plan, queue)
    /\ UNCHANGED <<binding, assets, closing, engine, signers, finalized, trouble>>

\* A command is answered, truly or with an error.  An aborted call is rejected although
\* the engine did what it was told.
Told(c, ok, q) ==
    LET p == call[c].plan
    IN  CASE Head(p) \in Unsignalled -> Moves(c, <<>>, q)
          [] Head(p) \notin Unsignalled /\ (~ok \/ call[c].cut) ->
               Fails(c, IF ok /\ Head(p) = "issue" THEN Tail(p) ELSE p, q)
          [] Head(p) \in {"state", "finalized"} /\ ok /\ ~call[c].cut /\ finalized > 0 ->
               Moves(c, <<>>, q)
          [] OTHER -> Goes(c, Tail(p), q)

\* attachSigner() publishes the binding when its last command has succeeded.
Published(c, ok) ==
    call[c].does = "attach" /\ ok /\ ~call[c].cut /\ Len(call[c].plan) = 1 /\ ~At(c, "unwind")

Run ==
    /\ engine = "open" /\ queue # <<>> /\ Head(queue).by \in Call
    /\ \E ok \in BOOLEAN :
         LET c == Head(queue).by
             op == Head(queue).op
             s == {call[c].signer}
         IN  /\ ok \/ (trouble < MaxTrouble /\ op # "release")
             /\ trouble' = IF ok THEN trouble ELSE trouble + 1
             /\ tokens' = CASE ok /\ op = "issue" -> tokens \cup {c}
                            [] ok /\ op = "release" -> tokens \ {c}
                            [] OTHER -> tokens
             /\ given' = IF op = "describe" /\ ok /\ ~call[c].cut THEN given \cup {c} ELSE given
             /\ bound' = CASE ok /\ op = "bind" -> bound \cup s
                           [] ok /\ op = "unwind" -> bound \ s
                           [] OTHER -> bound
             /\ stray' = CASE ~ok /\ op = "unwind" -> stray \cup s
                           [] ok /\ op \in {"bind", "unwind"} -> stray \ s
                           [] OTHER -> stray
             /\ finalized' = IF ok /\ op \in {"fused", "finalize"} THEN finalized + 1 ELSE finalized
             /\ binding' = IF Published(c, ok) THEN [signer |-> call[c].signer, unbind |-> "no"]
                           ELSE binding
             /\ Told(c, ok, Tail(queue))
    /\ UNCHANGED <<assets, closing, engine>>

\* The worker is gone, or is ended because a token cannot be released: every command
\* is rejected, and nothing else fails.
Crash ==
    /\ engine = "open"
    /\ \/ trouble < MaxTrouble
       \/ queue # <<>> /\ Head(queue).op = "release"
    /\ engine' = "crashed" /\ trouble' = MaxTrouble
    /\ queue' = <<>>
    /\ UNCHANGED <<call, attaching, binding, slot, assets, closing, signers, finalized>>

Rejected(c) ==
    /\ engine # "open" /\ AtAny(c, Command)
    /\ Fails(c, call[c].plan, queue)
    /\ UNCHANGED <<binding, assets, closing, engine, signers, finalized, trouble>>

-----------------------------------------------------------------------------
(* The binding *)

\* binding.dispose(): its promise is kept, so the unbind is asked for once.
Disposing ==
    /\ binding # None /\ binding.unbind = "no"
    /\ IF binding.signer \in Memory /\ engine = "open"
         THEN /\ binding' = [binding EXCEPT !.unbind = "asked"]
              /\ queue' = Append(queue, [by |-> None, op |-> "unbind"])
         ELSE binding' = None /\ UNCHANGED queue

\* The application disposes of the binding it holds.
DisposeBinding ==
    /\ Disposing
    /\ UNCHANGED <<call, attaching, slot, assets, closing, engine, signers, finalized, trouble>>

\* A call awaits the disposal of the binding there is.
Replace(c) ==
    /\ At(c, "replace")
    /\ IF binding = None
         THEN Goes(c, Tail(call[c].plan), queue) /\ UNCHANGED binding
         ELSE /\ \/ Disposing
                 \/ binding.unbind # "no" /\ UNCHANGED <<binding, queue>>
              /\ call' = [call EXCEPT ![c].plan[1] =
                            IF binding.unbind = "failed" THEN "refused" 
                            ELSE IF binding' = None THEN "replaced" ELSE "waiting"]
              /\ UNCHANGED <<attaching, slot>>
    /\ UNCHANGED <<assets, closing, engine, signers, finalized, trouble>>

\* All who await a disposal are told its end.
Waiters(end) ==
    [c \in Call |-> IF At(c, "waiting") THEN [call[c] EXCEPT !.plan[1] = end] ELSE call[c]]

\* The unbind is answered, or lost with the worker, which counts as done.
Unbind ==
    /\ engine = "open" /\ queue # <<>> /\ Head(queue).op = "unbind"
    /\ queue' = Tail(queue)
    /\ \/ /\ bound' = bound \ {binding.signer}
          /\ binding' = None
          /\ call' = Waiters("replaced")
          /\ UNCHANGED trouble
       \/ /\ trouble < MaxTrouble /\ trouble' = trouble + 1
          /\ binding' = [binding EXCEPT !.unbind = "failed"]
          /\ call' = Waiters("refused")
          /\ UNCHANGED bound
    /\ UNCHANGED <<attaching, slot, assets, closing, engine, tokens, given, stray, finalized>>

UnbindLost ==
    /\ engine # "open" /\ binding # None /\ binding.unbind = "asked"
    /\ binding' = None
    /\ call' = Waiters("replaced")
    /\ UNCHANGED <<attaching, slot, assets, closing, native>>

Replaced(c) ==
    /\ \/ At(c, "replaced") /\ Goes(c, Tail(call[c].plan), queue)
       \/ At(c, "refused") /\ Fails(c, call[c].plan, queue)
    /\ UNCHANGED <<binding, assets, closing, engine, signers, finalized, trouble>>

-----------------------------------------------------------------------------
(* Proving assets *)

\* loadSapling() stops at its checks when the caller or the wallet has gone.
Stopped(c) == call[c].cut \/ assets.life # "open"

LoadFails(c) ==
    /\ assets' = [assets EXCEPT !.asset = 0, !.phase = "idle"]
    /\ Fails(c, call[c].plan, queue)

\* An asset is taken from memory, or the application is asked for it.
Load(c) ==
    /\ At(c, "load") /\ assets.phase = "idle"
    /\ IF Stopped(c) THEN LoadFails(c)
       ELSE /\ assets' = [assets EXCEPT !.asset = @ + 1,
                            !.phase = IF assets.asset + 1 \in assets.memory THEN "hash" ELSE "ask"]
            /\ UNCHANGED <<call, queue, slot, attaching>>
    /\ UNCHANGED <<binding, closing, engine, signers, finalized, trouble>>

Loaded(c) ==
    /\ At(c, "load") /\ assets.phase = "ask"
    /\ \/ LoadFails(c)
       \/ /\ assets' = [assets EXCEPT !.phase = "hash"]
          /\ UNCHANGED <<call, queue, slot, attaching>>
    /\ UNCHANGED <<binding, closing, engine, signers, finalized, trouble>>

LoadStopped(c) ==
    /\ At(c, "load") /\ assets.phase = "ask" /\ Stopped(c)
    /\ LoadFails(c)
    /\ UNCHANGED <<binding, closing, engine, signers, finalized, trouble>>

\* The digest is computed to its end; then the asset is kept, unless it came too late.
Hashed(c) ==
    /\ At(c, "load") /\ assets.phase = "hash"
    /\ IF Stopped(c) THEN LoadFails(c)
       ELSE /\ assets' = [assets EXCEPT !.memory = @ \cup {assets.asset},
                            !.asset = IF @ + 1 \in Asset THEN @ ELSE 0, !.phase = "idle"]
            /\ IF assets.asset + 1 \in Asset
                 THEN UNCHANGED <<call, queue, slot, attaching>>
                 ELSE Goes(c, Tail(call[c].plan), queue)
    /\ UNCHANGED <<binding, closing, engine, signers, finalized, trouble>>

\* dispose() of the port closes the assets, awaits a load that runs, and forgets them.
CloseAssets ==
    /\ engine # "open"
    /\ \/ /\ assets.life = "open"
          /\ assets' = [assets EXCEPT !.life = "closing"]
       \/ /\ assets.life = "closing" /\ assets.phase = "idle"
          /\ assets' = [assets EXCEPT !.life = "closed", !.memory = {}]
    /\ UNCHANGED <<call, attaching, binding, slot, closing, native>>

-----------------------------------------------------------------------------
(* close() *)

Close ==
    /\ closing = "open"
    /\ closing' = "drain"
    /\ call' = [c \in Call |-> [call[c] EXCEPT !.cut = Live(c)]]
    /\ UNCHANGED <<attaching, binding, slot, assets, native>>

DrainedAtOnce ==                 \* plausible bug: the calls are aborted and not awaited
    closing = "drain"
\* Every call has ended.
Drained == closing = "drain" /\ \A c \in Call : ~Live(c)

\* The binding is disposed of; whatever comes of it, the wallet is closed.
CloseAccounts ==
    /\ \/ /\ Drained
          /\ IF binding # None /\ binding.unbind = "no"
               THEN Disposing ELSE UNCHANGED <<binding, queue>>
          /\ closing' = "unbind"
       \/ /\ closing = "unbind"
          /\ binding # None => binding.unbind = "failed"
          /\ binding' = None
          /\ IF engine = "open"
               THEN queue' = Append(queue, [by |-> None, op |-> "close"]) /\ closing' = "close"
               ELSE closing' = "dispose" /\ UNCHANGED queue
    /\ UNCHANGED <<call, attaching, slot, assets, engine, signers, finalized, trouble>>

CloseWallet ==
    /\ closing = "close"
    /\ \/ /\ engine = "open" /\ queue # <<>> /\ Head(queue).op = "close"
          /\ queue' = Tail(queue) /\ engine' = "closed"
       \/ engine = "crashed" /\ UNCHANGED <<queue, engine>>
    /\ closing' = "dispose"
    /\ UNCHANGED <<call, attaching, binding, slot, assets, signers, finalized, trouble>>

Closed ==
    /\ closing = "dispose" /\ assets.life = "closed"
    /\ closing' = "closed"
    /\ UNCHANGED <<call, attaching, binding, slot, assets, native>>

Rest == closing = "closed" /\ UNCHANGED vars

-----------------------------------------------------------------------------
CallStep(c) == Interrupted(c) \/ Rejected(c) \/ Replace(c) \/ Replaced(c)
LoadStep(c) == Load(c) \/ LoadStopped(c) \/ Hashed(c)
EngineStep == Run \/ Unbind \/ UnbindLost
CloseStep == CloseAccounts \/ CloseWallet \/ CloseAssets \/ Closed

Next ==
    \/ \E c \in Call : Begin(c) \/ Abort(c) \/ Answered(c) \/ Loaded(c)
    \/ \E c \in Call : CallStep(c) \/ LoadStep(c)
    \/ EngineStep \/ Crash \/ DisposeBinding
    \/ Close \/ CloseStep
    \/ Rest

\* Promises settle, the engine answers what it is sent, a digest ends.  The application
\* need not answer its callbacks, nor abort, nor close.
Fairness ==
    /\ \A c \in Call : WF_vars(CallStep(c)) /\ WF_vars(LoadStep(c))
    /\ WF_vars(EngineStep)
    /\ WF_vars(CloseStep)

Spec == Init /\ [][Next]_vars
FairSpec == Spec /\ Fairness

-----------------------------------------------------------------------------
(* Properties *)

\* An operation is finalized at most once, by whatever mix of payments and explicit
\* roles, although each looks at the operation, awaits proofs and callbacks, and
\* finalizes what it built: the look and the proof slot are one step.
FinalizedOnce == finalized <= 1

\* The engine's signers are those the wallet and its callers know.  A token belongs to
\* a caller, or to a call that is still about it.  A signer that is bound is the
\* published one, or is being unbound by the attachment that failed, or could not be;
\* a published mnemonic signer is bound until its disposal is asked for, also when an
\* earlier attachment of it was undone.
SignersExact ==
    engine = "open" /\ closing \in {"open", "drain", "unbind"} =>
        /\ \A c \in tokens : c \in given \/ Live(c)
        /\ \A s \in bound :
              \/ binding # None /\ binding.signer = s
              \/ s \in stray
              \/ \E c \in Call : call[c].signer = s /\ At(c, "unwind")
        /\ binding # None /\ binding.signer \in Memory /\ binding.unbind # "asked" =>
              binding.signer \in bound

\* What a call held is given back: the proof slot belongs to a live call that proves,
\* an asset is loaded for it alone, and when close() has resolved no call runs, no
\* signer is attached, and no asset is kept.
NothingHeld ==
    /\ slot # None => AtAny(slot, SlotHeld)
    /\ assets.phase # "idle" => slot # None /\ At(slot, "load")
    /\ attaching # None => Live(attaching) /\ call[attaching].does = "attach"
    /\ closing = "closed" =>
          /\ \A c \in Call : ~Live(c)
          /\ binding = None /\ slot = None /\ assets.memory = {}

\* An aborted call ends and close() resolves, although the application answers no
\* callback, the signer cannot be unbound, or the worker is lost.
RolesEnd ==
    /\ \A c \in Call : call[c].cut ~> ~Live(c)
    /\ closing # "open" ~> closing = "closed"
=============================================================================
