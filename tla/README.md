# TLA+ specifications of zcash.js

zcash.js is a wallet SDK: an API in the caller's thread, a native wallet engine
in a worker with a durable SQLite database, light-server and node transports,
signers, and a payment journal that survives crashes. Its hard parts are not
its formats but its order of events. A command's caller may abort it while the
engine runs it; several ports share one engine and one budget; the source may
take a transaction and lose the reply; the source's chain moves between any two
reads of it; a wallet may die between any two writes and be opened again over the
same journal. These specifications are about that.

All paths below are relative to the repository; line numbers are those of the
commit beside which this directory is kept. `PROJECT.json` maps every
definition to the lines it models.

## 1. Inventory

| Component | State it keeps | Operations and interactions | What is hard | What makes it correct |
|---|---|---|---|---|
| **Wallet call queue**, `host.ts` | a queue, an active job and a byte count per port; jobs, bytes, an `active` flag and the pumps to wake per native owner; receipts of rejections | `call`, abort callback, `pump`, `release`, `onmessage`, `crashed`, `close`, `dispose`. Every other wallet component calls it | aborts against running commands, asynchronous installation of abort listeners, three parties that pump, a crash that reaches every port | a receipt never lies, one command at a time, the budget never drifts, every call settles, `close()` resolves |
| **Worker side and session**, `worker.ts`, `session.ts`, `commands.ts` | last id of a port, engine instance | envelope check, run a command, translate errors to a completion | an error without a completion, an engine that became unusable | the completion says what was committed |
| **Payment recovery**, `payments.ts` 747-890 | `ready`, the remembered run; in the journal the operations, the observation position, attempt budgets | `recover` at opening: local pass, then a network pass until a deadline | deadline against a late answer, rows that always fail, repeated crashes, a position beyond the inventory | a ready wallet has reconciled everything, the report is exact, opening returns, no payment starves |
| **Payment submission**, `payments.ts` 382-615, `host.ts` `payments.start` | the set of operations being submitted; in the journal attempts and evidence | `broadcast`, `dispatch`; calls sync to refresh, the source to observe and transmit, the journal before and after | lost and late replies, aborts between the durable attempt and the transmission, two callers, evidence that ages | a transmission belongs to one durable attempt, outcomes are honest and final, parents before children |
| **Payment events and wait**, `payments.ts` 617-745, `src/observer-buffer.ts` | a bounded buffer per reader, a poller, a timer | `events`, `wait` | a slow reader, the end of the stream against a waiting reader, a source that does not answer | states in order and once, whoever is cut short is let go with the poller |
| **Payment source**, `payment-source.ts` | verified identity and route | `observe` (status, inclusion and tip as separate reads), `broadcast` | servers that do not agree, a chain that moves between reads | evidence is coherent with one tip or is refused |
| **Wallet sync**, `sync.ts`, `enhancement.ts` | the running run, watchers, activity; of a run the target, the pin, the pass, the batch | `sync`, `watchSync`, `stop`, `refreshForSubmission`; pin, fork search, rewind, ingest, enhancement, completion | plans that go stale, reorganizations during the fork search, a watcher that arrives while the sync stops | one run at a time, rewinds only to a common block, a target reported reached was served, every watcher ends |
| **Owner pool and worker startup**, `runtime/wallet.ts`, `wallet-worker.ts` | owners by key, references, capacity, startup phase, compute workers | open, release, fallback from threads, crash | abandoned openings, the last release against a new open, a pool that is only half loaded | a destroyed owner is never handed out, capacity returns |
| **Runtime artifacts**, `runtime/artifacts.ts`, `runtime/package-assets.ts`, `runtime/worker-platform.ts` | the verified bytes, the staged files | acquire the pinned manifest and its files, stage, release | two time limits, a stop during the staging, bodies of any length | only verified bytes are staged, nothing is left staged |
| **Accounts and signers**, `accounts.ts`, `mnemonic.ts`, `memory-signer.ts`, `signer-selector.ts`, `src/signer.ts` | bindings, issued native tokens | attach, detach, remove, create, close; callbacks of the application's signers | an abort after the native bind, one of several unbinds failing | every issued authority is released once or is bound where it is published |
| **Client facade**, `src/wallet.ts`, `src/options.ts` | active calls, `closing` | construction, `close`; every method goes through `call()` | teardown order, callbacks that never answer | nothing runs on a closed wallet, `close()` resolves |
| **Roles**, `proposals.ts`, `propose-intent.ts`, `sign.ts`, `execute.ts`, `src/pczt.ts` | artifacts of an operation, the proof slot | propose, build, prove, sign, finalize, send | retries of a step already done, two roles on one operation | one finalization, the slot comes back |
| **Proving assets**, `proving-assets.ts`, `runtime/package-proving.ts` | a load, a memory cache, a persistent cache | load, verify, write | close or a crash during a load or a write, a loader that goes on, other processes on one directory | only pinned bytes are used, the cache never holds a part of a file, nothing is kept after `close()` |
| **HTTP JSON-RPC**, `src/http.ts` | one attempt with a deadline | reads with retries, `sendRawTransaction` | the deadline against a dispatch, an answer after the stop | one dispatch of a transaction, a true report of it |
| **gRPC transports**, `src/grpc.ts`, `clients/grpc-*.ts` | a frame assembler, a channel per operation | streams, trailers, retries | chunks that split anywhere, a stop while the channel opens | the same messages however they are cut, every channel closed |
| **Light client**, `src/light.ts`, `clients/custom-light.ts`, `clients/light-*-reads.ts` | whether the server is verified; three nested operations | unary reads, block and transaction streams, broadcast, over a transport of the application | an abort from inside the transport's own calls, a foreign iterator | every foreign iterator is returned once, blocks are linked |
| **Public client**, `src/public.ts`, `clients/public-*-reads.ts` | none beside the call | status, block, tree state, subtree roots composed of several reads; `waitForTransaction` | the chain moves between the reads | a composed answer was true of one chain |
| **Value formats**, `src/amounts.ts`, `src/network*.ts`, `src/primitives.ts`, `src/errors.ts`, ... | none | parsing, formatting | | data: not modelled |
| **Native engine** (external, compiled) | the database | commands | | modelled from how the SDK uses it |

Files are in `src/src/wallet/` unless a directory is given; `src/` stands for `src/src/`,
and `clients/` and `runtime/` are below that.

The components meet at five places: the call queue (everything durable goes
through it and decides from its receipts), the payment journal (recovery,
submission and events read and write it), the abort signals (`operation()` of
`abort.ts` joins a caller's signal with the one of `close()`), the working memory
and the proof slot that the queue's owner hands out, and the observer buffer, which
sync watchers and payment readers share.

## 2. Modules

| Module | What it is |
|---|---|
| `CallReceipts` | the abstract promise about a command: it settles once and its settlement is true |
| `WalletHost`, `MCWalletHost` | the call queue, its worker and the engine's answers |
| `WalletHostProofs` | proofs about it: types, honest receipts, exclusion, the exact budget, that it implements `CallReceipts`, that no wake-up is lost and that a close drains its port |
| `PaymentRecovery`, `MCPaymentRecovery` | opening a wallet again and again over a journal |
| `PaymentRecoveryProofs` | proofs about it: types, and that the report is exact and a ready wallet reconciled |
| `PaymentSubmission`, `MCPaymentSubmission` | submitting one operation |
| `PaymentSubmissionProofs` | proofs about it: types and bounds, attempts transmit once, with honest and final outcomes, one at a time, and on evidence that is new enough |
| `PaymentWatch`, `MCPaymentWatch` | `events()` and `wait()`: the poller, one observation read by read, the reader |
| `PaymentWatchProofs` | proofs about it: coherent observations, states in order |
| `WalletSync`, `MCWalletSync` | who runs, joins, watches and stops the sync, and `close()` of the client |
| `ScanRun`, `MCScanRun` | the inside of one sync run |
| `ScanRunProofs` | proofs about both modules of the sync: watchers are served, only the owner of a run cuts it; a reached target was served, rewinds are justified, evidence is coherent |
| `OwnerPool`, `MCOwnerPool` | native owners leased by wallets and signers, from start to teardown |
| `OwnerPoolProofs` | proofs about it: exact leases, no aborted owner is handed out, no worker outlives its users |
| `WalletClient`, `MCWalletClient` | accounts, signers, roles, proving assets and the teardown of the client |
| `WalletClientProofs` | proofs about it: one finalization, exact signers, nothing held that is not used |
| `EndpointCall` | the abstract promise about one exchange with a server |
| `Endpoint` | what the transports and clients share: the caller, the retry policy, the server's word |
| `HttpTransport` | JSON-RPC over HTTP |
| `GrpcWeb`, `GrpcNode` | the two gRPC transports |
| `LightReads`, `PublicReads` | the light and the public client |
| `ArtifactLoad` | acquiring and staging the executable of an owner |
| `AssetCache` | one load of the proving assets: caches, loaders, verification |
| `MCEndpoints` | the seven parts above together, and that each implements `EndpointCall` |
| `EndpointProofs` | proofs about it: answers are true of one chain, streams are exact, everything is given back, and each part implements `EndpointCall` |

### WalletHost

State corresponds to code as follows: `queue`, `active`, `bytes`, `nextId`,
`stopped`, `closing` are the closure variables of `attachWalletWorker` for each
port; `shared` is the `WalletQueueBudget`; `wake` says that the microtask of
`release` is queued; `ready` and `cancelled` are fields of a job; `destroyed` is
the outcome of `dispose`. `status` stands for the promise of a call, with the
completion of its receipt when it was rejected. `wire` and `reply` are the two
directions of the message port, `lastId` the worker's check, and `effect` is a
history: the calls whose durable change the engine has made.

A handler runs to its end without interruption, so each is one action, with the
synchronous `pump()` at its end (`PumpAfter`) and with `crashed()` on every port
(`CrashFrom`), because `shared.crash` calls them all. What JavaScript defers is a
separate action: `Watched` and `WatchFailed` (the promise of `watch()`), `Wake`
(the microtask), `Run` (the worker), `Receive` (the message event), `Dispose` and
`Closed`. Arguments are reduced to their size and whether they carry an abort
signal. `Run` gives every answer the session can give: a success that committed, a
refusal that did not, a failure that did, and a failure that does not know.

### PaymentRecovery

`rows`, `position` and `budget` are durable. `scan` holds the captured
high-water mark, the current page, the ranges of `recoveryRows()` and the row in
hand; `stage` is where `recoverPayment()` is with that row; `report` is what
`recover()` will return. `expired` is the timer of the pass, `aborted` the caller's
signal. An opening that failed cannot be retried, since `recover()` remembers its
promise, so the next session starts from `closed`.

### PaymentSubmission

`attempts` and `evidence` are the journal, `flights` and `ledger` what the source
was sent and knows. `job[c].pc` is the `await` at which the submission of caller
`c` stands; `job[c].attempt` the attempt it has to settle. An observation is one
step, although the source is read before its evidence is stored: whatever
happens between the two may also happen right after. Bytes that were sent may
arrive at any later time (`Arrive`), after the caller has given up on them, and the
source's word then reaches nobody. The states of the source's chain are numbered;
two tips are equal when their height and hash are.

### WalletSync

`running` is the promise of that name with its controller: who owns it, where it stands, and
whether its signal was aborted. `watching` and `watchCut` are the background loop
and its `watchController`; `stage`, `buffer` and `reading` an iterator of
`watchSync()` with its `Subscriber` and its `ObserverBuffer`, of which only the
number of waiting statuses matters. `submission` is a pending
`refreshForSubmission()`, `closing` what the client's `close()` awaits. `aborted`
holds the users whose signal is aborted; `close()` aborts all of them.

`startWatching()`, `publish()` and `finish()` run synchronously, so they are part of
the actions whose code calls them: `Subscribe` begins the loop, `Publish` cuts off a
reader that fell behind, `Finish` aborts the loop with the last subscriber. Every
`await` is a boundary: the first status of a watcher (`Read`, then `Subscribe` or
`NotSubscribed`), the reads at the beginning of a run, its scan, its last status,
the delay. The scan is reduced to how it ends: at its target, stopped, or with a
failure that is worth another try or not.

### OwnerPool

`owner[o]` is an entry of the map `owners` together with the closure of its
`createOwner()`: `refs`, `wallets` and `aborted` are the entry's, `ready` its promise,
`phase`, `stopped` and `torn` (the promise `destroying`) the start's, and `live` the
workers that run, by the executable of their attempt. `wallet[w]` is a call of
`openWalletRuntime()`: `call` says where it awaits, `request` what has become of
`owner.open()` and of the session it returned. An opening that its caller abandons
keeps only a slot, counted in `orphans`. `signer[s]` is the lease of a mnemonic signer.
One key of the map is modelled; entries of different keys never meet.

`stop()` is synchronous and reaches every opening and session (`Notified`);
`release()` is synchronous up to the destruction of the owner, which the last
lease awaits (`Release`, then `Returns`). The error that stopped a start decides
whether it may fall back; the model lets it be any, so `FallBack` and `GiveUp` are
both possible. A wallet that has returned from `close()` could still create a signer
while others hold its owner; one that is closing stands for it.

A threaded start goes through phase `pool`: the worker has prepared the shared memory,
the compute workers enter it one by one (`loaded`), and only the last one lets the engine
build its pool. A compute worker that fails, fails the start, which terminates all of them
before it falls back.

### PaymentWatch

`producer` is the polling loop of one `events()` iterator: where it awaits, which
attempt at an observation it is in, and what it has read so far. An observation is its
separate reads (tip, inclusion, the tree or header of the block, the tip again), each a
step, and the source may move between any two of them. `journal` is the payment's state,
which other commands change as well (`ForeignChange`); `buffer` and `stream` are the
`ObserverBuffer`, `reader` its one reader, and in mode `wait` the reader is `wait()`
itself. `cut` records who ended it: the timer, the caller, the closing wallet or the
iterator's `return()`. The awaits of a loop that was cut listen to its signal; the source
need not answer. `journal.back` is history: the source had left the tip and was on it
again for the last read, which the comparison of two tips cannot show.

### ScanRun

A chain is the sequence of its blocks and a hash is the prefix that ends in a block, so
equal hashes mean equal ancestors. `source` is the chain the source is on at each moment,
`scanned` the wallet's, `outstanding` its enhancement requests, and `fresh` says whether
the run still holds the revision of the wallet: `ForeignWrite` ends that between any two
calls. `at` is the `await` at which the run stands; `run` is what the whole run keeps
(target, attempts, passes) and `pass` what one pass keeps: the bounds of the fork search,
the batch, the request taken up with its transactions. `Stale` is the refusal of a
revision, `Repin` and `FinalPin` ask again for the target, which may no longer be served. `held` and the
fields `least`, `most` are history, for the properties. `WalletSync` uses the
outcomes of this module: reached, cut short, failed.

### WalletClient

`call[c].plan` is the list of steps a method still awaits, chosen when it begins from
what its artifact needs; a step that is a command is in `queue`, in order, and the first
one runs. `attaching` is the flag of `accounts.ts`, `binding` the published binding,
`slot` the proof slot of the owner (`startProof`), `assets` the proving assets: what is
in memory and which load runs in which phase. `closing` runs through the drain of
`close()`: the calls, the bindings, the assets, the wallet. Of the engine: `tokens`
and `bound`, the signers it has issued and bound. `given` and `stray` are history: the
tokens whose caller has got them, and the bindings an attachment could not undo.
A refused post is a failed answer. A command that runs is awaited to its end, also by a
call that was aborted; one that is queued is withdrawn. The read that `send` makes for
its error (`report`), the unbind of an attachment that unwinds and the release of a
token carry no signal. A release that fails ends the owner.

### The endpoints

A behaviour of `MCEndpoints` is about one exchange: `exchange` chooses which part of the
state it moves, so the states of the parts add up and do not multiply. In each part `at` is the
`await` at which the exchange stands, `settled` what the promise it waits for has
settled with, `stopped` and `late` what `stop()` and the clock have done, `held` the timers,
listeners, bodies, channels and directories it keeps. An `await` that is settled goes on in
a later step, so an answer, an abort and a timer can come in any order between
two continuations. Servers, callbacks and consumers may answer anything, or nothing.

* `HttpTransport`: an attempt runs under one deadline; `stop()` rejects the `await` in
  progress, and a `fetch` left behind may still answer (`orphans`).
* `GrpcWeb`: a byte is the number of its frame and its place in it; the body is cut
  into chunks anywhere, and the frame decoder is the code's, byte for byte.
* `GrpcNode`: `adapter` with its retries over `operation()` with its channel. After
  `await op.start()` the code checks nothing; a stop there closes the channel under the
  call, which then fails.
* `LightReads`: three nested operations over a transport of the application, whose
  methods may abort the caller's signal from inside. `foreign` and `returns` are its
  iterators and the `return()` calls they got. There is no timer in these layers.
* `PublicReads`: `best` is the chain of the node, which moves between any two reads to a
  chain of more work and never back. An answer is composed of the reads in `pub`.
* `ArtifactLoad`: the manifest is pinned, so what it lists is a constant of a behaviour,
  whose faults (`MCInventories`) are those the code looks for. Two clocks run:
  the acquisition's, and the start's, which is looked at only between its steps.
* `AssetCache`: `sapling()` over the memory cache, the files of Node or the entries of a
  browser's cache, as `options` say. `disk` is what the cache holds under each digest: at
  first anything, and other processes fill it too. A crash is not an action, since it
  leaves `disk` and `temporary` as they are at that step, and `AssetsWhole` is about every
  step; a power failure that loses a renamed file's bytes is a `disk` that is damaged in the
  next load, which is refused and never repaired. For `EndpointCall` its requests are the
  assets begun. The loader itself may be asked with a signal that has already aborted, after
  a read of the directory, and may go on after the load (`loader`).

## 3. Runs

| Run | Question | Instance and why it is enough |
|---|---|---|
| `host_work` | is the queue safe, and does it implement `CallReceipts`? | three calls of any kind (write, read, close) over two ports, job limit 2, byte limit 3: a call can wait behind another on its own and on the other port, be refused by either limit, be overtaken by a close or a crash, be aborted in every state. A fourth call adds no new relation, since handlers look only at a queue's head, the active job and the counters |
| `host_live` | does everything settle, and how far do reserved releases exceed the budget? | four fixed calls, either with a close behind others or with two tokens and their releases, under fairness and without symmetry |
| `recovery` | does opening do what it promises, over repeated sessions? | any journal of four numbers with pages of two rows: two pages, gaps, a wrapped pass, a position beyond the end, a row without a transaction; one crash, failure or abort, one automatic attempt |
| `recovery_deadline` | does only a local failure reject an opening? (violated, see 6) | the same without any trouble |
| `submission` | is an operation submitted safely by rival callers? | two callers, a parent with two attempts and a child with one, three chain states, two of: crash, failed write, eviction, reorganization. One refresh, to leave room for the rest |
| `submission_refresh` | does an abort end a submission over a source that never answers? | one caller, the code's three refreshes and a chain that can grow before each of them |
| `watch` | is evidence coherent, are states in order, is everyone let go? | three chains, with the payment in their second or third block or not at all, that the source moves between twice at any read; one change by another command; a buffer of two states, two attempts at an observation; an iterator or a `wait()` for two confirmations |
| `sync` | do runs, watchers and `close()` end as they must, and stop only what is theirs? | two watchers, a caller and a submission, buffers of two statuses, iterators and runs that begin again and again: a run of every owner, joined by every other; a slow reader beside a fast one; `close()` at every point. A third watcher would only be another member of the set of subscribers, which the code asks whether it is empty |
| `scan` | does a run write and report only what the source served, and end? | three chains of up to three blocks that part after the first or before it, between which the source moves at will; batches of two blocks, so that a chain is one or two batches; two targets and two passes (three in the code), three transactions at an address in batches of two, every kind of request |
| `owners` | are owners shared, abandoned and destroyed as they must? | two wallets, a signer and two slots, so that abandoned openings can fill them; two owners, since a new one may begin while its predecessor is being torn down; a threaded start with two compute workers and its fallback |
| `roles` | do two methods beside each other leave the wallet as they should? | two calls of any of the eight methods, a mnemonic and a custom signer, one failing command or a lost worker, a binding disposed of at any time, and `close()` |
| `endpoints` | does every exchange keep the promise of `EndpointCall`? | each of the twenty-two exchanges and the two loads: two attempts; ten bodies with messages of no, of one and of the most bytes, one too long, and every fault of trailers, cut anywhere; streams of up to two items and ranges of three blocks; three chains that share a prefix, with the transaction in one block or another; a manifest as it should be and ten with one fault each; assets of two chunks, in a cache that holds each of them, damages it or lacks it |

The runs with `SYMMETRY` check only safety. Every run checks deadlock; the programs may
come to rest where a module says so: `Quiet` in `WalletHost` when every call has settled
and nobody makes another, `Rest` in `WalletSync` the closed client, `Quiet` in
`OwnerPool` the end of the last owner that the bound permits, `Done` in `MCEndpoints` an
exchange that is over. The payment models can always go on, since their callers may
start again.

Bounds: `MaxOwners`, `MaxRow`, `MaxTrouble`, `MaxAttempts`, `MaxTip`, `MaxMoves`,
`MaxForeign`, `MaxItems` and the finite set `Call` bound what is otherwise unbounded.
`Capacity`, `MaxWallets`, `MaxQueuedJobs`, `MaxQueuedBytes`, `PageLimit` (200 in the
code), `MaxRefreshes` (3), `MaxReads` (3), `ScanBatchSize`, `MaxPasses` (3),
`AddressBatch` (16), `MaxRequests` (1024), `Attempts`, `HeaderBytes` (5), `MaxMessages`,
`MaxLength`, `AssetBytes` and the limits of the artifact policy are parameters of the code, given small
values.

### Properties

`WalletHost`
: `ReceiptsHonest`: a receipt is never contradicted by the engine, also later, by a
worker that outlives a crash. `OneCommandAtATime`. `BudgetExact`: the counters are
the outstanding work, on every path that gives back, and only one release per token
goes over the limit. `NoLostWakeup`: when someone could post, the wake-up is queued.
`CloseDrains`. `ImplementsReceipts`: the refinement of `CallReceipts`.
`EveryCallSettles`: every admitted call settles, and `close()` resolves.

`PaymentRecovery`
: `ReportExact`: a ready wallet has reconciled every row, and what `recover()` reports
is what happened. `EveryPaymentAttempted`: opening returns, and over repeated sessions
no payment starves.

`PaymentSubmission`
: `OneTransmission`: what the journal does not know of has not been sent, and no
attempt is sent twice. `OutcomeHonest`: an accepted transmission is never recorded
as rejected, or the other way round, and an abort never leaves an attempt open.
`Serialized`: settled outcomes are final and submissions do not overlap.
`EvidenceFirst`: an attempt rests on evidence of a scanned chain, and on evidence of its
parents that is newer than their own last attempt. `AbortEnds`.

`PaymentWatch`
: `ObservationCoherent`: an inclusion that is stored is a block of the tip's chain, but
for a source that left that tip and came back. `StatesInOrder`: a reader gets states of
the journal, in order, each once, and `wait()` is confirmed only by one. `CutEnds`: a
timer, an abort, a `return()` and `close()` let the reader and the loop go.

`WalletSync`
: `OnlyOwnerCuts`: who joins a run never stops it. `WatchersServed`: a subscriber has a
loop, and nothing runs, watches or waits when `close()` has resolved, also not a watcher
that was awaiting its first status. `CallsEnd`: `close()` resolves and an abandoned loop
ends although the source never answers; when it does, every `next()` returns, also for a
subscriber that came while the loop was ending.

`ScanRun`
: `TargetServed`: a target reported as reached is on the wallet's chain, and the source
was on it after the last block was written. `RewindJustified`: a rewind asks for
a block that was common during the search, below one that was not. `EvidenceCoherent`: an
address is complete only with its whole stream, and unspent outputs are applied only to the
wallet's last block. An inventory that names its tip was read at that block. Any inventory
and its transactions were, but for a source that left the block and came back to it
between the two reads of the tip: those are equal then, and the code applies what was read
elsewhere. `RunEnds`.

`OwnerPool`
: `LeasesExact`: one lease and one slot come back on every path. `NotHandedOut`: an
aborted owner is given to nobody, also while a successor takes its place.
`NoStrayWorker`: the fallback never runs beside the failed start or its compute workers,
and no worker outlives the users of its owner. `OpensReturn`: opening returns over a
worker that never answers, and the slot of an abandoned opening comes back with
the end of its owner.

`WalletClient`
: `FinalizedOnce`: no mix of payments and roles finalizes an operation twice.
`SignersExact`: a token of the engine belongs to a caller or to a live call; what is
bound is published, being undone, or could not be undone. `NothingHeld`: the slot and a
load belong to a live call, and a closed client holds nothing. `RolesEnd`: aborted calls
end and `close()` resolves, although no callback answers or the worker is lost.

The endpoints
: `StreamsExact`: the messages of a body, however it is cut; blocks linked one to the
next; nothing staged that is not verified; the pinned assets for the prover, and no part
of one in the cache. `GivenBack`: each foreign iterator is returned, once, and only by who
took it; a wallet that is closed keeps no asset and has no file open. `AnswersTrue`: an answer composed of several
reads was true of one chain. `ImplementsCall`: the refinement of `EndpointCall`: one
dispatch of a transaction, none for a caller that has aborted, a true report, nothing
held at the end. `ExchangesEnd`: each exchange ends by its own time limit whatever the
server does, or, where the code sets none, once it is aborted.

Each property has a mutant of the code in `PROJECT.json` that breaks it; the
mutated definitions stand before the ones they mutate and are marked as plausible
bugs.

## 4. Fairness

`WalletHost`: `Watched` (promises settle), `Wake` (microtasks run), and the steps of
a port (the engine answers what it is sent, message events are delivered, a
transport can be destroyed). Callers need not call, abort or close. The code
promises no fairness between ports: after its answer a port pumps itself, before
the microtask wakes the others (`host.ts:400`), so a port that always has work starves
the rest. `EveryCallSettles` holds because a wallet's calls in the model are finitely
many.

`PaymentRecovery`: journal calls return (`Step`) and the timer fires (`Deadline`). A
source need not answer at all. Strong fairness of `Fetch` and `Take` says that the
deadline is not in every session shorter than the reads before the first row,
and of `Begin \/ Declined` that it does not in every session fall just while an
attempt is being admitted; with either assumption false no number of sessions
helps, since nothing durable would move.

`PaymentSubmission`: only an aborted submission is assumed to move on: its journal
calls return and its waits listen to their signal. The source is not assumed to
answer.

`PaymentWatch`: local calls return, and awaits listen to the signal of the loop (`Loop`);
the reader's promises settle (`Reader`). Neither the source's answers nor the timer are in
them.

`WalletSync`: local calls return, the poll timer fires, and awaits listen to their
signals. The source is assumed to answer (`RunWorks`) only where the property says
so, in the last part of `CallsEnd`; without it a reader may wait for ever, as it should.

`ScanRun`: a run's own step is taken (`Step`), a failed read being one of its
outcomes: here an operation of the source returns or fails by the transport's own time
limit (`ExchangesEnd`). Neither the chain nor the wallet has to settle.

`OwnerPool`: timers fire (the start's and the deadline of an opening), `terminate()`
settles either way, and an engine asked to close answers. A worker that is opening
a storage may never answer: its lock may be held by another process.

`WalletClient`: a call's continuations run, a load goes on or is stopped, the engine
answers the command it runs, and `close()` goes on. Callbacks of the application need not
answer, nobody has to abort, and the worker may be lost.

The endpoints: continuations run, clocks advance and timers fire. Servers, callbacks and
consumers need not do anything. Two kinds of exchange have no time limit, so only an abort
ends them: a call over a custom light transport, and `waitForTransaction` without `timeoutMs`
(`public.ts:357-358`), which polls as long as the transaction is not confirmed. A client
chooses in `PubInit` whether its wait is `timed`; `WaitElapses` is a step only of one that is. File systems and digests come to an end; the loader of proving assets
need not, and the platform fails a stream whose signal has aborted.

## 5. Proofs

Eight modules hold proofs: one for each component that keeps a state between calls, and one
for the transports, the clients and the loads together. All theorems are about any values
of the constants that the named assumptions of the models allow: any sets of callers, ports,
wallets, signers and watchers, any chains, journals, bodies, manifests and limits. Where an
assumption asks for a finite set, the code has finitely many of them and
counts them. Each safety theorem has the same shape: an inductive
invariant `IInv`, a lemma for each action (or for each kind of step that actions
share) that it is kept, and the property from it. TLC has checked each invariant on the run
of its component before it was proved, except the part of `EndpointsOK` that speaks of the
positions in a body (`WebData`), which quantifies over all sequences of numbers.

### The call queue

`WalletHostProofs` rests on `PortAssumption`, `CallAssumption`, `RequestAssumption` and
`LimitAssumption`. Its first part proves:

* `TypeCorrect`: `Spec => []TypeOK`;
* `Honesty`: `Spec => []ReceiptsHonest`;
* `Exclusion`: `Spec => []OneCommandAtATime`.

None of these is inductive alone. That a call rejected as "none" has no effect
depends on where the call is: a queued call is not on a wire, a wire's call has not
run, an answer tells what happened. The invariant `IInv` is therefore

    TypeOK  /\  Sched  /\  ReplyOK  /\  ToldOK  /\  JobsOK

where `Sched` is a conjunction of `QueueOK` (queues hold distinct queued calls of
their own port), `ActiveOK` (the active calls are exactly those posted, one at
most, and the flag knows), `WireOK` and `WireExclusive` (what is on a wire is the
active call, or was reported unknown by a crash of the owner), and `EffectOK` (only
posted calls have effects). `Sched` is stated over parameters, the parts that a
handler computes before it pumps, so that one lemma (`PumpSched`) serves each
handler that ends in `pump()`; `UnqueueStep`, `EnqueueStep` and `CrashStep` do the
same for the splices, admissions and crashes that several actions share.
`RemoveAtProperties` says what a splice leaves. There is one lemma for each action,
and `Invariance` combines them.

The second part proves `Implementation`: `Spec => ImplementsReceipts`, that the
queue implements `CallReceipts`. Under `IInv` nearly every step is of one kind, `Moves`: it
posts or settles calls that were admitted and had not settled, and the engine does
nothing. `MovesSettle` shows once that such a step is a `Settle` of the abstract
specification or a stutter; what the settled calls were told is in `ToldOK`. Left are the
admissions, the refusals, and `Run`, which maps to a change by the engine because what
it takes from the wire is active or was reported unknown.

The third part proves two properties of order:

* `Wakeups`: `Spec => []NoLostWakeup`. It needs that a call nobody has made has no abort
  listener (`Fresh`), so that an admission never puts a postable call at a head. Every other step that
  frees the engine or changes a head pumps or queues the microtask.
* `Drained`: `Spec => []CloseDrains`. It needs that the queue holds every queued call, with
  the close, if there is one, at its end (`LastIsClose`), and that a port with a close
  is shut (`ShutByClose`), so nothing is admitted behind it. When the close succeeds it was the
  active call, and then everything admitted before it has settled.

The last part proves `BudgetIsExact`: `Spec => []BudgetExact`. The sum of the sizes of a set
is a fold, a function recursive over subsets. `Total` is that function, and the lemmas
`SumsExist`, `SumsAgree`, `TotalType` and `TotalWithout` prove, from the
well-foundedness of the strict subset relation, that it exists, is a number, and loses
exactly the size of the element that is taken out, whichever it is. A step then leaves the
reservations alone, gives one job back, admits one, or gives all back in a crash
(`BytesKept`, `BytesFreed`, `BytesAdmitted`, `BytesEmptied`). What may exceed the limit is
bounded by `Reserved`: work is admitted only while there is room, and no more releases have been made
than tokens were issued.

### Payment submission

`PaymentSubmissionProofs` proves, for any callers, steps, parents, limits of attempts and
refreshes, and whatever is aborted, lost, late or crashes:

* `Transmission`: `Spec => []OneTransmission`;
* `OutcomesHonest`: `Spec => []OutcomeHonest`;
* `Serialization`: `Spec => Serialized`;
* `TypeCorrect`: `Spec => []TypeOK`;
* `EvidenceIsFirst`: `Spec => EvidenceFirst`.

The argument is about who may write, and the invariant is

    Types /\ Lock /\ Unsettled /\ Pending /\ Owned /\ Honest /\ OneTransmission

The lock has one holder, and past its reconciliation no write is lost (`Lock`); an open
attempt is the holder's own or was lost (`Owned`). So when the holder begins an attempt
nothing is open and its number is new: it has not been sent (`Pending`), `Dispatch`
sends it once, and what the holder then settles is what the source said of it
(`Honest`). A crash loses the holder's attempt, and only the reconciliation of the next
submission, which knows nothing, settles that as unknown. Moves of a submission that
leave the attempts alone are of one kind (`Goes`, lemma `Quiet`).

For the evidence a second invariant, `EInv == Data /\ Flags /\ ... Informed`, is added: a
submission that is at work on a step has observed, since their own last attempts, every later
step and every parent (`Informed`). Only the holder of the lock begins attempts, so nothing makes that
old before it begins its own. `TypeOK` follows from both: an attempt that is in flight is one of the
journal's, so the limits of attempts bound the flights too.

### Payment recovery

`PaymentRecoveryProofs` proves, for any journal, page size, position and policy, and any
failures, crashes and reopenings:

* `TypesAreKept`: `Spec => []TypeOK`;
* `ReportIsExact`: `Spec => []ReportExact`.

The invariant is `Types /\ Bounds /\ Closed /\ Local /\ Network /\ Ready`. A page holds the
first rows of what is left of its range, and some as long as any are left (`Front`), so that
taking its first row skips none and an empty page is the end. In the local pass what is left is what was not
reconciled (`Local`). In the network pass (`Network`) the ranges do not overlap, so no row is
seen twice, and a row that has a transaction is left, in progress or seen, unless
the pass has failed. `Ready` is what remains of both when the wallet opens. That a
page can be filled at all needs a least element of any set of rows (`Least`).

### Payment events

`PaymentWatchProofs` proves, for any chains of the source, attempts and capacities:

* `ObservationsAreCoherent`: `Spec => []ObservationCoherent`;
* `StatesAreInOrder`: `Spec => []StatesInOrder`.

The invariant is `Types /\ InProgress /\ Order /\ Ends`. `InProgress` follows an observation
read by read: while the source is on the tip that was read first and has not left it,
what was read since belongs to that tip (`Fits`). `Order` says that the revisions in the
buffer increase, up to what the loop remembers and the journal has reached.

### Wallet sync

The last part of `ScanRunProofs`, which extends both modules of the sync, proves for any
watchers and any capacity:

* `WatchersAreServed`: `SyncSpec => []WatchersServed`;
* `OnlyTheOwnerCuts`: `SyncSpec => OnlyOwnerCuts`.

The invariant `SyncInv` is `SyncTypes /\ SyncWatchers /\ SyncLoops /\ SyncUsers /\ SyncEnding`:
a loop that owns a run, or waits for one, has it, and without subscribers it has been
aborted (`SyncLoops`); a submission that is pending has a run (`SyncUsers`); and `close()`
leaves each of its stages with less that can still happen (`SyncEnding`), which is why
nothing begins again behind its last one.

### One sync run

`ScanRunProofs` proves, for any chains (`ChainsAssumption`: each has a block at the
birthday), batches, requests and limits, and however the source moves between any two reads:

* `ReachedIsServed`: `Spec => []TargetServed`;
* `RewindIsJustified`: `Spec => RewindJustified`;
* `EvidenceIsCoherent`: `Spec => EvidenceCoherent`.

The invariant is `Types /\ Target /\ Search /\ Gathered`. `Target` remembers that the source
was seen with the target behind the last block that was written. `Search` is about
the longest common prefix of the two chains, whose length changes during the fork search with
the source: it stays between the least and the most that the search has met, and all the
heights that it has passed were not shared. Lemma `Agreement` says that two chains agree
exactly up to that length, `Greatest` that there is a longest common prefix. `Gathered` says what a pass holds
at each place where that is used: how often the source has moved since the tip was read,
and that what was read before its first move is of the block it was on then. A source that
has moved once is on another chain, so the second read of the tip discards the pass.

### Owner pool

`OwnerPoolProofs` proves, for any finite sets of wallets and signers (`UsersAssumption`), any
owners and limits:

* `LeasesAreExact`: `Spec => []LeasesExact`;
* `AbortedIsNotHandedOut`: `Spec => []NotHandedOut`;
* `NoWorkerStrays`: `Spec => []NoStrayWorker`.

The invariant relates three parties. The record of an owner is consistent alone
(`OwnerOK`): its last lease aborts it, an abort stops it, and what has stopped spawns nothing more. The
stage of an opening or a signer tells whether it has a lease (`WalletOK`, `SignerOK`), so the
counters are cardinalities (`Counted`), on each path that gives back. And who gave back the
last lease waits until the owner is torn down (`Awaited`); `CurrentOK` is about the entry
of the map.

### Client

`WalletClientProofs` proves, for any finite set of calls, any signers, and any plans:

* `OneFinalization`: `Spec => []FinalizedOnce`;
* `SignersAreExact`: `Spec => []SignersExact`;
* `NothingIsHeld`: `Spec => []NothingHeld`.

A call knows what it holds from the step it is at: its command in the queue (`QueueOK`), the
proof slot (`SlotOK`), the place of the attachment (`AttachOK`), an asset that loads
(`AssetsOK`), the native token it was issued (`TokensOK`). A plan that will finalize without
looking again has the slot, and the operation is not finalized then (`Once`). A binding
is published behind every unbind of an earlier one (`BindingOK`), so what is bound is
published, being undone, or refused to be (`SignersOK`). `Ending` is about the stages of
`close()`. `NoneAssumption` says only that the absent binding is no binding.

### The endpoints

`EndpointProofs` proves, for any numbers of attempts, any bodies, ranges, chains, manifests
and limits, whatever servers, callbacks and caches do, and wherever aborts and time limits fall:

* `AnswersAreTrue`: `Spec => []AnswersTrue`;
* `StreamsAreExact`: `Spec => []StreamsExact`;
* `AllIsGivenBack`: `Spec => []GivenBack`;
* `EndpointsImplementCall`: `Spec => ImplementsCall`, the refinement of `EndpointCall`.

All follow from `Endpoints`: `Spec => []EndpointsOK`, and `EndpointsOK` is one invariant for
each part. Each says what an exchange holds, has sent and has told at each of its awaits, and:

* `PubOK` (public client): what was read is true of the chain whose tip was read first, as
  long as the node is on it (`TrueOf`, `AnswerTrue`). Two tips that are equal are of one chain
  (`TipsDiffer`), so the second read of the tip turns that into the truth of the answer.
* `LightOK`: what was taken from an application's transport, and what was returned to it
  (`Replies`, `ReleaseGives`): `returns` holds no object twice, and all of them when the
  exchange is over.
* `WebOK` (gRPC-web): the decoder is at some position of the body, in frame `f`, and what it
  has given are the messages in front of it (`Reach`, `Gave`, with `Offsets` for where each
  frame begins). A chunk that ends anywhere leaves it at such a position.
* `HttpOK`, `RpcOK`: how often an attempt may have sent (`HttpSent`), that its listener is
  there while it waits, and that an abort has stopped it before anything else is sent.
* `ArtOK` (executables): which files have been read, verified and kept at each place.
* `ProveOK` (proving assets): what a load holds is determined by where it is (`HeldAt`), also
  while the temporary file is written, renamed and removed.

A step of a part keeps its invariant and does only what an exchange may (`Takes`: it sends
at most once more, never when the caller has aborted or it is over, and what is over stays so).
Only the part that makes the exchange touches the caller (`CallerMoves`), and the others have not
begun, so their invariants stay (`Apart`). With what was told when it ended (`Truthful`), such
a step is a step of `EndpointCall` or a stutter (`Acts`, `ActsImplement`).

What the decoder computes for every body, and that offsets grow, would be an induction. It is
done as a least counterexample: a set of numbers that is not empty has a least member
(`LeastMember`, from the well-foundedness of finite subsets), and what holds for the frame before
it holds for it. The functions recursive over a body (`Bytes`) are unfolded one frame at a
time. For this `FramesExact` and the listing of the roots are stated with cardinalities and
positions (`Delivered`, `Listed`).

The assumptions on the constants are types and what follows: the tips of two chains differ, which
is what makes equal tips mean one chain (`ChainsAssumption`); a list of roots is in ascending order,
which `getSubtreeRoots` checks of each reply (`HeightsAssumption`); files of a manifest
and frames of a body are records of the types that the parsers make (`InventoriesAssumption`,
`BodiesAssumption`).

### Only model-checked

All liveness, which is out of the prover's reach: `EveryCallSettles`,
`EveryPaymentAttempted`, `AbortEnds`, `CutEnds`, `CallsEnd`, `RunEnds`, `OpensReturn`,
`RolesEnd`, `ExchangesEnd`. So is whatever needs `ENABLED`, as that a step is possible. Every
invariant and every action property that a passing run checks is proved.

## 6. Finding

`recovery_deadline`: `docs/api/operations.md:55` says "Local recovery failure rejects
opening. A failed or incomplete network pass can leave a usable local wallet".
The code also rejects when only the network pass failed: when its deadline passes
during an automatic rebroadcast, `submitStep` stores the unknown outcome and throws
with a committed receipt (`src/wallet/payments.ts:606-609`), and
`recoverPayment` rethrows every error with such a receipt (`:811`), or of the stage
`runtime`, which an aborted native call has (`:812`). The wallet does not open in
that session. It is not stuck: the attempt is charged before it is made, so
`EveryPaymentAttempted` holds in spite of it.

## 7. Limits of the models

* Argument snapshots, validation, error codes and texts are data and left out, as are the
  value formats.
* `WalletHost` leaves out `reserveWorking`, a byte counter beside the queue; the proof
  slot is in `WalletClient`.
* In `PaymentSubmission` no other component observes the operation. A concurrent
  wait may store newer evidence; the native journal compares the observation
  sequence that `begin` passes, and that comparison is not in the source. Here an observation
  is one step; its reads are in `PaymentWatch`.
* Route and source identity checks, expiry, and the checks of a reply's shape are
  part of "the call fails".
* In `ScanRun` the wallet's database is external: it plans upwards from the
  birthday, and checks the revision and the continuity of what it is given.
* `OwnerPool` follows one key of the map. The checks of the worker's messages and identity
  are failures of the start; option validation and the accounting of memory are left out.
* `WalletClient` has one account, one operation and one port. Steps of one party between
  which nothing is kept or checked are one step. With several accounts `close()` stops at the
  first signer that fails to unbind (`accounts.ts:231-235`): those behind it end only with
  the engine, which it closes all the same, and no property is about them. What `send` and `sign` dispatch is in
  `PaymentSubmission`, the `dispose()` of a signer by the application in `OwnerPool`. Reservations
  of memory are assumed to fit.
* The endpoints: exchanges share no state but `verified` of the light client, so one
  at a time is modelled. A server tells the truth about what it accepts. The node never
  returns to a chain it has left, without which two equal tips prove nothing. The import of the
  platform adapter is bounded only by the signal, so the time of `GrpcNode` begins after it.
  The text of JSON, base64, protobuf, URLs and canonical JSON is abstracted to the
  answers the code tells apart, and the byte limits of whole bodies of gRPC-web are left out.
  A `fetch` of gRPC-web that answers after `stop()`, `priorInclusion` of the public status
  and a delay of zero are left out; subtree and address streams of the light client are its transaction
  stream.
* What the native engine does inside a command is external. Its admission of an
  attempt is modelled as: the parents are in the evidence; it may ask for more.

Not modelled at all: the value formats and error objects (data without state), and the
compiled engine.

## 8. Plan

1. The observations of a concurrent wait inside `PaymentSubmission`: `PaymentWatch` as the
   environment of a submission, with the comparison of sequences in the external journal.
2. `reserveWorking` beside the queue, shared by payments and recovery.
3. A second account and operation in `WalletClient`, for the order in which `close()`
   unbinds; the inspection of artifacts and the intent lookup before a proposal.
4. The construction of a client and what it undoes when it fails.

Theorems, next: with each of these extensions the invariant of its module grows and the proof
is redone. Item 1 also needs a refinement that is not stated yet: that the reads of an
observation in `PaymentWatch` implement the one step it is in `PaymentSubmission`.
