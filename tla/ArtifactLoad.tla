---------------------------- MODULE ArtifactLoad ----------------------------
(***************************************************************************)
(* The executable of a native owner: acquireArtifacts() (artifacts.ts),    *)
(* which fetches a pinned manifest and the files it lists one by one, and  *)
(* createOwner() (runtime/wallet.ts), which stages them for the workers    *)
(* (worker-platform.ts) and keeps the verified bytes until its start has   *)
(* ended.                                                                  *)
(*                                                                         *)
(* There are two clocks: that of the acquisition, which ends it, and that  *)
(* of the start, which the acquisition does not see; the start looks at it *)
(* at its own checks.  The end of the last lease aborts both.              *)
(***************************************************************************)
EXTENDS Endpoint, Sequences, SequencesExt, FiniteSetsExt

CONSTANTS
    Inventories,        \* what a pinned manifest may list
    Kinds,              \* the kinds of files the mode requires
    MaxManifestBytes, MaxAssetBytes, MaxTotalBytes, MaxFiles     \* the policy

ASSUME PolicyAssumption ==
    {MaxManifestBytes, MaxAssetBytes, MaxTotalBytes, MaxFiles} \subseteq Nat \ {0}
ASSUME InventoriesAssumption ==
    \A inventory \in Inventories :
        inventory.files \in Seq([url : STRING, kind : STRING, bytes : Nat, confined : BOOLEAN,
                                reviewed : BOOLEAN])

VARIABLE art
\* at         "idle", "fetch", "body", "digest", "modules", "staged", "starting" or "over"
\* inventory  what the manifest lists that has the pinned digest
\* item       the file that is being read, 0 the manifest
\* size       its bytes so far, and altered whether one of them is not what was pinned
\* settled, late, orphans, outcome, sent  as in HttpTransport
\* stopped    the acquisition was stopped
\* expired    the timer of the start has fired
\* kept       the files whose bytes are retained
\* held       what is to be given back
\* staged     files have been written for the workers
artVars == <<art, caller>>

Loading == exchange = "artifacts"
ArtInit ==
    \E inventory \in Inventories :
        art = [at |-> "idle", inventory |-> inventory, item |-> 0, size |-> 0,
               altered |-> FALSE, settled |-> "none", late |-> FALSE, orphans |-> 0, sent |-> 0,
               stopped |-> FALSE, expired |-> FALSE, kept |-> {}, held |-> {}, staged |-> FALSE,
               outcome |-> "none"]

Files == art.inventory.files
DeclaredBytes(i) == Files[i].bytes

-----------------------------------------------------------------------------
(* The manifest *)

\* The text is canonical JSON of the schema.
WellFormed(inventory) == inventory.canonical /\ inventory.files # <<>>

\* The files have URLs of their own, below the manifest's.
Confined(files) ==
    /\ \A i \in DOMAIN files : files[i].confined
    /\ \A i, j \in DOMAIN files : i # j => files[i].url # files[j].url

OfKind(files, kind) == {i \in DOMAIN files : files[i].kind = kind}

\* The sizes fit, one by one and together.
SizesFit(files) ==
    \A i \in DOMAIN files :
       /\ files[i].bytes <= MaxAssetBytes
       /\ MapThenSumSet(LAMBDA j : files[j].bytes, 1..i) <= MaxTotalBytes

\* The whole inventory is inspected before any of its files is fetched.
Admissible(inventory) ==
    LET files == inventory.files
    IN  /\ WellFormed(inventory) /\ inventory.profile
        /\ Len(files) <= MaxFiles /\ Confined(files)
        /\ \A kind \in Kinds : OfKind(files, kind) # {}
        /\ \A kind \in {"module", "worker"} : Cardinality(OfKind(files, kind)) = 1
        /\ SizesFit(files)

\* createOwner() accepts only the closure that was reviewed with this code.
Reviewed(inventory) == \A i \in DOMAIN inventory.files : inventory.files[i].reviewed

-----------------------------------------------------------------------------
(* The ends of a read, of the acquisition and of the start *)

\* The reader or the body of the response is cancelled, and an incomplete buffer wiped.
Unread(a) == [a EXCEPT !.held = @ \ {"body"}]

\* The timer and the listener of the acquisition.
Quieted(a) == [a EXCEPT !.held = @ \ {"timer", "listener"}]
Discarded(a) == [a EXCEPT !.held = @ \ {"bytes"}, !.kept = {}]

\* The start has ended: the verified bytes are disposed of.  If it failed, destroy() removes
\* what was staged for the worker; otherwise the owner has it until its own end.
StartEnds(a, o) ==
    [Discarded(a) EXCEPT !.at = "over", !.outcome = o, !.staged = @ /\ o = "value",
                         !.held = @ \ ({"startup"} \cup IF a.at = "starting" THEN {"directory"}
                                                        ELSE {})]

Fail(a) == StartEnds(Quieted(Unread(a)), "error")

\* check() of the start.
StartOver(a) == cut \/ a.expired

-----------------------------------------------------------------------------
(* acquireArtifacts() *)

\* read(): the request is dispatched.
ReadFile(a, i) ==
    [a EXCEPT !.at = "fetch", !.item = i, !.size = 0, !.altered = FALSE, !.settled = "none",
              !.sent = @ + 1]

\* A policy or an artifact that is refused is not fetched.
ArtRefused ==
    /\ Loading /\ art.at = "idle"
    /\ art' = Fail(art)
    /\ UNCHANGED caller

ArtRequest ==
    /\ Loading /\ art.at = "idle"
    /\ art' = IF cut THEN Fail(art)
              ELSE ReadFile([art EXCEPT !.held = {"startup", "timer", "listener"}], 0)
    /\ UNCHANGED caller

\* An await is over, and the checks that follow it: then(a), unless it has failed.
ArtAwaited(at, then) ==
    /\ art.at = at /\ (art.settled # "none" \/ art.stopped)
    /\ art' = CASE art.stopped /\ at = "fetch" /\ art.settled = "none" ->
                     Fail([art EXCEPT !.orphans = @ + 1])
                [] art.stopped /\ ~(at = "fetch" /\ art.settled = "none") -> Fail(art)
                [] ~art.stopped /\ (art.settled = "bad" \/ art.late) -> Fail(art)
                [] OTHER -> then
    /\ UNCHANGED caller

ArtFetched ==
    ArtAwaited("fetch", [art EXCEPT !.at = "body", !.settled = "none", !.held = @ \cup {"bytes"}])

\* The declared length of a file is exact, that of the manifest a limit.
Room == IF art.item = 0 THEN MaxManifestBytes ELSE DeclaredBytes(art.item)

\* A chunk fits, or the read fails; at the end the length is what was declared, and the
\* bytes are kept before they are verified.
ArtRead ==
    ArtAwaited("body",
        IF art.settled = "done"
        THEN IF art.item > 0 /\ art.size # Room THEN Fail(art)
             ELSE [Unread(art) EXCEPT !.at = "digest", !.settled = "none",
                                      !.kept = @ \cup {art.item}]
        ELSE IF art.size + 1 > Room THEN Fail(art)
             ELSE [art EXCEPT !.size = @ + 1, !.settled = "none",
                              !.altered = @ \/ art.settled = "other"])

\* The digest is that of the pinned bytes.
Genuine == ~art.altered /\ art.size = (IF art.item = 0 THEN 1 ELSE DeclaredBytes(art.item))

\* Everything has been read: the start goes on with the verified copies.
Acquired(a) ==
    IF StartOver(a) \/ ~Reviewed(a.inventory) THEN Fail(a)
    ELSE [Quieted(a) EXCEPT !.at = "modules", !.settled = "none"]

ArtDigested ==
    ArtAwaited("digest",
        CASE ~Genuine -> Fail(art)
          [] Genuine /\ art.item = 0 ->
                IF Admissible(art.inventory) THEN ReadFile(art, 1) ELSE Fail(art)
          [] Genuine /\ art.item \in 1..(Len(Files) - 1) -> ReadFile(art, art.item + 1)
          [] OTHER -> Acquired(art))

-----------------------------------------------------------------------------
(* createOwner(): stageWalletWorkers(), and what follows it *)

\* A file that cannot be written: the directory is removed at once.
Stages ==
    /\ art.at = "modules"
    /\ \/ art' = Fail(art)
       \/ /\ ~StartOver(art)
          /\ art' = [art EXCEPT !.at = "staged", !.held = @ \cup {"directory"}, !.staged = TRUE]
    /\ UNCHANGED caller

\* The worker is spawned, unless the start has ended during the staging: then the directory,
\* which is not the owner's yet, is removed here.
Spawns ==
    /\ art.at = "staged"
    /\ art' = IF StartOver(art) THEN Fail([art EXCEPT !.held = @ \ {"directory"}])
              ELSE [art EXCEPT !.at = "starting"]
    /\ UNCHANGED caller

\* The start is over while the worker initializes: the request to it is rejected.
StartStopped ==
    /\ art.at = "starting" /\ StartOver(art)
    /\ art' = Fail(art)
    /\ UNCHANGED caller

\* The worker is ready, or its start has failed (OwnerPool); it need not answer.
WorkerAnswers ==
    /\ art.at = "starting" /\ ~StartOver(art)
    /\ art' \in {Fail(art), StartEnds(art, "value")}
    /\ UNCHANGED caller

ArtStep ==
    \/ ArtRefused \/ ArtRequest \/ ArtFetched \/ ArtRead \/ ArtDigested
    \/ Stages \/ Spawns \/ StartStopped

-----------------------------------------------------------------------------
(* Servers, clocks and the owner's signal *)

Settle(at, S) ==
    /\ art.at = at /\ art.settled = "none"
    /\ \E s \in S : art' = [art EXCEPT !.settled = s,
                                       !.held = @ \cup IF at = "fetch" THEN {"body"} ELSE {}]
    /\ UNCHANGED caller

\* The head of a response: one that is refused by its status, address, type or declared
\* length is as good as none.
ArtResponds == Settle("fetch", {"good", "bad"})
ArtChunk == Settle("body", {"pinned", "other", "done", "bad"})
ArtDigests == Settle("digest", {"good"})

\* A response that comes after the read has been stopped is cancelled.
ArtRespondsLate ==
    /\ art.orphans > 0
    /\ art' = [art EXCEPT !.orphans = @ - 1]
    /\ UNCHANGED caller

ArtElapse ==
    /\ "timer" \in art.held /\ ~art.late
    /\ art' = [art EXCEPT !.late = TRUE]
    /\ UNCHANGED caller

ArtTimer ==
    /\ "timer" \in art.held /\ art.late /\ ~art.stopped
    /\ art' = [art EXCEPT !.stopped = TRUE]
    /\ UNCHANGED caller

StartupTimer ==
    /\ "startup" \in art.held /\ ~art.expired
    /\ art' = [art EXCEPT !.expired = TRUE]
    /\ UNCHANGED caller

ArtAbort ==
    /\ Loading /\ ~cut /\ art.at # "over"
    /\ cut' = TRUE
    /\ art' = [art EXCEPT !.stopped = @ \/ "listener" \in art.held]
    /\ UNCHANGED <<exchange, served>>

ArtNext ==
    \/ ArtStep \/ WorkerAnswers
    \/ ArtResponds \/ ArtChunk \/ ArtDigests \/ ArtRespondsLate
    \/ ArtElapse \/ ArtTimer \/ StartupTimer \/ ArtAbort

-----------------------------------------------------------------------------
(* Properties *)

\* No file is fetched before the pinned manifest was found to fit the policy, so what is
\* kept never exceeds it; nothing is staged for a worker before every file was verified
\* and all of them are the ones that were reviewed (acquireArtifacts, createOwner).
ArtifactsVerified ==
    /\ art.item > 0 => Admissible(art.inventory)
    /\ MapThenSumSet(DeclaredBytes, art.kept \ {0}) <= MaxTotalBytes
    /\ art.at \in {"modules", "staged", "starting"} => art.kept = 0..Len(Files)
    /\ art.staged => Reviewed(art.inventory) /\ Genuine
=============================================================================
