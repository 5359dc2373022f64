----------------------------- MODULE AssetCache -----------------------------
(***************************************************************************)
(* One load of the proving assets: ProvingAssets.sapling()                 *)
(* (wallet/proving-assets.ts), its memory or persistent cache, the loader  *)
(* of the application or that of the package (runtime/package-proving.ts), *)
(* and close() at any of its awaits.                                       *)
(*                                                                         *)
(* The awaits of the file system and of a digest do not listen to the      *)
(* signal; only the one of the loader does.  A loader may therefore be     *)
(* asked for a caller that has given up meanwhile, and may go on after the *)
(* load is over.  A process that dies leaves the directory as it is at     *)
(* that step.                                                              *)
(***************************************************************************)
EXTENDS Endpoint, Sequences

CONSTANT AssetBytes     \* the declared length of an asset, in chunks of the package

ASSUME AssetBytesAssumption == AssetBytes \in Nat \ {0}

VARIABLE prove
\* at         "idle", the await it is in, or "over"
\* options    what the wallet was given: the assets required, the cache, whether its bytes
\*            suffice, and whose loader it is
\* asset      the asset in work, and value its bytes as they were read or delivered
\* memory     the assets in memory
\* disk       what the cache holds under each digest, in a directory that processes share
\* damaged    the assets of which it held something else from the beginning
\* temporary  the file that is written before it gets its name
\* given      the bytes collected for the prover
\* loader     [at, size, altered]: the callback, and what it has read of the package
\* life       "open", "closing" or "closed": the wallet's
\* sent       the assets begun; outcome, held as in HttpTransport
proveVars == <<prove, caller>>

Proving == exchange = "proving"
Asset == 1..2      \* the spend and output parameters

Persistent == prove.options.cache # "memory"
Stopped == cut \/ prove.life # "open"

-----------------------------------------------------------------------------
(* The options, and the states a load may begin in *)

\* An asset is required at most once, by its canonical length and digest.
Options ==
    [required : SUBSET Asset, cache : {"memory", "files", "caches"}, room : BOOLEAN,
     loader : {"application", "package"}]

\* What packageProving() gives: the memory cache, with room for both.
PackageOptions ==
    [required |-> Asset, cache |-> "memory", room |-> TRUE, loader |-> "package"]

Silent == [at |-> "none", size |-> 0, altered |-> FALSE]

\* The cache as earlier loads, other processes and faults of the disk have left it.
ProveInit ==
    \E options \in Options, memory \in SUBSET Asset,
       disk \in [Asset -> {"absent", "whole", "altered", "short"}] :
       /\ options.cache = "memory" => disk = [i \in Asset |-> "absent"]
       /\ options.cache # "memory" => memory = {}
       /\ prove = [at |-> "idle", options |-> options, asset |-> 0, value |-> "none",
                   memory |-> memory, disk |-> disk,
                   damaged |-> {i \in Asset : disk[i] \in {"altered", "short"}},
                   temporary |-> "none", given |-> <<>>, loader |-> Silent, life |-> "open",
                   sent |-> 0, held |-> {}, outcome |-> "none"]

-----------------------------------------------------------------------------
(* loadSapling() *)

ProveEnds(p, o) == [p EXCEPT !.at = "over", !.held = @ \ {"signals"}, !.outcome = o]
ProveFails(p) == ProveEnds(p, "error")

\* The application is asked in a microtask, whatever the signal says by then.
Ask(p) == [p EXCEPT !.at = "ask",
                    !.loader = [Silent EXCEPT !.at = IF p.options.loader = "package" THEN "head"
                                                     ELSE "asked"]]

\* The next asset comes from memory, from the directory, or from the loader.
Proceed(p) ==
    LET next == [p EXCEPT !.asset = @ + 1, !.sent = @ + 1, !.value = "none"]
    IN  CASE next.asset \in p.memory -> [next EXCEPT !.at = "digest", !.value = "whole"]
          [] next.asset \notin p.memory /\ Persistent -> [next EXCEPT !.at = "open"]
          [] OTHER -> Ask(next)

\* The checks at the end of a turn: then the asset is one of those the prover gets.
Collect(p) ==
    LET given == [p EXCEPT !.given = Append(@, p.value)]
    IN  IF Stopped THEN ProveFails(p)
        ELSE IF p.asset \in Asset /\ p.asset + 1 \in Asset THEN Proceed(given)
        ELSE ProveEnds(given, "value")

\* The checks before the first asset.
ProveRefused ==
    /\ Proving /\ prove.at = "idle"
    /\ Stopped \/ prove.options.required # Asset \/ ~prove.options.room
    /\ prove' = ProveFails(prove)
    /\ UNCHANGED caller

ProveStart ==
    /\ Proving /\ prove.at = "idle"
    /\ ~Stopped /\ prove.options.required = Asset /\ prove.options.room
    /\ prove' = Proceed([prove EXCEPT !.held = {"signals"}])
    /\ UNCHANGED caller

\* The await at is over, and prove has become one of S.
ProveAwaited(at, S) ==
    /\ prove.at = at
    /\ prove' \in S
    /\ UNCHANGED caller

-----------------------------------------------------------------------------
(* read() *)

OnDisk == prove.disk[prove.asset]

\* The file or the entry of the cache is opened; one that is missing is loaded.
CacheOpened ==
    ProveAwaited("open",
        {ProveFails(prove),
         IF OnDisk = "absent" THEN Ask(prove)
         ELSE [prove EXCEPT !.at = "read", !.held = @ \cup {"file"}]})

\* It has the length it should have, and its bytes are read into a buffer of that length.
CacheRead ==
    ProveAwaited("read",
        {[prove EXCEPT !.at = "shut"],
         [prove EXCEPT !.at = "shut",
                       !.value = IF OnDisk = "short" THEN "none" ELSE OnDisk]})

CacheShut ==
    LET shut == [prove EXCEPT !.held = @ \ {"file"}]
    IN  ProveAwaited("shut",
            {ProveFails(shut),
             IF shut.value = "none" THEN ProveFails(shut) ELSE [shut EXCEPT !.at = "digest"]})

\* What is cached is verified again; nothing repairs it.
CacheDigest ==
    ProveAwaited("digest",
        {IF prove.value = "whole" THEN Collect(prove) ELSE ProveFails(prove)})

-----------------------------------------------------------------------------
(* The loader *)

Deliver(p, content) ==
    LET answered == [p EXCEPT !.loader = Silent]
    IN  CASE p.at # "ask" -> answered
          [] p.at = "ask" /\ (Stopped \/ content \notin {"whole", "altered"}) ->
                ProveFails(answered)
          [] OTHER -> [answered EXCEPT !.at = "verify", !.value = content]

\* The load does not wait for a loader that it has stopped.
ProveStopped ==
    /\ prove.at = "ask" /\ Stopped
    /\ prove' = ProveFails(prove)
    /\ UNCHANGED caller

\* The signal of the loader aborts with the load's, and when the load is over.
LoaderCut == Stopped \/ prove.at # "ask"

PackageOpened ==
    /\ prove.loader.at = "head" /\ ~LoaderCut
    /\ prove' \in {Deliver(prove, "failed"), [prove EXCEPT !.loader.at = "body"]}
    /\ UNCHANGED caller

\* A chunk that does not fit is an error, and so is in the end a body that is too short.
PackageChunk ==
    LET loader == prove.loader
        Content == IF loader.size < AssetBytes THEN "short"
                   ELSE IF loader.altered THEN "altered" ELSE "whole"
    IN  /\ loader.at = "body" /\ ~LoaderCut
        /\ \/ prove' \in {Deliver(prove, "failed"), Deliver(prove, Content)}
           \/ \E altered \in BOOLEAN :
                 prove' = IF loader.size + 1 > AssetBytes THEN Deliver(prove, "failed")
                          ELSE [prove EXCEPT !.loader.size = @ + 1,
                                             !.loader.altered = @ \/ altered]
        /\ UNCHANGED caller

\* The stream fails with the signal, or the next check of it throws: the reader is released.
PackageCut ==
    /\ prove.loader.at \in {"head", "body"} /\ LoaderCut
    /\ prove' = Deliver(prove, "failed")
    /\ UNCHANGED caller

\* A callback of the application answers when and with what it likes; ownBytes() copies.
ApplicationAnswers ==
    /\ prove.loader.at = "asked"
    /\ \E content \in {"whole", "altered", "short", "long", "failed"} :
          prove' = Deliver(prove, content)
    /\ UNCHANGED caller

\* The digest is computed to its end before the checks.
LoadDigest ==
    LET stored == IF Persistent THEN [prove EXCEPT !.at = "directory"]
                  ELSE Collect([prove EXCEPT !.memory = @ \cup {prove.asset}])
    IN  ProveAwaited("verify",
            {IF prove.value # "whole" \/ Stopped THEN ProveFails(prove) ELSE stored})

-----------------------------------------------------------------------------
(* write() *)

Closing == prove.life # "open"
Tidy(p, value) == [p EXCEPT !.at = "unlink", !.value = value]
Store(p) == [p EXCEPT !.disk[p.asset] = "whole"]

\* The directory is made, or the cache opened; an entry is put into a cache as a whole.
DirectoryMade ==
    ProveAwaited("directory",
        {ProveFails(prove),
         IF prove.options.cache = "files"
         THEN [prove EXCEPT !.at = "write", !.held = @ \cup {"temporary"}, !.temporary = "part"]
         ELSE IF Closing THEN ProveFails(prove) ELSE [prove EXCEPT !.at = "put"]})

EntryPut == ProveAwaited("put", {ProveFails(prove), Collect(Store(prove))})

\* The bytes go to a file of a random name, which gets its own when they are complete; only
\* the end of the wallet, not that of the caller, is looked at between the two.
TemporaryWritten ==
    ProveAwaited("write",
        {Tidy(prove, "none"),
         IF Closing THEN Tidy([prove EXCEPT !.temporary = "whole"], "none")
         ELSE [prove EXCEPT !.at = "rename", !.temporary = "whole"]})

Renamed ==
    ProveAwaited("rename",
        {Tidy(prove, "none"), Tidy([Store(prove) EXCEPT !.temporary = "none"], "whole")})

\* The temporary file is removed, if there is one and the disk lets it.
Unlinked ==
    LET Ended(p) == IF p.value = "none" THEN ProveFails(p) ELSE Collect(p)
        tidy == [prove EXCEPT !.held = @ \ {"temporary"}]
    IN  ProveAwaited("unlink", {Ended(tidy), Ended([tidy EXCEPT !.temporary = "none"])})

-----------------------------------------------------------------------------
(* close(), the caller, and the other processes *)

\* The load is aborted and awaited; then the memory is cleared.
AssetsClosed ==
    /\ prove.life = "closing" /\ prove.at \in {"idle", "over"}
    /\ prove' = [prove EXCEPT !.life = "closed", !.memory = {}]
    /\ UNCHANGED caller

CloseAssets ==
    /\ Proving /\ prove.life = "open"
    /\ prove' = [prove EXCEPT !.life = "closing"]
    /\ UNCHANGED caller

ProveAbort ==
    /\ Proving /\ ~cut /\ prove.at # "over"
    /\ cut' = TRUE
    /\ UNCHANGED <<prove, exchange, served>>

\* Another process fills the same directory, with the same code.
OtherStores ==
    /\ Proving /\ Persistent
    /\ \E i \in Asset :
          /\ prove.disk[i] = "absent"
          /\ prove' = [prove EXCEPT !.disk[i] = "whole"]
    /\ UNCHANGED caller

\* The file system and digests come to an end; a loader that is not stopped need not.
ProveStep ==
    \/ ProveRefused \/ ProveStart \/ ProveStopped \/ PackageCut \/ AssetsClosed
    \/ CacheOpened \/ CacheRead \/ CacheShut \/ CacheDigest \/ LoadDigest
    \/ DirectoryMade \/ EntryPut \/ TemporaryWritten \/ Renamed \/ Unlinked

ProveNext ==
    \/ ProveStep \/ PackageOpened \/ PackageChunk \/ ApplicationAnswers
    \/ CloseAssets \/ ProveAbort \/ OtherStores

-----------------------------------------------------------------------------

\* The prover gets the pinned bytes or nothing.  At every step, so whenever a process dies,
\* what the cache holds under a digest is a whole file, unless it was damaged before: a
\* part of one never gets the name, whoever else fills the directory.  A load that succeeds
\* leaves the cache complete, and the next one needs no loader (sapling, write).
AssetsWhole ==
    /\ \A i \in DOMAIN prove.given : prove.given[i] = "whole"
    /\ prove.outcome = "value" => Len(prove.given) = 2
    /\ \A i \in Asset \ prove.damaged : prove.disk[i] \in {"absent", "whole"}
    /\ prove.outcome = "value" =>
          IF Persistent THEN \A i \in Asset : prove.disk[i] = "whole"
          ELSE Asset \subseteq prove.memory \/ prove.life = "closed"

\* When close() has resolved, no load runs, so none puts an asset into the memory that was
\* cleared or has a file of the cache open; only a loader may still be at work (close).
AssetsGivenBack ==
    prove.life = "closed" =>
        prove.at \in {"idle", "over"} /\ prove.memory = {} /\ prove.held = {}
=============================================================================
