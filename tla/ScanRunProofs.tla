--------------------------- MODULE ScanRunProofs ----------------------------
(***************************************************************************)
(* Proofs about the sync of a wallet: the inside of a run (ScanRun), and   *)
(* who begins, shares and cuts runs (WalletSync, the last part).           *)
(*                                                                         *)
(* ScanRun, for any chains, batches, requests and limits, and however the  *)
(* source moves between two reads: a target that is reported reached was   *)
(* still served when the wallet had its blocks, a rewind was justified,    *)
(* and evidence is complete and of one view.                               *)
(*                                                                         *)
(* The argument about the source is that what was read is remembered: that *)
(* the target was found behind the last block (Target), and between which  *)
(* lengths the common prefix of the two chains was during the search       *)
(* (Search).  The rest is what a pass has gathered when it gets somewhere  *)
(* (Gathered).                                                             *)
(*                                                                         *)
(* WalletSync, for any watchers and any capacity: subscribers are served,  *)
(* and only the owner of a run cuts it (SyncInv).                          *)
(***************************************************************************)
EXTENDS ScanRun, WalletSync, FiniteSetTheorems, WellFoundedInduction, TLAPS

HashSet == Seq(Nat)
RunSet == [target : HashSet, named : BOOLEAN, attempt : Nat, pass : Nat, cut : BOOLEAN]
PassSet ==
    [height : Nat, fork : BOOLEAN, least : Nat, most : Nat, last : Nat, prior : HashSet,
     blocks : Seq(HashSet), visited : SUBSET Request, request : Request \cup {"none"},
     before : HashSet, tied : BOOLEAN, inventory : HashSet, evidence : HashSet, moves : 0..2,
     read : Nat, kept : Nat, given : Nat]

Types == /\ source \in Chains /\ scanned \in HashSet
         /\ run \in RunSet /\ pass \in PassSet

Over == {"idle", "reached", "failed"}

\* The source has been seen on a chain with the target since the last block was written, if
\* it is on one.
Target ==
    /\ at \notin Over \cup {"tip"} => run.target # None
    /\ at \notin Over /\ run.target # None /\ Has(source, run.target) => held
    /\ at \in {"state", "complete"} => held
    /\ at = "reached" => Has(scanned, run.target) /\ held

\* The search knows how much the chains have shared at least and at most, and all it has
\* passed was not shared.
Search(place, p) ==
    /\ place = "pin" => ~p.fork
    /\ place \in {"local", "remote", "rewind"} =>
          /\ p.least <= Agreed(source, scanned) /\ Agreed(source, scanned) <= p.most
          /\ p.fork => p.least <= p.height
    /\ place \in {"remote", "rewind"} => Retained(p.height)
    /\ place = "rewind" => p.fork /\ p.height <= p.most

\* What has been gathered where it is used.  A source that has not moved since its tip was
\* read is still there, and one that has moved once is not.
Unspent == {"tipBefore", "localTip", "inventory", "evidence", "tipAfter"}
Gathered(place, p) ==
    /\ place = "ingest" => p.blocks # <<>>
    /\ place = "transaction" => p.request \in {"status", "enhancement"}
    /\ place \in {"history", "flush"} => p.request = "address"
    /\ place = "history" => p.given + p.kept = p.read
    /\ place = "flush" => p.given + p.kept + 1 = p.read
    /\ place \in Unspent => p.request = "unspent"
    /\ place = "tipBefore" => p.moves = 0
    /\ place = "apply" /\ p.request = "address" => p.given = Stream
    /\ place \in {"inventory", "evidence", "tipAfter"} \/ (place = "apply" /\ p.request = "unspent") =>
          p.before = scanned
    /\ place \in {"evidence", "tipAfter"} \/ (place = "apply" /\ p.request = "unspent") =>
          (p.tied => p.inventory = p.before)
    /\ place \in Unspent \ {"tipBefore"} =>
          (p.moves = 0 => source = p.before) /\ (p.moves = 1 => source # p.before)
    /\ place \in {"evidence", "tipAfter"} /\ p.moves = 0 => p.inventory = p.before
    /\ place = "tipAfter" /\ p.moves = 0 => p.evidence = p.before
    /\ place = "apply" /\ p.request = "unspent" /\ p.moves < 2 =>
          p.inventory = p.before /\ p.evidence = p.before

IInv == Types /\ Target /\ Search(at, pass) /\ Gathered(at, pass)

-----------------------------------------------------------------------------
(* Chains *)

LEMMA ChainType ==
    ASSUME NEW c \in Chains
    PROVE  c \in HashSet /\ c # None /\ Len(c) \in Nat /\ Len(c) >= Birthday
BY ChainsAssumption, BoundsAssumption DEF HashSet, None

\* The prefix of a hash.
LEMMA HashType ==
    ASSUME NEW b \in HashSet, NEW h \in 0..Len(b)
    PROVE  /\ Hash(b, h) \in HashSet /\ Len(Hash(b, h)) = h
           /\ \A i \in 1..h : Hash(b, h)[i] = b[i]
BY DEF Hash, HashSet

\* Two hashes of one length with the same blocks are one, and a prefix has the same blocks.
LEMMA SameHash ==
    ASSUME NEW a \in HashSet, NEW b \in HashSet, Len(a) = Len(b),
           \A i \in 1..Len(a) : a[i] = b[i]
    PROVE  a = b
BY DEF HashSet

LEMMA PrefixBlocks ==
    ASSUME NEW p \in HashSet, NEW c \in HashSet
    PROVE  IsPrefix(p, c) <=> Len(p) <= Len(c) /\ \A i \in 1..Len(p) : p[i] = c[i]
<1> DEFINE n == Len(p)
<1>1. n \in Nat /\ Len(c) \in Nat
  BY DEF HashSet
<1>2. SubSeq(p, 1, n) = p
  <2>1. n \in 0..Len(p)
    BY <1>1
  <2>2. /\ SubSeq(p, 1, n) \in HashSet /\ Len(SubSeq(p, 1, n)) = n
        /\ \A i \in 1..n : SubSeq(p, 1, n)[i] = p[i]
    BY <2>1, HashType DEF Hash
  <2> QED
    BY <2>2, SameHash
<1>3. ASSUME n <= Len(c) PROVE SubSeq(c, 1, n) = p <=> \A i \in 1..n : p[i] = c[i]
  <2>1. n \in 0..Len(c)
    BY <1>1, <1>3
  <2>2. /\ SubSeq(c, 1, n) \in HashSet /\ Len(SubSeq(c, 1, n)) = n
        /\ \A i \in 1..n : SubSeq(c, 1, n)[i] = c[i]
    BY <2>1, HashType DEF Hash
  <2> QED
    BY <2>2, SameHash
<1> QED
  BY <1>2, <1>3 DEF IsPrefix

\* A finite set of numbers has a greatest one: the sets of what is above its members cannot
\* get smaller forever.
LEMMA Greatest ==
    ASSUME NEW n \in Nat, NEW S \in SUBSET (0..n), S # {}
    PROVE  \E m \in S : \A k \in S : k <= m
<1> DEFINE Above(m) == {s \in S : s > m}
           T == {Above(m) : m \in S}
<1>0. IsFiniteSet(S)
  <2>1. IsFiniteSet(0..n)
    <3>1. 0 \in Int /\ n \in Int
      OBVIOUS
    <3> QED
      BY <3>1, FS_Interval
  <2>2. S \subseteq 0..n
    OBVIOUS
  <2> QED
    BY <2>1, <2>2, FS_Subset
<1>1. T # {} /\ T \subseteq FiniteSubsetsOf(S)
  <2>1. ASSUME NEW m \in S PROVE Above(m) \in FiniteSubsetsOf(S)
    <3>1. Above(m) \subseteq S
      OBVIOUS
    <3> QED
      BY <1>0, <3>1, FS_Subset DEF FiniteSubsetsOf
  <2> QED
    BY <2>1
<1>2. PICK x \in T : \A y \in T : <<y, x>> \notin StrictSubsetOrdering(S)
  BY <1>0, <1>1, WFMin, FS_StrictSubsetOrderingWellFounded
<1>3. PICK m \in S : x = Above(m)
  OBVIOUS
<1>4. ASSUME NEW k \in S, k > m PROVE FALSE
  <2>1. k \in Nat /\ m \in Nat /\ \A s \in S : s \in Nat
    OBVIOUS
  <2>2. k \in Above(m) /\ k \notin Above(k)
    BY <1>4, <2>1
  <2>3. Above(k) \subseteq Above(m)
    <3>1. ASSUME NEW s \in S, s > k PROVE s > m
      BY <1>4, <2>1, <3>1
    <3> QED
      BY <3>1
  <2>4. <<Above(k), Above(m)>> \in StrictSubsetOrdering(S)
    BY <2>2, <2>3 DEF StrictSubsetOrdering
  <2> QED
    BY <1>2, <1>3, <2>4
<1> QED
  BY <1>4

\* Two chains share exactly the blocks up to where they agree.
LEMMA Agreement ==
    ASSUME NEW a \in HashSet, NEW b \in HashSet
    PROVE  /\ Agreed(a, b) \in Nat
           /\ \A h \in 0..Len(b) : Has(a, Hash(b, h)) <=> h <= Agreed(a, b)
<1> DEFINE Shared == {h \in 0..Len(b) : Has(a, Hash(b, h))}
           CP == CommonPrefixes({a, b})
<1>1. Len(a) \in Nat /\ Len(b) \in Nat
  BY DEF HashSet
<1>2. ASSUME NEW h \in Shared PROVE Hash(b, h) \in CP
  <2>1. Hash(b, h) \in Prefixes(b)
    BY DEF Prefixes, Hash
  <2>2. IsPrefix(Hash(b, h), b)
    BY <1>1, HashType, PrefixBlocks
  <2>3. IsPrefix(Hash(b, h), a)
    BY DEF Has
  <2> QED
    BY <2>1, <2>2, <2>3 DEF CommonPrefixes
<1>3. ASSUME NEW p \in CP PROVE p \in HashSet /\ Len(p) \in Shared
  <2>1. p \in Prefixes(a) \cup Prefixes(b) /\ IsPrefix(p, a) /\ IsPrefix(p, b)
    BY DEF CommonPrefixes
  <2>2. p \in HashSet
    <3>1. CASE p \in Prefixes(a)
      BY <3>1, HashType DEF Prefixes, Hash
    <3>2. CASE p \in Prefixes(b)
      BY <3>2, HashType DEF Prefixes, Hash
    <3> QED
      BY <2>1, <3>1, <3>2
  <2>3. Len(p) \in Nat /\ Len(p) <= Len(b) /\ \A i \in 1..Len(p) : p[i] = b[i]
    BY <2>1, <2>2, PrefixBlocks DEF HashSet
  <2>4. Len(p) \in 0..Len(b)
    BY <1>1, <2>3
  <2>5. p = Hash(b, Len(p))
    <3>1. /\ Hash(b, Len(p)) \in HashSet /\ Len(Hash(b, Len(p))) = Len(p)
          /\ \A i \in 1..Len(p) : Hash(b, Len(p))[i] = b[i]
      BY <2>4, HashType
    <3> QED
      BY <2>2, <2>3, <3>1, SameHash
  <2> QED
    BY <2>1, <2>2, <2>4, <2>5 DEF Has
<1>4. 0 \in Shared
  <2>1. 0 \in 0..Len(b) /\ 0 <= Len(a)
    BY <1>1
  <2>2. Hash(b, 0) \in HashSet /\ Len(Hash(b, 0)) = 0
    BY <2>1, HashType
  <2>3. IsPrefix(Hash(b, 0), a)
    BY <2>1, <2>2, PrefixBlocks
  <2> QED
    BY <2>1, <2>3 DEF Has
<1>5. PICK m \in Shared : \A h \in Shared : h <= m
  <2>1. Shared \in SUBSET (0..Len(b)) /\ Shared # {}
    BY <1>4
  <2> QED
    BY <1>1, <2>1, Greatest
<1>6. PICK p \in CP : p = LongestCommonPrefix({a, b}) /\ \A q \in CP : Len(q) <= Len(p)
  <2>1. \A q \in CP : Len(q) <= Len(Hash(b, m))
    BY <1>3, <1>5, HashType
  <2>2. \E p \in CP : \A q \in CP : Len(q) <= Len(p)
    BY <1>2, <2>1
  <2> QED
    BY <2>2 DEF LongestCommonPrefix
<1>7. Agreed(a, b) = Len(p) /\ Len(p) \in Shared
  BY <1>3, <1>6 DEF Agreed
<1>8. \A h \in Shared : h <= Len(p)
  BY <1>2, <1>6, HashType
<1>9. ASSUME NEW h \in 0..Len(b), h <= Len(p) PROVE Has(a, Hash(b, h))
  <2>1. Has(a, Hash(b, Len(p))) /\ Len(p) \in 0..Len(b)
    BY <1>7
  <2>2. /\ Hash(b, h) \in HashSet /\ Len(Hash(b, h)) = h
        /\ \A i \in 1..h : Hash(b, h)[i] = b[i]
    BY HashType
  <2>3. /\ Hash(b, Len(p)) \in HashSet /\ Len(Hash(b, Len(p))) = Len(p)
        /\ \A i \in 1..Len(p) : Hash(b, Len(p))[i] = b[i]
    BY <2>1, HashType
  <2>4. Len(p) <= Len(a) /\ \A i \in 1..Len(p) : b[i] = a[i]
    BY <2>1, <2>3, PrefixBlocks DEF Has
  <2>5. h <= Len(a) /\ \A i \in 1..h : b[i] = a[i]
    BY <1>1, <1>9, <2>1, <2>4
  <2> QED
    BY <2>2, <2>5, PrefixBlocks DEF Has
<1> QED
  BY <1>7, <1>8, <1>9

\* The lesser and the greater of two.
LEMMA LeastOfTwo ==
    ASSUME NEW a \in Nat, NEW b \in Nat
    PROVE  Min({a, b}) \in {a, b} /\ Min({a, b}) <= a /\ Min({a, b}) <= b
<1>1. \E x \in {a, b} : \A y \in {a, b} : x <= y
  <2>1. a <= b \/ b <= a
    OBVIOUS
  <2> QED
    BY <2>1
<1> QED
  BY <1>1 DEF Min

LEMMA GreatestOfTwo ==
    ASSUME NEW a \in Nat, NEW b \in Nat
    PROVE  Max({a, b}) \in {a, b} /\ Max({a, b}) >= a /\ Max({a, b}) >= b
<1>1. \E x \in {a, b} : \A y \in {a, b} : x >= y
  <2>1. a <= b \/ b <= a
    OBVIOUS
  <2> QED
    BY <2>1
<1> QED
  BY <1>1 DEF Max

-----------------------------------------------------------------------------
(* The ways a pass goes on *)

LEMMA NewPassType == NewPass \in PassSet
<1>1. None \in HashSet /\ <<>> \in Seq(HashSet)
  BY DEF None, HashSet
<1> QED
  BY <1>1 DEF NewPass, PassSet

\* To another place of the pass, with what belongs there.
Lands(place, p) ==
    /\ at' = place /\ pass' = p
    /\ run' = run /\ source' = source /\ scanned' = scanned /\ held' = held

LEMMA Goes ==
    ASSUME IInv, at \notin Over \cup {"tip"},
           NEW place, place \notin Over \cup {"tip"}, place \in {"state", "complete"} => held,
           NEW p \in PassSet, Lands(place, p), Search(place, p), Gathered(place, p)
    PROVE  IInv'
<1> USE DEF Lands
<1>1. Types'
  BY DEF IInv, Types
<1>2. Target'
  BY DEF IInv, Target, Over
<1>3. Search(at, pass)'
  BY DEF Search, Retained
<1>4. Gathered(at, pass)'
  BY DEF Gathered
<1> QED
  BY <1>1, <1>2, <1>3, <1>4 DEF IInv

\* To a place that needs nothing of the pass.
Free == {"pin", "tip", "plan", "prior", "stream", "repin", "reprior", "requests", "finalPin",
         "state", "complete"} \cup Over

LEMMA FreeNeedsNothing ==
    ASSUME NEW place \in Free, NEW p, place = "pin" => ~p.fork
    PROVE  Search(place, p) /\ Gathered(place, p)
BY DEF Free, Over, Search, Gathered, Unspent

\* To a new pass, a new attempt, or the end.
LEMMA EndsPass ==
    ASSUME IInv, UNCHANGED <<source, scanned, held>>,
           Fail \/ (at \notin Over \cup {"tip"} /\ (Stale \/ Changed))
    PROVE  IInv'
<1> DEFINE Same(r) == r \in RunSet /\ r.target = run.target
<1>1. run \in RunSet /\ pass \in PassSet
  BY DEF IInv, Types
<1>2. /\ pass' = NewPass
      /\ \/ at' = "failed" /\ run' \in RunSet
         \/ at \notin Over \cup {"tip"} /\ at' \in {"pin", "tip"} /\ Same(run')
  <2>1. CASE Fail
    <3>1. NoRun \in RunSet
      BY DEF NoRun, RunSet, None, HashSet
    <3> QED
      BY <2>1, <3>1 DEF Fail, Anew
  <2>2. CASE ~Fail /\ Stale
    <3>1. Anew("pin", [run EXCEPT !.pass = @ + 1])
      BY <2>2 DEF Stale
    <3>2. Same([run EXCEPT !.pass = @ + 1])
      BY <1>1 DEF RunSet
    <3> QED
      BY <2>2, <3>1, <3>2 DEF Anew
  <2>3. CASE ~Fail /\ Changed
    <3>1. Anew(IF run.named THEN "pin" ELSE "tip", [run EXCEPT !.attempt = @ + 1, !.pass = 1])
      BY <2>3 DEF Changed
    <3>2. Same([run EXCEPT !.attempt = @ + 1, !.pass = 1])
      <4>1. run.attempt + 1 \in Nat /\ 1 \in Nat
        BY <1>1 DEF RunSet
      <4> QED
        BY <1>1, <4>1 DEF RunSet
    <3> QED
      BY <2>3, <3>1, <3>2 DEF Anew
  <2> QED
    BY <2>1, <2>2, <2>3
<1>3. Types'
  BY <1>2, NewPassType DEF IInv, Types
<1>4. Target'
  BY <1>2 DEF IInv, Target, Over
<1>5. Search(at, pass)' /\ Gathered(at, pass)'
  <2>1. at' \in {"pin", "tip", "failed"} /\ ~pass'.fork
    BY <1>2 DEF NewPass
  <2> QED
    BY <2>1 DEF Search, Gathered, Unspent
<1> QED
  BY <1>3, <1>4, <1>5 DEF IInv

\* To a new plan, after the wallet's blocks changed.
LEMMA Replans ==
    ASSUME IInv, at \notin Over \cup {"tip"},
           NEW chain \in HashSet, Rescanned(chain), Anew("plan", run)
    PROVE  IInv'
<1> USE DEF Rescanned, Anew
<1>1. Types'
  BY NewPassType DEF IInv, Types
<1>2. Target'
  BY DEF IInv, Target, Over, Has
<1>3. Search(at, pass)' /\ Gathered(at, pass)'
  BY DEF Search, Gathered, Unspent
<1> QED
  BY <1>1, <1>2, <1>3 DEF IInv
-----------------------------------------------------------------------------
(* The rest of the world, and the target *)

LEMMA WorldStep ==
    ASSUME IInv, SourceMoves \/ ForeignWrite \/ Abort
    PROVE  IInv'
<1>1. CASE SourceMoves
  <2> DEFINE n == Agreed(source', scanned)
             moved == [pass EXCEPT !.least = Min({@, n}), !.most = Max({@, n})]
             left == [pass EXCEPT !.moves = IF @ = 0 THEN 1 ELSE 2]
  <2>0. source' \in Chains /\ source' # source /\ UNCHANGED <<scanned, at, run>>
    BY <1>1 DEF SourceMoves
  <2>1. pass \in PassSet /\ pass.least \in Nat /\ pass.most \in Nat /\ pass.height \in Nat
    BY DEF IInv, Types, PassSet
  <2>2. n \in Nat
    <3>1. source' \in HashSet /\ scanned \in HashSet
      BY <2>0, ChainType DEF IInv, Types
    <3> QED
      BY <3>1, Agreement
  <2>3. /\ Min({pass.least, n}) \in Nat /\ Min({pass.least, n}) <= pass.least
        /\ Min({pass.least, n}) <= n
        /\ Max({pass.most, n}) \in Nat /\ Max({pass.most, n}) >= pass.most
        /\ Max({pass.most, n}) >= n
    BY <2>1, <2>2, LeastOfTwo, GreatestOfTwo
  <2>4. moved \in PassSet
    BY <2>1, <2>3 DEF PassSet
  <2>5. /\ moved.least = Min({pass.least, n}) /\ moved.most = Max({pass.most, n})
        /\ moved.height = pass.height /\ moved.fork = pass.fork
    BY <2>1 DEF PassSet
  <2>6. /\ at \in {"local", "remote", "rewind"} => pass' = moved
        /\ at \in Unspent \ {"tipBefore"} => pass' = left
        /\ at \notin {"local", "remote", "rewind"} \cup (Unspent \ {"tipBefore"}) => pass' = pass
    <3>1. Searching <=> at \in {"local", "remote", "rewind"}
      BY DEF Searching
    <3>2. Viewing <=> at \in Unspent \ {"tipBefore"}
      BY DEF Viewing, Unspent
    <3>3. ~(Searching /\ Viewing)
      BY DEF Searching, Viewing
    <3>4. /\ Searching => pass' = moved
          /\ Viewing => pass' = left
          /\ ~Searching /\ ~Viewing => pass' = pass
      BY <1>1, <3>3 DEF SourceMoves
    <3> QED
      BY <3>1, <3>2, <3>4
  <2>11. /\ left \in PassSet /\ left.moves = IF pass.moves = 0 THEN 1 ELSE 2
         /\ left.before = pass.before /\ left.request = pass.request /\ left.tied = pass.tied
         /\ left.inventory = pass.inventory /\ left.evidence = pass.evidence
    <3> DEFINE m == IF pass.moves = 0 THEN 1 ELSE 2
    <3>1. m \in 0..2 /\ left = [pass EXCEPT !.moves = m]
      OBVIOUS
    <3> HIDE DEF m, left
    <3>2. /\ left \in PassSet /\ left.moves = m
          /\ left.before = pass.before /\ left.request = pass.request /\ left.tied = pass.tied
          /\ left.inventory = pass.inventory /\ left.evidence = pass.evidence
      BY <2>1, <3>1 DEF PassSet
    <3> QED
      BY <3>2 DEF m
  <2> HIDE DEF moved, n, left
  <2>7. Types'
    BY <2>0, <2>4, <2>6, <2>11 DEF IInv, Types
  <2>8. Target'
    BY <1>1 DEF IInv, Target, SourceMoves, Over, Running
  <2>9. Search(at, pass)'
    <3>1. CASE at \in {"local", "remote", "rewind"}
      <4>1. pass' = moved
        BY <2>6, <3>1
      <4>2. moved.least <= n /\ n <= moved.most
        BY <2>3, <2>5
      <4>3. pass.fork => moved.least <= pass.height
        BY <2>1, <2>3, <2>5, <3>1 DEF IInv, Search
      <4>4. at = "rewind" => pass.fork /\ pass.height <= moved.most
        BY <2>1, <2>3, <2>5 DEF IInv, Search
      <4>5. at \in {"remote", "rewind"} => Retained(pass.height)
        BY DEF IInv, Search
      <4> QED
        BY <2>0, <2>5, <3>1, <4>1, <4>2, <4>3, <4>4, <4>5 DEF Search, Retained, n
    <3>2. CASE at \notin {"local", "remote", "rewind"} \cup (Unspent \ {"tipBefore"})
      BY <2>0, <2>6, <3>2 DEF IInv, Search
    <3>3. CASE at \in Unspent \ {"tipBefore"}
      BY <2>0, <3>3 DEF Search, Unspent
    <3> QED
      BY <3>1, <3>2, <3>3
  <2>10. Gathered(at, pass)'
    <3>1. CASE at \in {"local", "remote", "rewind"}
      BY <2>0, <3>1 DEF Gathered, Unspent
    <3>2. CASE at \notin {"local", "remote", "rewind"} \cup (Unspent \ {"tipBefore"})
      BY <2>0, <2>6, <3>2 DEF IInv, Gathered
    <3>3. CASE at \in Unspent \ {"tipBefore"}
      <4>1. pass' = left /\ left.moves # 0 /\ pass.moves \in 0..2
        BY <2>1, <2>6, <2>11, <3>3 DEF PassSet
      <4>2. left.moves = 1 => source = pass.before
        BY <2>11, <3>3 DEF IInv, Gathered
      <4> QED
        BY <2>0, <2>11, <3>3, <4>1, <4>2 DEF IInv, Gathered, Unspent
    <3> QED
      BY <3>1, <3>2, <3>3
  <2> QED
    BY <2>7, <2>8, <2>9, <2>10 DEF IInv
<1>2. CASE ForeignWrite
  BY <1>2 DEF ForeignWrite, IInv, Types, Target, Search, Retained, Gathered, Has
<1>3. CASE Abort
  <2>1. run' \in RunSet /\ run'.target = run.target
    BY <1>3 DEF IInv, Types, RunSet, Abort
  <2>2. Types'
    BY <1>3, <2>1 DEF IInv, Types, Abort
  <2>3. Target'
    BY <1>3, <2>1 DEF IInv, Target, Abort
  <2>4. Search(at, pass)' /\ Gathered(at, pass)'
    BY <1>3 DEF IInv, Search, Retained, Gathered, Abort
  <2> QED
    BY <2>2, <2>3, <2>4 DEF IInv
<1> QED
  BY <1>1, <1>2, <1>3

\* Points are hashes of blocks.
LEMMA PointType ==
    ASSUME NEW target \in {None} \cup Points
    PROVE  target \in HashSet
<1>1. CASE target = None
  BY <1>1 DEF None, HashSet
<1>2. CASE target \in Points
  <2>1. PICK c \in Chains : target \in {Hash(c, h) : h \in Birthday..Len(c)}
    BY <1>2 DEF Points
  <2>2. PICK h \in Birthday..Len(c) : target = Hash(c, h)
    BY <2>1
  <2>3. c \in HashSet /\ h \in 0..Len(c)
    BY ChainType, BoundsAssumption
  <2> QED
    BY <2>2, <2>3, HashType
<1> QED
  BY <1>1, <1>2

LEMMA TargetStep ==
    ASSUME IInv,
           (\E target \in {None} \cup Points : Start(target)) \/ Tip \/ Complete
    PROVE  IInv'
<1>1. ASSUME NEW target \in {None} \cup Points, Start(target) PROVE IInv'
  <2> DEFINE r == [target |-> target, named |-> target # None, attempt |-> 1, pass |-> 1,
                   cut |-> FALSE]
  <2>1. r \in RunSet /\ r.target = target
    BY PointType DEF RunSet
  <2>2. run' = r /\ pass' = NewPass /\ at' = IF target = None THEN "tip" ELSE "pin"
    BY <1>1 DEF Start, Anew
  <2>3. UNCHANGED <<source, scanned>> /\ held' = (target # None /\ Has(source, target))
    BY <1>1 DEF Start
  <2> HIDE DEF r
  <2>4. Types'
    BY <2>1, <2>2, <2>3, NewPassType DEF IInv, Types
  <2>5. Target'
    BY <2>1, <2>2, <2>3 DEF Target, Over, Has
  <2>6. Search(at, pass)' /\ Gathered(at, pass)'
    BY <2>2 DEF Search, Gathered, Unspent, NewPass
  <2> QED
    BY <2>4, <2>5, <2>6 DEF IInv
<1>2. CASE Tip
  <2> DEFINE r == [run EXCEPT !.target = source]
  <2>1. r \in RunSet /\ r.target = source /\ source # None
    BY ChainType DEF IInv, Types, RunSet
  <2>2. run' = r /\ pass' = NewPass /\ at' = "pin" /\ held' = TRUE /\ UNCHANGED <<source, scanned>>
    BY <1>2 DEF Tip, Anew
  <2> HIDE DEF r
  <2>3. Types'
    BY <2>1, <2>2, NewPassType DEF IInv, Types
  <2>4. Target'
    BY <2>1, <2>2 DEF Target, Over
  <2>5. Search(at, pass)' /\ Gathered(at, pass)'
    BY <2>2 DEF Search, Gathered, Unspent, NewPass
  <2> QED
    BY <2>3, <2>4, <2>5 DEF IInv
<1>3. CASE Complete
  <2> DEFINE r == [run EXCEPT !.attempt = 0, !.pass = 0]
  <2>1. at = "complete" /\ held /\ UNCHANGED <<source, scanned, held>>
    BY <1>3 DEF Complete, IInv, Target
  <2>2. CASE Fail \/ Stale
    BY <2>1, <2>2, EndsPass DEF Over
  <2>3. CASE Has(scanned, run.target) /\ Anew("reached", r)
    <3>1. r \in RunSet /\ r.target = run.target
      BY DEF IInv, Types, RunSet
    <3>2. run' = r /\ pass' = NewPass /\ at' = "reached"
      BY <2>3 DEF Anew
    <3> HIDE DEF r
    <3>3. Types'
      BY <2>1, <3>1, <3>2, NewPassType DEF IInv, Types
    <3>4. Target'
      BY <2>1, <2>3, <3>1, <3>2 DEF Target, Over, Has
    <3>5. Search(at, pass)' /\ Gathered(at, pass)'
      BY <3>2 DEF Search, Gathered, Unspent
    <3> QED
      BY <3>3, <3>4, <3>5 DEF IInv
  <2> QED
    BY <1>3, <2>2, <2>3 DEF Complete
<1> QED
  BY <1>1, <1>2, <1>3
-----------------------------------------------------------------------------
(* The pass *)

\* The pass goes on where it needs nothing.
LEMMA GoesFree ==
    ASSUME IInv, at \notin Over \cup {"tip"},
           NEW place \in Free, place \notin Over \cup {"pin", "tip"},
           place \in {"state", "complete"} => held,
           NEW p \in PassSet, Lands(place, p)
    PROVE  IInv'
<1>1. Search(place, p) /\ Gathered(place, p)
  BY FreeNeedsNothing
<1> QED
  BY <1>1, Goes

\* The search begins at what both chains may have.
LEMMA PinKeeps == ASSUME IInv, Pin PROVE IInv'
<1> DEFINE top == IF Retained(Len(scanned)) THEN Len(scanned) ELSE 0
           n == Agreed(source, scanned)
           start == Min({top, Len(run.target)})
           p == [pass EXCEPT !.height = start, !.least = n, !.most = n]
<1>1. at = "pin" /\ UNCHANGED <<source, scanned, held>>
  BY DEF Pin
<1>2. CASE Changed
  BY <1>1, <1>2, EndsPass DEF Over
<1>3. CASE GoWith("local", p)
  <2>1. scanned \in HashSet /\ source \in HashSet /\ run.target \in HashSet /\ pass \in PassSet
    BY ChainType DEF IInv, Types, RunSet
  <2>2. n \in Nat
    BY <2>1, Agreement
  <2>3. start \in Nat
    <3>1. top \in Nat /\ Len(run.target) \in Nat
      BY <2>1 DEF HashSet
    <3> HIDE DEF top
    <3> QED
      BY <3>1, LeastOfTwo
  <2>4. p \in PassSet
    <3> HIDE DEF start, n
    <3> QED
      BY <2>1, <2>2, <2>3 DEF PassSet
  <2>5. p.least = n /\ p.most = n /\ ~p.fork
    BY <1>1, <2>1 DEF PassSet, IInv, Search
  <2>6. Lands("local", p)
    BY <1>1, <1>3 DEF GoWith, Lands
  <2> HIDE DEF p
  <2>7. Search("local", p)
    BY <2>2, <2>5 DEF Search
  <2>8. Gathered("local", p)
    BY DEF Gathered, Unspent
  <2> QED
    BY <1>1, <2>4, <2>6, <2>7, <2>8, Goes DEF Over
<1> QED
  BY <1>2, <1>3 DEF Pin

LEMMA ReadLocalKeeps == ASSUME IInv, ReadLocal PROVE IInv'
<1>1. at = "local" /\ UNCHANGED <<source, scanned, held>> /\ at \notin Over \cup {"tip"}
  BY DEF ReadLocal, Over
<1>2. pass \in PassSet
  BY DEF IInv, Types
<1>3. CASE Retained(pass.height) /\ Revised("remote", pass)
  <2>1. Lands("remote", pass)
    BY <1>1, <1>3 DEF Revised, Lands
  <2>2. Search("remote", pass) /\ Gathered("remote", pass)
    BY <1>1, <1>3 DEF IInv, Search, Gathered, Unspent
  <2> QED
    BY <1>1, <1>2, <2>1, <2>2, Goes DEF Over
<1>4. CASE Fail
  BY <1>1, <1>4, EndsPass
<1>5. CASE GoWith("plan", NewPass)
  <2>1. Lands("plan", NewPass)
    BY <1>1, <1>5 DEF GoWith, Lands
  <2> QED
    BY <1>1, <2>1, NewPassType, GoesFree DEF Free, Over
<1> QED
  BY <1>3, <1>4, <1>5 DEF ReadLocal

\* What the source has is shared, what it has not is not.
LEMMA ReadRemoteKeeps == ASSUME IInv, ReadRemote PROVE IInv'
<1> DEFINE below == [pass EXCEPT !.height = @ - 1, !.fork = TRUE]
<1>1. at = "remote" /\ UNCHANGED <<source, scanned, held>> /\ at \notin Over \cup {"tip"}
  BY DEF ReadRemote, Over
<1>2. pass \in PassSet /\ pass.height \in Nat /\ pass.least \in Nat /\ pass.most \in Nat
  BY DEF IInv, Types, PassSet
<1>3. scanned \in HashSet /\ source \in HashSet
  BY ChainType DEF IInv, Types
<1>4. pass.height - 1 \in Nat /\ pass.height \in 0..Len(scanned)
  <2>1. Birthday \in Nat \ {0} /\ Retained(pass.height)
    BY <1>1, BoundsAssumption DEF IInv, Search
  <2> QED
    BY <1>2, <1>3, <2>1 DEF Retained, HashSet
<1>5. /\ Agreed(source, scanned) \in Nat
      /\ Has(source, Hash(scanned, pass.height)) <=> pass.height <= Agreed(source, scanned)
  BY <1>3, <1>4, Agreement
<1>6. pass.least <= Agreed(source, scanned) /\ Agreed(source, scanned) <= pass.most
  BY <1>1 DEF IInv, Search
<1>7. CASE ~Has(source, Hash(scanned, pass.height)) /\ GoWith("local", below)
  <2>1. below \in PassSet /\ below.height = pass.height - 1
    BY <1>2, <1>4 DEF PassSet
  <2>2. below.least = pass.least /\ below.most = pass.most
    BY <1>2 DEF PassSet
  <2>3. Lands("local", below)
    BY <1>1, <1>7 DEF GoWith, Lands
  <2> HIDE DEF below
  <2>4. below.least <= below.height
    BY <1>2, <1>4, <1>5, <1>6, <1>7, <2>1, <2>2
  <2>5. Search("local", below)
    BY <1>6, <2>2, <2>4 DEF Search
  <2>6. Gathered("local", below)
    BY DEF Gathered, Unspent
  <2> QED
    BY <1>1, <2>1, <2>3, <2>5, <2>6, Goes DEF Over
<1>8. CASE Has(source, Hash(scanned, pass.height)) /\ pass.fork /\ Goto("rewind")
  <2>1. Lands("rewind", pass)
    BY <1>1, <1>8 DEF Goto, Lands
  <2>2. pass.height <= pass.most
    BY <1>2, <1>5, <1>6, <1>8
  <2>3. Search("rewind", pass) /\ Gathered("rewind", pass)
    BY <1>1, <1>8, <2>2 DEF IInv, Search, Gathered, Unspent
  <2> QED
    BY <1>1, <1>2, <2>1, <2>3, Goes DEF Over
<1>9. CASE GoWith("plan", NewPass)
  <2>1. Lands("plan", NewPass)
    BY <1>1, <1>9 DEF GoWith, Lands
  <2> QED
    BY <1>1, <2>1, NewPassType, GoesFree DEF Free, Over
<1> QED
  BY <1>7, <1>8, <1>9 DEF ReadRemote

LEMMA RewindKeeps == ASSUME IInv, Rewind PROVE IInv'
<1>1. at = "rewind" /\ at \notin Over \cup {"tip"}
  BY DEF Rewind, Over
<1>2. CASE fresh
  <2>1. /\ \E h \in Birthday - 1 .. pass.height : Rescanned(Hash(scanned, h))
        /\ Anew("plan", run)
    BY <1>2 DEF Rewind
  <2>2. PICK h \in Birthday - 1 .. pass.height : Rescanned(Hash(scanned, h))
    BY <2>1
  <2>3. h \in 0..Len(scanned) /\ scanned \in HashSet
    <3>1. Birthday \in Nat \ {0} /\ Retained(pass.height) /\ scanned \in HashSet
      BY <1>1, BoundsAssumption DEF IInv, Search, Types
    <3> QED
      BY <3>1 DEF Retained, HashSet
  <2>4. Hash(scanned, h) \in HashSet
    BY <2>3, HashType
  <2> QED
    BY <1>1, <2>1, <2>2, <2>4, Replans
<1>3. CASE ~fresh
  BY <1>1, <1>3, EndsPass DEF Rewind
<1> QED
  BY <1>2, <1>3
\* The wallet's chain is scanned upwards.
LEMMA PlanKeeps == ASSUME IInv, Plan PROVE IInv'
<1>1. at = "plan" /\ UNCHANGED <<source, scanned, held>> /\ at \notin Over \cup {"tip"}
  BY DEF Plan, Over
<1>2. CASE Goto("requests")
  <2>1. Lands("requests", pass) /\ pass \in PassSet
    BY <1>1, <1>2 DEF Goto, Lands, IInv, Types
  <2> QED
    BY <1>1, <2>1, GoesFree DEF Free, Over
<1>3. ASSUME NEW end, end \in Nat, NEW last \in Len(scanned) + 1 .. end,
             Revised("prior", [NewPass EXCEPT !.last = last])
      PROVE  IInv'
  <2>1. last \in Nat
    <3>1. Len(scanned) \in Nat
      BY DEF IInv, Types, HashSet
    <3> QED
      BY <1>3, <3>1
  <2>2. [NewPass EXCEPT !.last = last] \in PassSet
    BY <2>1, NewPassType DEF PassSet
  <2>3. Lands("prior", [NewPass EXCEPT !.last = last])
    BY <1>1, <1>3 DEF Revised, Lands
  <2> QED
    BY <1>1, <2>2, <2>3, GoesFree DEF Free, Over
<1>4. Min({Len(run.target), Len(scanned) + ScanBatchSize}) \in Nat
  <2>1. Len(run.target) \in Nat /\ Len(scanned) + ScanBatchSize \in Nat
    <3>1. run.target \in HashSet /\ scanned \in HashSet /\ ScanBatchSize \in Nat
      BY BoundsAssumption DEF IInv, Types, RunSet
    <3> QED
      BY <3>1 DEF HashSet
  <2> QED
    BY <2>1, LeastOfTwo
<1> QED
  BY <1>2, <1>3, <1>4 DEF Plan

LEMMA PriorKeeps == ASSUME IInv, Prior PROVE IInv'
<1> DEFINE p == [pass EXCEPT !.prior = Hash(source, Len(scanned))]
<1>1. at = "prior" /\ UNCHANGED <<source, scanned, held>> /\ at \notin Over \cup {"tip"}
  BY DEF Prior, Over
<1>2. CASE Changed
  BY <1>1, <1>2, EndsPass
<1>3. CASE GoWith("stream", p)
  <2>1. Hash(source, Len(scanned)) \in HashSet
    <3>1. source \in HashSet /\ scanned \in HashSet
      BY ChainType DEF IInv, Types
    <3>2. Len(scanned) \in 0..Len(source)
      BY <3>1 DEF Prior, HashSet
    <3> QED
      BY <3>1, <3>2, HashType
  <2>2. p \in PassSet
    BY <2>1 DEF IInv, Types, PassSet
  <2>3. Lands("stream", p)
    BY <1>1, <1>3 DEF GoWith, Lands
  <2> HIDE DEF p
  <2> QED
    BY <1>1, <2>2, <2>3, GoesFree DEF Free, Over
<1> QED
  BY <1>2, <1>3 DEF Prior

LEMMA BlockKeeps == ASSUME IInv, Block PROVE IInv'
<1> DEFINE h == Len(scanned) + Len(pass.blocks) + 1
           p == [pass EXCEPT !.blocks = Append(@, Hash(source, h))]
<1>1. at = "stream" /\ UNCHANGED <<source, scanned, held>> /\ at \notin Over \cup {"tip"}
  BY DEF Block, Over
<1>2. pass \in PassSet /\ pass.blocks \in Seq(HashSet) /\ pass.last \in Nat
      /\ source \in HashSet /\ scanned \in HashSet
  BY ChainType DEF IInv, Types, PassSet
<1>3. h \in Nat /\ Len(source) \in Nat
  BY <1>2 DEF HashSet
<1>4. h <= Len(source) /\ GoWith("stream", p)
  <2>1. h <= Min({pass.last, Len(source)}) /\ GoWith("stream", p)
    BY DEF Block
  <2>2. Min({pass.last, Len(source)}) \in Nat /\ Min({pass.last, Len(source)}) <= Len(source)
    BY <1>2, <1>3, LeastOfTwo
  <2> QED
    BY <1>3, <2>1, <2>2
<1>5. Hash(source, h) \in HashSet
  BY <1>2, <1>3, <1>4, HashType
<1>6. p \in PassSet
  <2>1. Append(pass.blocks, Hash(source, h)) \in Seq(HashSet)
    BY <1>2, <1>5
  <2> QED
    BY <1>2, <2>1 DEF PassSet
<1>7. Lands("stream", p)
  BY <1>1, <1>4 DEF GoWith, Lands
<1> HIDE DEF p
<1> QED
  BY <1>1, <1>6, <1>7, GoesFree DEF Free, Over

LEMMA StreamEndsKeeps == ASSUME IInv, StreamEnds PROVE IInv'
<1>1. at = "stream" /\ at \notin Over \cup {"tip"} /\ pass.blocks # <<>>
  BY DEF StreamEnds, Over
<1>2. Lands("ingest", pass) /\ pass \in PassSet
  BY DEF StreamEnds, Goto, Lands, IInv, Types
<1>3. Search("ingest", pass) /\ Gathered("ingest", pass)
  BY <1>1 DEF Search, Gathered, Unspent
<1> QED
  BY <1>1, <1>2, <1>3, Goes DEF Over

LEMMA IngestKeeps == ASSUME IInv, Ingest PROVE IInv'
<1>1. at = "ingest" /\ at \notin Over \cup {"tip"} /\ pass \in PassSet
  BY DEF Ingest, Over, IInv, Types
<1>2. CASE fresh /\ Continuous(pass.prior, pass.blocks)
  <2>1. Rescanned(Last(pass.blocks)) /\ Anew("plan", run)
    BY <1>2 DEF Ingest
  <2>2. Last(pass.blocks) \in HashSet
    <3>1. pass.blocks \in Seq(HashSet) /\ pass.blocks # <<>>
      BY <1>1 DEF PassSet, IInv, Gathered
    <3>2. Len(pass.blocks) \in 1..Len(pass.blocks)
      BY <3>1
    <3> QED
      BY <3>1, <3>2 DEF Last
  <2> QED
    BY <1>1, <2>1, <2>2, Replans
<1>3. CASE ~(fresh /\ Continuous(pass.prior, pass.blocks))
  <2>1. UNCHANGED <<source, scanned, held>>
    BY <1>3 DEF Ingest
  <2>2. Stale \/ Fail \/ Goto("repin")
    BY <1>3 DEF Ingest
  <2>3. CASE Stale \/ Fail
    BY <1>1, <2>1, <2>3, EndsPass
  <2>4. CASE Goto("repin")
    <3>1. Lands("repin", pass)
      BY <2>1, <2>4 DEF Goto, Lands
    <3> QED
      BY <1>1, <3>1, GoesFree DEF Free, Over
  <2> QED
    BY <2>2, <2>3, <2>4
<1> QED
  BY <1>2, <1>3

LEMMA PinAgainKeeps == ASSUME IInv, Repin \/ Reprior PROVE IInv'
<1>1. at \notin Over \cup {"tip"} /\ pass \in PassSet /\ UNCHANGED <<source, scanned, held>>
  BY DEF Repin, Reprior, Over, IInv, Types
<1>2. CASE Changed \/ Fail
  BY <1>1, <1>2, EndsPass
<1>3. CASE Goto("reprior")
  <2>1. Lands("reprior", pass)
    BY <1>1, <1>3 DEF Goto, Lands
  <2> QED
    BY <1>1, <2>1, GoesFree DEF Free, Over
<1> QED
  BY <1>2, <1>3 DEF Repin, Reprior

\* The last pin is what the report of the target stands on.
LEMMA FinalPinKeeps == ASSUME IInv, FinalPin \/ ReadState PROVE IInv'
<1>1. /\ at \in {"finalPin", "state"} /\ at \notin Over \cup {"tip"} /\ pass \in PassSet
      /\ UNCHANGED <<source, scanned, held>>
  BY DEF FinalPin, ReadState, Over, IInv, Types
<1>2. CASE Changed
  BY <1>1, <1>2, EndsPass
<1>3. CASE Has(source, run.target) /\ Goto("state")
  <2>1. held
    BY <1>1, <1>3 DEF IInv, Target, Over
  <2>2. Lands("state", pass)
    BY <1>1, <1>3 DEF Goto, Lands
  <2> QED
    BY <1>1, <2>1, <2>2, GoesFree DEF Free, Over
<1>4. CASE ReadState
  <2>1. held
    BY <1>4 DEF ReadState, IInv, Target
  <2>2. Lands("complete", pass)
    BY <1>1, <1>4 DEF ReadState, Revised, Lands
  <2> QED
    BY <1>1, <2>1, <2>2, GoesFree DEF Free, Over
<1> QED
  BY <1>2, <1>3, <1>4 DEF FinalPin
-----------------------------------------------------------------------------
(* Enhancement *)

LEMMA ServedGoes ==
    ASSUME IInv, at \notin Over \cup {"tip"}, Served, UNCHANGED <<source, scanned, held>>
    PROVE  IInv'
<1> DEFINE p == [NewPass EXCEPT !.visited = pass.visited]
<1>1. p \in PassSet
  <2>1. pass.visited \in SUBSET Request
    BY DEF IInv, Types, PassSet
  <2> QED
    BY <2>1, NewPassType DEF PassSet
<1>2. Lands("requests", p)
  BY DEF Served, GoWith, Lands
<1> HIDE DEF p
<1> QED
  BY <1>1, <1>2, GoesFree DEF Free, Over

LEMMA TakeUpKeeps == ASSUME IInv, NEW r \in Request, TakeUp(r) PROVE IInv'
<1> DEFINE p == [NewPass EXCEPT !.visited = pass.visited \cup {r}, !.request = r]
           place == CASE r \in {"status", "enhancement"} -> "transaction"
                      [] r = "address" -> "history"
                      [] r = "unspent" -> "tipBefore"
<1>1. at = "requests" /\ UNCHANGED <<source, scanned, held>> /\ at \notin Over \cup {"tip"}
  BY DEF TakeUp, Over
<1>2. CASE Fail
  BY <1>1, <1>2, EndsPass
<1>3. CASE Revised(place, p)
  <2>1. p \in PassSet
    <3>1. pass.visited \cup {r} \in SUBSET Request /\ r \in Request \cup {"none"}
      BY DEF IInv, Types, PassSet
    <3> QED
      BY <3>1, NewPassType DEF PassSet
  <2>2. p.request = r /\ p.given = 0 /\ p.kept = 0 /\ p.read = 0 /\ p.moves = 0
    BY DEF NewPass
  <2>3. Lands(place, p)
    BY <1>1, <1>3 DEF Revised, Lands
  <2>4. \/ place = "transaction" /\ r \in {"status", "enhancement"}
        \/ place = "history" /\ r = "address"
        \/ place = "tipBefore" /\ r = "unspent"
    <3>1. r \in {"status", "enhancement"} \/ r = "address" \/ r = "unspent"
      BY DEF Request
    <3> QED
      BY <3>1
  <2> HIDE DEF p, place
  <2>5. Search(place, p)
    BY <2>4 DEF Search
  <2>6. Gathered(place, p)
    BY <2>2, <2>4 DEF Gathered, Unspent
  <2>7. place \notin Over \cup {"tip", "state", "complete"}
    BY <2>4 DEF Over
  <2> QED
    BY <1>1, <2>1, <2>3, <2>5, <2>6, <2>7, Goes
<1> QED
  BY <1>2, <1>3 DEF TakeUp

LEMMA RequestKeeps == ASSUME IInv, NothingDue \/ ReadTransaction PROVE IInv'
<1>1. CASE NothingDue
  <2>1. at = "requests" /\ Lands("finalPin", NewPass)
    BY <1>1 DEF NothingDue, GoWith, Lands
  <2> QED
    BY <2>1, NewPassType, GoesFree DEF Free, Over
<1>2. CASE ReadTransaction
  <2>1. at = "transaction" /\ Lands("apply", pass) /\ pass \in PassSet
    BY <1>2 DEF ReadTransaction, Goto, Lands, IInv, Types
  <2>2. Search("apply", pass) /\ Gathered("apply", pass)
    BY <2>1 DEF IInv, Search, Gathered, Unspent
  <2> QED
    BY <2>1, <2>2, Goes DEF Over
<1> QED
  BY <1>1, <1>2

LEMMA ApplyKeeps == ASSUME IInv, Apply PROVE IInv'
<1>1. at \notin Over \cup {"tip"} /\ UNCHANGED <<source, scanned, held>>
  BY DEF Apply, Over
<1>2. Served \/ Stale
  BY DEF Apply
<1> QED
  BY <1>1, <1>2, ServedGoes, EndsPass

\* What has been read of the stream has been given, or is in the batch or in hand.
LEMMA HistoryKeeps == ASSUME IInv, ReadHistory \/ Flush \/ HistoryEnds PROVE IInv'
<1>1. /\ at \in {"history", "flush"} /\ at \notin Over \cup {"tip"}
      /\ UNCHANGED <<source, scanned, held>>
  BY DEF ReadHistory, Flush, HistoryEnds, Over
<1>2. pass \in PassSet /\ pass.read \in Nat /\ pass.kept \in Nat /\ pass.given \in Nat
      /\ pass.request = "address"
  BY <1>1 DEF IInv, Types, PassSet, Gathered
<1>3. CASE ReadHistory /\ pass.kept = AddressBatch
  <2> DEFINE p == [pass EXCEPT !.read = @ + 1, !.kept = @ + 0]
  <2>1. GoWith("flush", p) /\ at = "history"
    BY <1>3 DEF ReadHistory
  <2>2. p \in PassSet
    <3>1. pass.read + 1 \in Nat /\ pass.kept + 0 \in Nat
      BY <1>2
    <3> QED
      BY <1>2, <3>1 DEF PassSet
  <2>3. /\ p.request = pass.request /\ p.given = pass.given
        /\ p.read = pass.read + 1 /\ p.kept = pass.kept
    BY <1>2 DEF PassSet
  <2>4. Lands("flush", p)
    BY <1>1, <2>1 DEF GoWith, Lands
  <2>5. pass.given + pass.kept = pass.read
    BY <2>1 DEF IInv, Gathered
  <2> HIDE DEF p
  <2>6. p.given + p.kept + 1 = p.read
    BY <1>2, <2>3, <2>5
  <2>7. Search("flush", p) /\ Gathered("flush", p)
    BY <1>2, <2>3, <2>6 DEF Search, Gathered, Unspent
  <2> QED
    BY <1>1, <2>2, <2>4, <2>7, Goes DEF Over
<1>4. CASE ReadHistory /\ pass.kept # AddressBatch
  <2> DEFINE p == [pass EXCEPT !.read = @ + 1, !.kept = @ + 1]
  <2>1. GoWith("history", p) /\ at = "history"
    BY <1>4 DEF ReadHistory
  <2>2. p \in PassSet
    <3>1. pass.read + 1 \in Nat /\ pass.kept + 1 \in Nat
      BY <1>2
    <3> QED
      BY <1>2, <3>1 DEF PassSet
  <2>3. /\ p.request = pass.request /\ p.given = pass.given
        /\ p.read = pass.read + 1 /\ p.kept = pass.kept + 1
    BY <1>2 DEF PassSet
  <2>4. Lands("history", p)
    BY <1>1, <2>1 DEF GoWith, Lands
  <2>5. pass.given + pass.kept = pass.read
    BY <2>1 DEF IInv, Gathered
  <2> HIDE DEF p
  <2>6. p.given + p.kept = p.read
    BY <1>2, <2>3, <2>5
  <2>7. Search("history", p) /\ Gathered("history", p)
    BY <1>2, <2>3, <2>6 DEF Search, Gathered, Unspent
  <2> QED
    BY <1>1, <2>2, <2>4, <2>7, Goes DEF Over
<1>5. CASE Flush
  <2> DEFINE p == [pass EXCEPT !.given = @ + pass.kept, !.kept = 1]
  <2>1. at = "flush" /\ (Stale \/ GoWith("history", p) \/ Served)
    BY <1>5 DEF Flush
  <2>2. CASE Stale
    BY <1>1, <2>2, EndsPass
  <2>3. CASE Served
    BY <1>1, <2>3, ServedGoes
  <2>4. CASE GoWith("history", p)
    <3>1. p \in PassSet
      <4>1. pass.given + pass.kept \in Nat /\ 1 \in Nat
        BY <1>2
      <4> QED
        BY <1>2, <4>1 DEF PassSet
    <3>2. /\ p.request = pass.request /\ p.given = pass.given + pass.kept
          /\ p.read = pass.read /\ p.kept = 1
      BY <1>2 DEF PassSet
    <3>3. Lands("history", p)
      BY <1>1, <2>4 DEF GoWith, Lands
    <3>4. pass.given + pass.kept + 1 = pass.read
      BY <2>1 DEF IInv, Gathered
    <3> HIDE DEF p
    <3>5. p.given + p.kept = p.read
      BY <1>2, <3>2, <3>4
    <3>6. Search("history", p) /\ Gathered("history", p)
      BY <1>2, <3>2, <3>5 DEF Search, Gathered, Unspent
    <3> QED
      BY <1>1, <3>1, <3>3, <3>6, Goes DEF Over
  <2> QED
    BY <2>1, <2>2, <2>3, <2>4
<1>6. CASE HistoryEnds
  <2> DEFINE p == [pass EXCEPT !.given = @ + pass.kept, !.kept = 0]
  <2>1. at = "history" /\ pass.read = Stream /\ GoWith("apply", p)
    BY <1>6 DEF HistoryEnds
  <2>2. p \in PassSet
    <3>1. pass.given + pass.kept \in Nat /\ 0 \in Nat
      BY <1>2
    <3> QED
      BY <1>2, <3>1 DEF PassSet
  <2>3. p.request = pass.request /\ p.given = pass.given + pass.kept
    BY <1>2 DEF PassSet
  <2>4. Lands("apply", p)
    BY <1>1, <2>1 DEF GoWith, Lands
  <2>5. pass.given + pass.kept = Stream
    BY <2>1 DEF IInv, Gathered
  <2> HIDE DEF p
  <2>6. Search("apply", p) /\ Gathered("apply", p)
    BY <1>2, <2>3, <2>5 DEF Search, Gathered, Unspent
  <2> QED
    BY <1>1, <2>2, <2>4, <2>6, Goes DEF Over
<1> QED
  BY <1>3, <1>4, <1>5, <1>6 DEF ReadHistory, Flush, HistoryEnds
\* The tip is a block of the wallet when the inventory is read, and the same one after it.
LEMMA UnspentKeeps ==
    ASSUME IInv, TipBefore \/ LocalTip \/ Inventory \/ Evidence \/ TipAfter
    PROVE  IInv'
<1>1. /\ at \in Unspent /\ at \notin Over \cup {"tip"}
      /\ UNCHANGED <<source, scanned, held>>
  BY DEF TipBefore, LocalTip, Inventory, Evidence, TipAfter, Over, Unspent
<1>2. pass \in PassSet /\ pass.request = "unspent" /\ pass.before \in HashSet
      /\ source \in HashSet /\ scanned \in HashSet
  BY <1>1, ChainType DEF IInv, Types, PassSet, Gathered
<1>3. CASE TipBefore
  <2> DEFINE p == [pass EXCEPT !.before = source]
  <2>1. Lands("localTip", p)
    BY <1>3 DEF TipBefore, GoWith, Lands
  <2>2. p \in PassSet /\ p.request = "unspent" /\ p.before = source /\ p.moves = pass.moves
    BY <1>2 DEF PassSet
  <2>4. pass.moves = 0
    BY <1>3 DEF TipBefore, IInv, Gathered
  <2> HIDE DEF p
  <2>3. Search("localTip", p) /\ Gathered("localTip", p)
    BY <2>2, <2>4 DEF Search, Gathered, Unspent
  <2> QED
    BY <1>1, <2>1, <2>2, <2>3, Goes DEF Over
<1>4. CASE LocalTip
  <2>1. CASE Fail \/ Stale
    BY <1>1, <2>1, EndsPass
  <2>2. CASE Served
    BY <1>1, <2>2, ServedGoes
  <2>3. CASE Has(scanned, pass.before) /\ Len(pass.before) = Len(scanned) /\ Goto("inventory")
    <3>1. pass.before = scanned
      BY <1>2, <2>3, PrefixBlocks, SameHash DEF Has
    <3>2. Lands("inventory", pass)
      BY <1>1, <2>3 DEF Goto, Lands
    <3>3. Search("inventory", pass) /\ Gathered("inventory", pass)
      <4>1. (pass.moves = 0 => source = pass.before) /\ (pass.moves = 1 => source # pass.before)
        BY <1>4 DEF LocalTip, IInv, Gathered, Unspent
      <4> QED
        BY <1>2, <3>1, <4>1 DEF Search, Gathered, Unspent
    <3> QED
      BY <1>1, <1>2, <3>2, <3>3, Goes DEF Over
  <2> QED
    BY <1>4, <2>1, <2>2, <2>3 DEF LocalTip
<1>5. CASE Inventory
  <2>1. /\ at = "inventory" /\ pass.before = scanned
        /\ (pass.moves = 0 => source = pass.before) /\ (pass.moves = 1 => source # pass.before)
    BY <1>5 DEF Inventory, IInv, Gathered, Unspent
  <2>2. PICK tied \in BOOLEAN :
           IF tied /\ source # pass.before THEN Fail
           ELSE GoWith("evidence", [pass EXCEPT !.tied = tied, !.inventory = source])
    BY <1>5 DEF Inventory
  <2> DEFINE p == [pass EXCEPT !.tied = tied, !.inventory = source]
  <2>3. CASE Fail
    BY <1>1, <2>3, EndsPass
  <2>4. CASE ~(tied /\ source # pass.before) /\ GoWith("evidence", p)
    <3>1. /\ p \in PassSet /\ p.tied = tied /\ p.inventory = source /\ p.moves = pass.moves
          /\ p.before = pass.before /\ p.request = pass.request
      BY <1>2 DEF PassSet
    <3>2. Lands("evidence", p)
      BY <1>1, <2>4 DEF GoWith, Lands
    <3> HIDE DEF p
    <3>3. Search("evidence", p) /\ Gathered("evidence", p)
      BY <1>2, <2>1, <2>4, <3>1 DEF Search, Gathered, Unspent
    <3> QED
      BY <1>1, <3>1, <3>2, <3>3, Goes DEF Over
  <2> QED
    BY <2>2, <2>3, <2>4
<1>6. CASE Evidence
  <2> DEFINE p == [pass EXCEPT !.evidence = source]
  <2>1. at = "evidence" /\ Lands("tipAfter", p)
    BY <1>1, <1>6 DEF Evidence, GoWith, Lands
  <2>2. /\ p \in PassSet /\ p.evidence = source /\ p.tied = pass.tied /\ p.moves = pass.moves
        /\ p.inventory = pass.inventory /\ p.before = pass.before /\ p.request = pass.request
    BY <1>2 DEF PassSet
  <2> HIDE DEF p
  <2>3. Search("tipAfter", p) /\ Gathered("tipAfter", p)
    BY <1>2, <2>1, <2>2 DEF IInv, Search, Gathered, Unspent
  <2> QED
    BY <1>1, <2>1, <2>2, <2>3, Goes DEF Over
<1>7. CASE TipAfter
  <2>1. CASE Served
    BY <1>1, <2>1, ServedGoes
  <2>2. CASE source = pass.before /\ Goto("apply")
    <3>1. at = "tipAfter" /\ Lands("apply", pass)
      BY <1>1, <1>7, <2>2 DEF TipAfter, Goto, Lands
    <3>2. pass.moves < 2 => pass.moves = 0
      BY <1>2, <2>2, <3>1 DEF PassSet, IInv, Gathered, Unspent
    <3>3. Search("apply", pass) /\ Gathered("apply", pass)
      BY <1>2, <3>1, <3>2 DEF IInv, Search, Gathered, Unspent
    <3> QED
      BY <1>1, <1>2, <3>1, <3>3, Goes DEF Over
  <2> QED
    BY <1>7, <2>1, <2>2 DEF TipAfter
<1> QED
  BY <1>3, <1>4, <1>5, <1>6, <1>7

-----------------------------------------------------------------------------
(* The specification *)

LEMMA InitOK == Init => IInv
<1> SUFFICES ASSUME Init PROVE IInv
  OBVIOUS
<1>1. Types
  <2>1. NoRun \in RunSet
    BY DEF NoRun, RunSet, None, HashSet
  <2>2. scanned \in HashSet
    <3>1. CASE scanned \in Points
      BY <3>1, PointType
    <3>2. CASE scanned \in {Hash(c, Birthday - 1) : c \in Chains}
      <4>1. PICK c \in Chains : scanned = Hash(c, Birthday - 1)
        BY <3>2
      <4>2. c \in HashSet /\ Birthday - 1 \in 0..Len(c)
        BY ChainType, BoundsAssumption
      <4> QED
        BY <4>1, <4>2, HashType
    <3> QED
      BY <3>1, <3>2 DEF Init
  <2> QED
    BY <2>1, <2>2, NewPassType DEF Init, Types
<1>2. Target
  BY DEF Init, Target, Over
<1>3. Search(at, pass) /\ Gathered(at, pass)
  BY DEF Init, Search, Gathered, Unspent
<1> QED
  BY <1>1, <1>2, <1>3 DEF IInv

LEMMA CallFailsKeeps == ASSUME IInv, CallFails PROVE IInv'
BY EndsPass DEF CallFails

LEMMA StepOK == IInv /\ [Next]_vars => IInv'
<1> SUFFICES ASSUME IInv, [Next]_vars PROVE IInv'
  OBVIOUS
<1>1. CASE UNCHANGED vars
  BY <1>1 DEF vars, IInv, Types, Target, Search, Retained, Gathered, Has
<1>2. CASE (\E target \in {None} \cup Points : Start(target)) \/ Tip \/ Complete
  BY <1>2, TargetStep
<1>3. CASE SourceMoves \/ ForeignWrite \/ Abort
  BY <1>3, WorldStep
<1>4. CASE Pin \/ ReadLocal \/ ReadRemote \/ Rewind
  BY <1>4, PinKeeps, ReadLocalKeeps, ReadRemoteKeeps, RewindKeeps
<1>5. CASE Plan \/ Prior \/ Block \/ StreamEnds \/ Ingest \/ Repin \/ Reprior
  BY <1>5, PlanKeeps, PriorKeeps, BlockKeeps, StreamEndsKeeps, IngestKeeps, PinAgainKeeps
<1>6. CASE (\E r \in Request : TakeUp(r)) \/ NothingDue \/ ReadTransaction \/ Apply
  BY <1>6, TakeUpKeeps, RequestKeeps, ApplyKeeps
<1>7. CASE ReadHistory \/ Flush \/ HistoryEnds
  BY <1>7, HistoryKeeps
<1>8. CASE TipBefore \/ LocalTip \/ Inventory \/ Evidence \/ TipAfter
  BY <1>8, UnspentKeeps
<1>9. CASE FinalPin \/ ReadState \/ CallFails
  BY <1>9, FinalPinKeeps, CallFailsKeeps
<1> QED
  BY <1>1, <1>2, <1>3, <1>4, <1>5, <1>6, <1>7, <1>8, <1>9 DEF Next, Step

\* What the run remembers of the source was read from it, in every behaviour of the run,
\* the wallet and the source.
THEOREM Invariance == Spec => []IInv
BY InitOK, StepOK, PTL DEF Spec

\* A target reported reached is on the wallet's chain, and the source had it on its own
\* after the wallet's last block was written, however often the source moves between the
\* reads of a run and whoever else writes to the wallet.
THEOREM ReachedIsServed == Spec => []TargetServed
<1>1. IInv => TargetServed
  BY DEF IInv, Target, TargetServed
<1> QED
  BY <1>1, Invariance, PTL

\* A rewind goes to a block that was shared during its search, just above which the chains
\* differed: no chain of reads over a moving source leads to a guess.
THEOREM RewindIsJustified == Spec => RewindJustified
<1> DEFINE Justified == at = "rewind" /\ at' = "plan" => pass.height \in pass.least..pass.most
<1>1. IInv /\ [Next]_vars => [Justified]_vars
  <2>1. IInv /\ at = "rewind" => pass.height \in pass.least..pass.most
    BY DEF IInv, Types, Search, PassSet
  <2> QED
    BY <2>1
<1>2. [][Justified]_vars <=> RewindJustified
  BY PTL DEF RewindJustified
<1> HIDE DEF Justified
<1> QED
  BY <1>1, <1>2, Invariance, PTL DEF Spec

\* The last part of an address's history is applied when all of it was given, and unspent
\* outputs only to the wallet's last block, as read from it by one view of the source, with
\* the one exception of a source that was elsewhere between two reads of that block.
THEOREM EvidenceIsCoherent == Spec => EvidenceCoherent
<1> DEFINE Coherent ==
        at = "apply" /\ at' = "requests" =>
          /\ pass.request = "address" => pass.given = Stream
          /\ pass.request = "unspent" =>
                /\ pass.before = scanned
                /\ pass.tied => pass.inventory = scanned
                /\ pass.moves < 2 => {pass.inventory, pass.evidence} = {scanned}
<1>1. IInv /\ [Next]_vars => [Coherent]_vars
  BY DEF IInv, Gathered
<1>2. [][Coherent]_vars <=> EvidenceCoherent
  BY PTL DEF EvidenceCoherent
<1> HIDE DEF Coherent
<1> QED
  BY <1>1, <1>2, Invariance, PTL DEF Spec

-----------------------------------------------------------------------------
(* Who begins a run, shares it and may cut it: WalletSync.  Its run is the *)
(* one that a caller, a submission or the loop has started.                *)

SyncRuns ==
    [owner : {"none", "caller", "submission", "watch"},
     phase : {"none", "start", "work", "report"},
     outcome : {"none", "reached", "transient", "terminal", "stopped"},
     cut : BOOLEAN]

SyncTypes ==
    /\ stage \in [Watcher -> {"new", "starting", "on", "done"}]
    /\ buffer \in [Watcher -> 0..Capacity]
    /\ reading \subseteq Watcher
    /\ aborted \subseteq User
    /\ running \in SyncRuns
    /\ watching \in {"none", "join", "own", "delay", "ending"}
    /\ watchCut \in BOOLEAN
    /\ submission \in {"idle", "own", "joined"}
    /\ closing \in {"open", "run", "watch", "drain", "closed"}

\* Only a subscriber buffers, and a subscription begins inside next().
SyncWatchers ==
    \A w \in Watcher : /\ stage[w] # "on" => buffer[w] = 0
                       /\ stage[w] = "starting" => w \in reading

\* A loop without subscribers has been aborted; one that has a run, or waits for one,
\* knows that there is one.
SyncLoops ==
    /\ watching = "none" => Subscribers = {} /\ ~watchCut
    /\ watching # "none" /\ Subscribers = {} => watchCut
    /\ watching = "own" <=> running.owner = "watch"
    /\ watching = "join" => running.owner # "none"

SyncUsers ==
    /\ running.owner = "none" => running = NotRunning
    /\ submission # "idle" => running.owner # "none" /\ "submission" \notin aborted
    /\ submission = "own" => running.owner = "submission"

\* What close() has behind it at each of its stages.
SyncEnding ==
    /\ closing # "open" => aborted = User /\ Subscribers = {} /\ submission = "idle"
    /\ closing \in {"watch", "drain", "closed"} => running.owner = "none"
    /\ closing \in {"drain", "closed"} => watching = "none"
    /\ closing = "closed" => reading = {}

SyncInv == SyncTypes /\ SyncWatchers /\ SyncLoops /\ SyncUsers /\ SyncEnding
-----------------------------------------------------------------------------
(* What watchers and loops do *)

\* Watchers that end subscribe no more, and the last one that leaves aborts the loop.
Left(ws) ==
    /\ stage' \in [Watcher -> {"new", "starting", "on", "done"}]
    /\ buffer' \in [Watcher -> 0..Capacity]
    /\ \A w \in Watcher : /\ stage'[w] # "on" => buffer'[w] = 0
                          /\ stage'[w] = "starting" => stage[w] = "starting"
    /\ Subscribers' = Subscribers \ ws
    /\ watchCut' = (watching # "none" /\ (watchCut \/ Subscribers \subseteq ws))

LEMMA FinishLeaves ==
    ASSUME SyncInv, NEW ws \in SUBSET Watcher, Finish(ws)
    PROVE  Left(ws)
<1>1. stage' \in [Watcher -> {"new", "starting", "on", "done"}]
  BY DEF SyncInv, SyncTypes, Finish
<1>2. buffer' \in [Watcher -> 0..Capacity]
  BY CapacityAssumption DEF SyncInv, SyncTypes, Finish
<1>3. Subscribers' = Subscribers \ ws
  BY DEF Finish, Subscribers
<1> QED
  BY <1>1, <1>2, <1>3 DEF SyncInv, SyncWatchers, Finish, Left

LEMMA PublishLeaves ==
    ASSUME SyncInv, NEW ws \in SUBSET Watcher, Publish(ws)
    PROVE  Left(ws \cup Full)
<1>1. stage' \in [Watcher -> {"new", "starting", "on", "done"}]
  BY DEF SyncInv, SyncTypes, Publish
<1>2. buffer' \in [Watcher -> 0..Capacity]
  <2> SUFFICES ASSUME NEW w \in Watcher PROVE buffer'[w] \in 0..Capacity
    BY DEF Publish
  <2>1. /\ buffer[w] \in 0..Capacity
        /\ (stage[w] = "on" /\ w \notin Full => buffer[w] # Capacity)
    BY DEF SyncInv, SyncTypes, Full, Subscribers
  <2> QED
    BY <2>1, CapacityAssumption DEF Publish
<1>3. Subscribers' = Subscribers \ (ws \cup Full)
  BY DEF Publish, Subscribers
<1>4. ASSUME NEW w \in Watcher
      PROVE  /\ stage'[w] # "on" => buffer'[w] = 0
             /\ stage'[w] = "starting" => stage[w] = "starting"
  BY DEF SyncInv, SyncTypes, SyncWatchers, Publish
<1> QED
  BY <1>1, <1>2, <1>3, <1>4 DEF Publish, Left

\* A loop begins when it is not there or has ended; it joins a run or owns a new one.
LEMMA LoopBegins ==
    ASSUME SyncInv, BeginWatching, watching \in {"none", "delay", "ending"}
    PROVE  /\ watchCut' = FALSE /\ watching' \in {"join", "own"} /\ running' \in SyncRuns
           /\ (watching' = "own" <=> running'.owner = "watch")
           /\ running'.owner # "none"
           /\ (running' = running \/ (running.owner = "none" /\ ~running'.cut))
           /\ running.owner = "none" => running'.owner = "watch"
<1>1. running \in SyncRuns /\ (watching = "own" <=> running.owner = "watch")
      /\ (running.owner = "none" => running = NotRunning)
  BY DEF SyncInv, SyncTypes, SyncLoops, SyncUsers
<1>2. /\ RunOf("watch") \in SyncRuns /\ RunOf("watch").owner = "watch"
      /\ ~RunOf("watch").cut
      /\ NotRunning.owner = "none"
  BY DEF RunOf, SyncRuns, NotRunning
<1> QED
  BY <1>1, <1>2 DEF BeginWatching, HasRun

-----------------------------------------------------------------------------
(* The actions *)

\* A subscription.
LEMMA SubscribeMoves ==
    ASSUME SyncInv, NEW w \in Watcher, Subscribe(w)
    PROVE  SyncInv'
<1>1. closing = "open"
  BY DEF SyncInv, SyncEnding, Subscribe, User
<1>2. /\ stage' \in [Watcher -> {"new", "starting", "on", "done"}]
      /\ buffer' \in [Watcher -> 0..Capacity]
      /\ SyncWatchers'
  BY CapacityAssumption DEF SyncInv, SyncTypes, SyncWatchers, Subscribe
<1>3. w \in Subscribers'
  BY DEF SyncInv, SyncTypes, Subscribers, Subscribe
<1>4. CASE watching = "none"
  <2>1. /\ watchCut' = FALSE /\ watching' \in {"join", "own"} /\ running' \in SyncRuns
        /\ (watching' = "own" <=> running'.owner = "watch")
        /\ running'.owner # "none"
        /\ (running' = running \/ (running.owner = "none" /\ ~running'.cut))
    BY <1>4, LoopBegins DEF Subscribe
  <2>2. SyncTypes'
    BY <1>2, <2>1 DEF SyncInv, SyncTypes, Subscribe
  <2>3. SyncLoops'
    BY <1>3, <2>1 DEF SyncLoops
  <2>4. SyncUsers' /\ SyncEnding'
    BY <1>1, <2>1 DEF SyncInv, SyncUsers, SyncEnding, Subscribe
  <2> QED
    BY <1>2, <2>2, <2>3, <2>4 DEF SyncInv
<1>5. CASE watching # "none"
  <2>1. UNCHANGED <<running, watching, watchCut, reading, aborted, submission, closing>>
    BY <1>5 DEF Subscribe
  <2>2. SyncTypes'
    BY <1>2, <2>1 DEF SyncInv, SyncTypes
  <2>3. SyncLoops'
    BY <1>3, <1>5, <2>1 DEF SyncInv, SyncLoops
  <2>4. SyncUsers' /\ SyncEnding'
    BY <1>1, <2>1 DEF SyncInv, SyncUsers, SyncEnding
  <2> QED
    BY <1>2, <2>2, <2>3, <2>4 DEF SyncInv
<1> QED
  BY <1>4, <1>5

\* Watchers that end, for whatever reason, while nothing else happens.
LEMMA LeavingMoves ==
    ASSUME SyncInv, NEW ws \in SUBSET Watcher, Left(ws),
           NEW w \in Watcher, aborted' \in {aborted, aborted \cup {w}},
           UNCHANGED <<reading, running, watching, submission, closing>>
    PROVE  SyncInv'
<1>1. SyncTypes'
  BY DEF SyncInv, SyncTypes, Left, User
<1>2. SyncWatchers'
  BY DEF SyncInv, SyncWatchers, Left
<1>3. SyncLoops'
  BY DEF SyncInv, SyncLoops, Left
<1>4. SyncUsers'
  BY WatcherAssumption DEF SyncInv, SyncUsers
<1>5. SyncEnding'
  BY DEF SyncInv, SyncTypes, SyncEnding, Left, User
<1> QED
  BY <1>1, <1>2, <1>3, <1>4, <1>5 DEF SyncInv

\* The iterators.
LEMMA WatcherMoves ==
    ASSUME SyncInv, NEW w \in Watcher,
           Read(w) \/ Local(w) \/ Return(w)
           \/ AbortWatcher(w) \/ WatchAgain(w)
    PROVE  SyncInv'
<1>1. CASE Read(w)
  <2>1. SyncTypes' /\ SyncWatchers'
    BY <1>1 DEF SyncInv, SyncTypes, SyncWatchers, Read
  <2>2. Subscribers' = Subscribers
    BY <1>1 DEF SyncInv, SyncTypes, Subscribers, Read
  <2>3. SyncLoops' /\ SyncUsers' /\ SyncEnding'
    BY <1>1, <2>2 DEF SyncInv, SyncLoops, SyncUsers, SyncEnding, Read
  <2> QED
    BY <2>1, <2>3 DEF SyncInv
<1>2. CASE Subscribe(w)
  BY <1>2, SubscribeMoves
<1>3. CASE NotSubscribed(w) \/ Return(w)
  <2>1. Finish({w}) /\ UNCHANGED <<reading, aborted, running, watching, submission, closing>>
    BY <1>3 DEF NotSubscribed, Return
  <2>2. Left({w})
    BY <2>1, FinishLeaves
  <2> QED
    BY <2>1, <2>2, LeavingMoves
<1>4. CASE Deliver(w)
  <2>1. SyncTypes'
    BY <1>4, CapacityAssumption DEF SyncInv, SyncTypes, Deliver
  <2>2. stage[w] # "starting"
    BY <1>4 DEF SyncInv, SyncTypes, SyncWatchers, Deliver
  <2>3. SyncWatchers'
    BY <1>4, <2>2 DEF SyncInv, SyncTypes, SyncWatchers, Deliver
  <2>4. SyncLoops' /\ SyncUsers' /\ SyncEnding'
    BY <1>4 DEF SyncInv, SyncLoops, SyncUsers, SyncEnding, Subscribers, Deliver
  <2> QED
    BY <2>1, <2>3, <2>4 DEF SyncInv
<1>5. CASE AbortWatcher(w)
  <2>1. CASE stage[w] = "on"
    <3>1. Left({w})
      BY <1>5, <2>1, FinishLeaves DEF AbortWatcher
    <3> QED
      BY <1>5, <3>1, LeavingMoves DEF AbortWatcher
  <2>2. CASE stage[w] # "on"
    <3>1. SyncTypes'
      BY <1>5, <2>2 DEF SyncInv, SyncTypes, AbortWatcher, User
    <3>2. SyncWatchers' /\ SyncLoops' /\ SyncUsers' /\ SyncEnding'
      BY <1>5, <2>2, WatcherAssumption
         DEF SyncInv, SyncWatchers, SyncLoops, SyncUsers, SyncEnding,
             Subscribers, AbortWatcher, User
    <3> QED
      BY <3>1, <3>2 DEF SyncInv
  <2> QED
    BY <2>1, <2>2
<1>6. CASE WatchAgain(w)
  <2>1. SyncTypes' /\ SyncWatchers'
    BY <1>6 DEF SyncInv, SyncTypes, SyncWatchers, WatchAgain
  <2>2. Subscribers' = Subscribers
    BY <1>6 DEF SyncInv, SyncTypes, Subscribers, WatchAgain
  <2>3. SyncLoops' /\ SyncUsers' /\ SyncEnding'
    BY <1>6, <2>2 DEF SyncInv, SyncLoops, SyncUsers, SyncEnding, WatchAgain
  <2> QED
    BY <2>1, <2>3 DEF SyncInv
<1> QED
  BY <1>1, <1>2, <1>3, <1>4, <1>5, <1>6 DEF Local

\* Runs that callers and submissions begin and abort.
LEMMA UserMoves ==
    ASSUME SyncInv,
           Sync \/ Refresh \/ AbortCaller \/ AbortSubmission
    PROVE  SyncInv'
<1>1. /\ RunOf("caller") \in SyncRuns /\ RunOf("caller").owner = "caller"
      /\ RunOf("submission") \in SyncRuns /\ RunOf("submission").owner = "submission"
      /\ NotRunning.owner = "none" /\ (HasRun <=> running.owner # "none")
  BY DEF RunOf, SyncRuns, NotRunning, HasRun, SyncInv, SyncUsers
<1>2. CASE Sync
  <2>1. SyncTypes'
    BY <1>1, <1>2 DEF SyncInv, SyncTypes, Sync
  <2>2. SyncWatchers' /\ SyncLoops' /\ SyncUsers' /\ SyncEnding'
    BY <1>1, <1>2 DEF SyncInv, SyncTypes, SyncWatchers, SyncLoops, SyncUsers, SyncEnding,
                      Subscribers, Sync
  <2> QED
    BY <2>1, <2>2 DEF SyncInv
<1>3. CASE Refresh
  <2>1. SyncTypes'
    BY <1>1, <1>3 DEF SyncInv, SyncTypes, Refresh
  <2>2. SyncWatchers' /\ SyncLoops' /\ SyncUsers' /\ SyncEnding'
    BY <1>1, <1>3 DEF SyncInv, SyncTypes, SyncWatchers, SyncLoops, SyncUsers, SyncEnding,
                      Subscribers, Refresh
  <2> QED
    BY <2>1, <2>2 DEF SyncInv
<1>4. CASE AbortCaller \/ AbortSubmission
  <2>1. PICK cut \in BOOLEAN : running' = [running EXCEPT !.cut = cut]
    <3>1. running.cut \in BOOLEAN
      BY DEF SyncInv, SyncTypes, SyncRuns
    <3> QED
      BY <1>4, <3>1 DEF AbortCaller, AbortSubmission
  <2>2. running' \in SyncRuns /\ running'.owner = running.owner /\ running.owner # "none"
    BY <1>4, <2>1 DEF SyncInv, SyncTypes, SyncRuns, SyncUsers, AbortCaller,
                      AbortSubmission
  <2>3. SyncTypes'
    BY <1>4, <2>2 DEF SyncInv, SyncTypes, AbortCaller, AbortSubmission, User
  <2>4. SyncWatchers' /\ SyncLoops'
    BY <1>4, <2>2
       DEF SyncInv, SyncWatchers, SyncLoops, Subscribers, AbortCaller,
           AbortSubmission
  <2>5. SyncUsers' /\ SyncEnding'
    BY <1>4, <2>2, <2>3
       DEF SyncInv, SyncTypes, SyncUsers, SyncEnding, Subscribers, AbortCaller,
           AbortSubmission, User
  <2> QED
    BY <2>3, <2>4, <2>5 DEF SyncInv
<1> QED
  BY <1>2, <1>3, <1>4

\* A run begins and is answered.
LEMMA RunMoves ==
    ASSUME SyncInv,
           RunBegins \/ RunWorks \/ RunFails \/ RunStops
    PROVE  SyncInv'
<1>1. running.owner # "none"
  BY DEF SyncInv, SyncUsers, NotRunning, RunBegins, RunWorks, RunFails,
         RunStops
<1>2. CASE RunBegins
  <2>1. running' \in SyncRuns /\ running'.owner = running.owner /\ running'.cut = running.cut
    BY <1>2 DEF RunBegins, SyncInv, SyncTypes, SyncRuns
  <2>2. Left({} \cup Full)
    BY <1>2, PublishLeaves DEF RunBegins
  <2>3. SyncTypes'
    BY <1>2, <2>1, <2>2 DEF SyncInv, SyncTypes, RunBegins, Left
  <2>4. SyncWatchers' /\ SyncLoops'
    BY <1>2, <2>1, <2>2 DEF SyncInv, SyncWatchers, SyncLoops, RunBegins, Left
  <2>5. SyncUsers' /\ SyncEnding'
    BY <1>1, <1>2, <2>1, <2>2 DEF SyncInv, SyncUsers, SyncEnding, RunBegins, Left
  <2> QED
    BY <2>3, <2>4, <2>5 DEF SyncInv
<1>3. CASE RunWorks \/ RunFails \/ RunStops
  <2>1. PICK outcome \in {"reached", "transient", "terminal", "stopped"} : Answered(outcome)
    BY <1>3 DEF RunWorks, RunFails, RunStops
  <2>2. running' \in SyncRuns /\ running'.owner = running.owner /\ running'.cut = running.cut
    BY <2>1 DEF Answered, SyncInv, SyncTypes, SyncRuns
  <2>3. SyncTypes'
    BY <2>1, <2>2 DEF SyncInv, SyncTypes, Answered
  <2>4. SyncWatchers' /\ SyncLoops' /\ SyncUsers' /\ SyncEnding'
    BY <1>1, <2>1, <2>2 DEF SyncInv, SyncWatchers, SyncLoops, SyncUsers, SyncEnding,
                            Subscribers, Answered
  <2> QED
    BY <2>3, <2>4 DEF SyncInv
<1> QED
  BY <1>2, <1>3

\* It settles, and all who wait for it go on.
LEMMA RunEndsMoves ==
    ASSUME SyncInv, SyncEnds
    PROVE  SyncInv'
<1>1. PICK ws \in SUBSET Watcher : Left(ws)
  <2>1. Full \subseteq Watcher /\ Subscribers \subseteq Watcher
    BY DEF Full, Subscribers
  <2>2. PICK ended \in SUBSET Watcher : Publish(ended) \/ Finish(ended)
    BY <2>1 DEF SyncEnds
  <2> QED
    BY <2>1, <2>2, FinishLeaves, PublishLeaves
<1>2. running' = NotRunning /\ NotRunning \in SyncRuns /\ NotRunning.owner = "none"
      /\ submission' = "idle"
      /\ UNCHANGED <<reading, aborted>>
  BY DEF SyncEnds, NotRunning, SyncRuns
<1>3. watching' = IF watching \in {"join", "own"}
                    THEN IF watchCut' THEN "ending" ELSE "delay" ELSE watching
  BY DEF SyncEnds
<1>4. closing' = IF closing = "run" THEN IF watching = "none" THEN "drain" ELSE "watch"
                                    ELSE closing
  BY DEF SyncEnds
<1>5. SyncTypes'
  BY <1>1, <1>2, <1>3, <1>4 DEF SyncInv, SyncTypes, Left
<1>6. SyncWatchers' /\ SyncLoops'
  BY <1>1, <1>2, <1>3 DEF SyncInv, SyncTypes, SyncWatchers, SyncLoops, Left
<1>7. SyncUsers' /\ SyncEnding'
  BY <1>1, <1>2, <1>3, <1>4 DEF SyncInv, SyncTypes, SyncLoops, SyncUsers, SyncEnding, Left
<1> QED
  BY <1>5, <1>6, <1>7 DEF SyncInv

\* The background loop.
LEMMA LoopMoves ==
    ASSUME SyncInv, Loop
    PROVE  SyncInv'
<1>1. CASE Poll \/ (WatchEnds /\ Subscribers # {})
  <2>1. /\ watchCut' = FALSE /\ watching' \in {"join", "own"} /\ running' \in SyncRuns
        /\ (watching' = "own" <=> running'.owner = "watch")
        /\ running'.owner # "none"
        /\ (running' = running \/ (running.owner = "none" /\ ~running'.cut))
    BY <1>1, LoopBegins DEF Poll, WatchEnds
  <2>2. Subscribers # {}
    BY <1>1 DEF SyncInv, SyncLoops, Poll
  <2>3. closing = "open" /\ UNCHANGED <<stage, buffer, reading, aborted, submission, closing>>
    BY <1>1, <2>2 DEF SyncInv, SyncEnding, Poll, WatchEnds
  <2>4. SyncTypes' /\ SyncWatchers'
    BY <2>1, <2>3 DEF SyncInv, SyncTypes, SyncWatchers
  <2>5. SyncLoops' /\ SyncUsers' /\ SyncEnding'
    BY <2>1, <2>2, <2>3 DEF SyncInv, SyncLoops, SyncUsers, SyncEnding, Subscribers
  <2> QED
    BY <2>4, <2>5 DEF SyncInv
<1>2. CASE Leave
  <2>1. SyncTypes' /\ SyncWatchers'
    BY <1>2 DEF SyncInv, SyncTypes, SyncWatchers, Leave
  <2>2. SyncLoops' /\ SyncUsers' /\ SyncEnding'
    BY <1>2 DEF SyncInv, SyncTypes, SyncLoops, SyncUsers, SyncEnding, Subscribers, Leave
  <2> QED
    BY <2>1, <2>2 DEF SyncInv
<1>3. CASE WatchEnds /\ Subscribers = {}
  <2>1. /\ watching = "ending" /\ watching' = "none" /\ watchCut' = FALSE
        /\ UNCHANGED <<running, stage, buffer, reading, aborted, submission>>
        /\ closing' = IF closing = "watch" THEN "drain" ELSE closing
    BY <1>3 DEF WatchEnds
  <2>2. SyncTypes' /\ SyncWatchers'
    BY <2>1 DEF SyncInv, SyncTypes, SyncWatchers
  <2>3. SyncLoops' /\ SyncUsers' /\ SyncEnding'
    BY <1>3, <2>1 DEF SyncInv, SyncLoops, SyncUsers, SyncEnding, Subscribers
  <2> QED
    BY <2>2, <2>3 DEF SyncInv
<1> QED
  BY <1>1, <1>2, <1>3 DEF Loop

\* close() begins and resolves.
LEMMA CloseMoves ==
    ASSUME SyncInv, Close \/ Closed
    PROVE  SyncInv'
<1>1. CASE Close
  <2>1. Left(Subscribers) /\ Subscribers' = {}
    <3>1. Subscribers \subseteq Watcher
      BY DEF Subscribers
    <3> QED
      BY <1>1, <3>1, FinishLeaves DEF Close, Left
  <2>2. running' \in SyncRuns /\ running'.owner = running.owner
        /\ (running = NotRunning => running' = running)
        /\ (HasRun <=> running.owner # "none")
    <3>1. running \in SyncRuns /\ (HasRun <=> running.owner # "none")
          /\ running' = [running EXCEPT !.cut = HasRun]
      BY <1>1 DEF Close, SyncInv, SyncTypes, SyncUsers, HasRun, NotRunning
    <3>2. HasRun \in BOOLEAN /\ (running = NotRunning => HasRun = NotRunning.cut)
      BY DEF HasRun, NotRunning
    <3> QED
      BY <3>1, <3>2 DEF SyncRuns
  <2>3. closing' \in {"run", "watch", "drain"} /\ (closing' # "run" => ~HasRun)
        /\ (closing' = "drain" => watching = "none")
    BY <1>1 DEF Close
  <2>4. aborted' = User /\ submission' = "idle" /\ UNCHANGED <<reading, watching>>
    BY <1>1 DEF Close
  <2>5. SyncTypes' /\ SyncWatchers'
    BY <2>1, <2>2, <2>3, <2>4 DEF SyncInv, SyncTypes, SyncWatchers, Left
  <2>6. SyncLoops' /\ SyncUsers' /\ SyncEnding'
    BY <2>1, <2>2, <2>3, <2>4 DEF SyncInv, SyncTypes, SyncLoops, SyncUsers, SyncEnding, Left
  <2> QED
    BY <2>5, <2>6 DEF SyncInv
<1>2. CASE Closed
  <2>1. SyncTypes' /\ SyncWatchers'
    BY <1>2 DEF SyncInv, SyncTypes, SyncWatchers, Closed
  <2>2. SyncLoops' /\ SyncUsers' /\ SyncEnding'
    BY <1>2 DEF SyncInv, SyncLoops, SyncUsers, SyncEnding, Subscribers, Closed
  <2> QED
    BY <2>1, <2>2 DEF SyncInv
<1> QED
  BY <1>1, <1>2

-----------------------------------------------------------------------------
(* The theorems *)

LEMMA SyncInitOK == SyncInit => SyncInv
<1> SUFFICES ASSUME SyncInit PROVE SyncInv
  OBVIOUS
<1>1. SyncTypes /\ SyncWatchers
  <2>1. NotRunning \in SyncRuns
    BY DEF SyncRuns, NotRunning
  <2>2. 0 \in 0..Capacity
    BY CapacityAssumption
  <2> QED
    BY <2>1, <2>2 DEF SyncInit, SyncTypes, SyncWatchers
<1>2. SyncLoops /\ SyncUsers /\ SyncEnding
  BY DEF SyncInit, SyncLoops, SyncUsers, SyncEnding, Subscribers, NotRunning
<1> QED
  BY <1>1, <1>2 DEF SyncInv

LEMMA SyncStepOK == SyncInv /\ [SyncNext]_syncVars => SyncInv'
<1> SUFFICES ASSUME SyncInv, [SyncNext]_syncVars PROVE SyncInv'
  OBVIOUS
<1>1. CASE UNCHANGED syncVars
  BY <1>1 DEF syncVars, SyncInv, SyncTypes, SyncWatchers, SyncLoops, SyncUsers, SyncEnding,
              Subscribers
<1>2. CASE Rest
  BY <1>1, <1>2 DEF Rest
<1> QED
  BY <1>1, <1>2, WatcherMoves, UserMoves, RunMoves, RunEndsMoves, LoopMoves, CloseMoves
     DEF SyncNext

LEMMA SyncInvariance == SyncSpec => []SyncInv
BY SyncInitOK, SyncStepOK, PTL DEF SyncSpec

\* A subscriber of watchSync() has a loop that serves it and never buffers beyond
\* maxBufferedUpdates; when close() of the client has resolved there is no run, no loop
\* and no subscriber, and none can come back.
THEOREM WatchersAreServed == SyncSpec => []WatchersServed
<1>1. ASSUME SyncInv PROVE WatchersServed
  <2>1. \A w \in Watcher : buffer[w] \in 0..Capacity
    BY <1>1 DEF SyncInv, SyncTypes
  <2>2. Subscribers # {} => watching # "none"
    BY <1>1 DEF SyncInv, SyncLoops
  <2>3. ASSUME closing = "closed"
        PROVE  ~HasRun /\ watching = "none" /\ submission = "idle"
    BY <1>1, <2>3 DEF SyncInv, SyncUsers, SyncEnding, HasRun
  <2>4. ASSUME closing = "closed", NEW w \in Watcher
        PROVE  stage[w] \in {"new", "done"}
    BY <1>1, <2>4 DEF SyncInv, SyncTypes, SyncWatchers, SyncEnding, Subscribers
  <2> QED
    BY <2>1, <2>2, <2>3, <2>4 DEF WatchersServed
<1> QED
  BY <1>1, SyncInvariance, PTL

\* Who may cut a run: its own user, the last subscriber for a run of the loop, and close().
RightfulCut ==
    \/ closing' # "open"
    \/ running.owner \in aborted' \ aborted
    \/ running.owner = "watch" /\ Subscribers' = {}

\* A run that is not cut either stays so, or is cut by who may.
LEMMA LeavingCuts ==
    ASSUME SyncInv, ~IsCut, NEW ws \in SUBSET Watcher, Left(ws),
           running'.owner = running.owner, running'.cut = running.cut, IsCut'
    PROVE  RightfulCut
BY DEF IsCut, Left, RightfulCut

LEMMA WatchersCut ==
    ASSUME SyncInv, ~IsCut, IsCut', NEW w \in Watcher,
           Read(w) \/ Local(w) \/ Return(w)
           \/ AbortWatcher(w) \/ WatchAgain(w)
    PROVE  RightfulCut
<1>1. CASE UNCHANGED <<running, watchCut>>
  BY <1>1 DEF IsCut
<1>2. CASE BeginWatching /\ watching = "none"
  BY <1>2, LoopBegins DEF IsCut
<1>3. CASE Finish({w}) /\ UNCHANGED running
  BY <1>3, FinishLeaves, LeavingCuts
<1> QED
  BY <1>1, <1>2, <1>3
     DEF Read, Local, Subscribe, NotSubscribed, Deliver, Return,
         AbortWatcher, WatchAgain

LEMMA RunsCut ==
    ASSUME SyncInv, ~IsCut, IsCut',
           RunBegins \/ RunWorks \/ RunFails \/ RunStops \/ SyncEnds
    PROVE  RightfulCut
<1>1. running \in SyncRuns
  BY DEF SyncInv, SyncTypes
<1>2. CASE RunBegins
  <2>1. running'.owner = running.owner /\ running'.cut = running.cut
    BY <1>1, <1>2 DEF RunBegins, SyncRuns
  <2> QED
    <3>1. {} \cup Full \in SUBSET Watcher /\ {} \in SUBSET Watcher
      BY DEF Full, Subscribers
    <3>2. Left({} \cup Full)
      BY <1>2, <3>1, PublishLeaves DEF RunBegins
    <3> QED
      BY <2>1, <3>1, <3>2, LeavingCuts
<1>3. CASE RunWorks \/ RunFails \/ RunStops
  <2>1. running'.owner = running.owner /\ running'.cut = running.cut /\ watchCut' = watchCut
    BY <1>1, <1>3 DEF RunWorks, RunFails, RunStops, Answered, SyncRuns
  <2> QED
    BY <2>1 DEF IsCut
<1>4. CASE SyncEnds
  BY <1>4 DEF SyncEnds, IsCut, NotRunning
<1> QED
  BY <1>2, <1>3, <1>4

LEMMA UsersCut ==
    ASSUME SyncInv, ~IsCut, IsCut',
           Sync \/ Refresh \/ AbortCaller \/ AbortSubmission
    PROVE  RightfulCut
<1>1. running \in SyncRuns
  BY DEF SyncInv, SyncTypes
<1>2. CASE Sync \/ Refresh
  BY <1>2 DEF Sync, Refresh, IsCut, RunOf
<1>3. CASE AbortCaller
  BY <1>3 DEF AbortCaller, RightfulCut
<1>4. CASE AbortSubmission
  <2>1. running'.owner = running.owner /\ running'.cut = (running.cut \/ submission = "own")
        /\ watchCut' = watchCut /\ "submission" \in aborted' \ aborted
    BY <1>1, <1>4 DEF AbortSubmission, SyncInv, SyncUsers, SyncRuns
  <2>2. CASE submission = "own"
    BY <2>1, <2>2 DEF SyncInv, SyncUsers, RightfulCut
  <2>3. CASE submission # "own"
    BY <2>1, <2>3 DEF IsCut
  <2> QED
    BY <2>2, <2>3
<1> QED
  BY <1>2, <1>3, <1>4

LEMMA LoopCuts ==
    ASSUME SyncInv, ~IsCut, IsCut', Loop
    PROVE  RightfulCut
<1>1. CASE BeginWatching /\ watching \in {"delay", "ending"}
  BY <1>1, LoopBegins DEF IsCut
<1>2. CASE UNCHANGED running /\ (watchCut' = watchCut \/ watchCut' = FALSE)
  BY <1>2 DEF IsCut
<1> QED
  BY <1>1, <1>2 DEF Loop, Poll, Leave, WatchEnds

\* Joining a run of sync() grants no right to stop it: the signal of a run is aborted only
\* by the abort of the user who started it, by the last subscriber of the loop that did, or
\* by close() of the client.
THEOREM OnlyTheOwnerCuts == SyncSpec => OnlyOwnerCuts
<1>1. ASSUME SyncInv, [SyncNext]_syncVars
      PROVE  [~IsCut /\ IsCut' => RightfulCut]_syncVars
  <2> SUFFICES ASSUME SyncNext, ~IsCut, IsCut' PROVE RightfulCut
    BY <1>1
  <2>1. CASE Close
    BY <2>1 DEF Close, RightfulCut
  <2>2. CASE Closed \/ Rest
    BY <2>2 DEF Closed, Rest, syncVars, IsCut
  <2> QED
    BY <1>1, <2>1, <2>2, WatchersCut, RunsCut, UsersCut, LoopCuts DEF SyncNext
<1>2. ASSUME SyncInv, [SyncNext]_syncVars
      PROVE  [~IsCut /\ IsCut' =>
                \/ closing' # "open"
                \/ running.owner \in aborted' \ aborted
                \/ running.owner = "watch" /\ Subscribers' = {}]_syncVars
  BY <1>1, <1>2 DEF RightfulCut
<1> QED
  BY <1>2, SyncInvariance, PTL DEF SyncSpec, OnlyOwnerCuts
=============================================================================
