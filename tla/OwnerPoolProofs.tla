---------------------------- MODULE OwnerPoolProofs ---------------------------
(***************************************************************************)
(* Proofs about OwnerPool: for any number of wallets, signers and owners,  *)
(* whatever fails, aborts or is abandoned, the leases are counted exactly, *)
(* an owner that was aborted is handed out to nobody, and no worker        *)
(* outlives the users of its owner.                                        *)
(*                                                                         *)
(* The argument relates three parties.  An owner's record is consistent    *)
(* alone (OwnerOK): what stops it also keeps new workers from being        *)
(* spawned.  The stage of a call or signer tells whether it has a lease    *)
(* (WalletOK, SignerOK), so the counters are cardinalities (Counted).      *)
(* And who gave back the last lease stays until the owner is torn down     *)
(* (Awaited).                                                              *)
(***************************************************************************)
EXTENDS OwnerPool, FiniteSetTheorems, TLAPS

OwnerSet ==
    [refs : Nat, wallets : Nat, orphans : Nat, aborted : BOOLEAN,
     ready : {"unused", "pending", "ok", "failed"}, attempt : {"threaded", "baseline"},
     phase : {"assets", "executing", "pool", "ready", "admitted"}, stopped : BOOLEAN,
     torn : {"no", "done", "failed"}, live : SUBSET {"threaded", "baseline", "compute"},
     loaded : Nat]
WalletSet ==
    [call : {"none", "waiting", "opening", "open", "failing", "closing"},
     of : Owner \cup {None},
     request : {"none", "posted", "rejected", "session", "closing", "crashed"},
     lease : BOOLEAN, last : BOOLEAN]
SignerSet ==
    [state : {"none", "held", "releasing", "invalid", "leaving"}, of : Owner \cup {None}]

Types ==
    /\ current \in Owner \cup {None}
    /\ owner \in [Owner -> OwnerSet]
    /\ wallet \in [Wallet -> WalletSet]
    /\ signer \in [Signer -> SignerSet]

\* A record of an owner: the end of its last lease aborts it, an abort stops it, and once
\* stopped it spawns nothing more, until a fallback that finds everything terminated.
OwnerOK(r) ==
    /\ r.ready = "unused" => r = NewOwner
    /\ r.aborted <=> r.ready # "unused" /\ r.refs = 0
    /\ r.aborted \/ r.torn # "no" => r.stopped
    /\ r.torn = "done" => r.live = {}
    /\ r.live \subseteq IF r.attempt = "baseline" THEN {"baseline"} ELSE {"threaded", "compute"}

\* What a call may be waiting for while it has a lease.
Requests(call) ==
    CASE call = "waiting" -> {"none"}
      [] call = "opening" -> {"posted", "rejected"}
      [] call = "open" -> {"session", "crashed"}
      [] call \in {"failing", "closing"} -> {"closing", "crashed"}
      [] OTHER -> {}

WalletOK(r) ==
    /\ r.call = "none" => r = NewWallet
    /\ r.call # "none" => r.of \in Owner /\ owner[r.of].ready # "unused"
    /\ IF r.lease THEN r.request \in Requests(r.call) /\ ~r.last
                  ELSE r.request = "none" /\ r.call \in {"none", "open", "failing", "closing"}

SignerOK(r) ==
    IF r.state = "none" THEN r = NewSigner
                        ELSE r.of \in Owner /\ owner[r.of].ready # "unused"

\* The leases of owner o, by what the users of the pool know.
WalletLeases(o) == {w \in Wallet : wallet[w].of = o /\ wallet[w].lease}
SignerLeases(o) ==
    {s \in Signer : signer[s].of = o /\ signer[s].state \in {"held", "releasing", "invalid"}}

Counted(o) ==
    /\ owner[o].refs = Cardinality(WalletLeases(o)) + Cardinality(SignerLeases(o))
    /\ owner[o].wallets = Cardinality(WalletLeases(o)) + owner[o].orphans
    /\ owner[o].wallets <= MaxWallets

\* The owner in the map.
CurrentOK ==
    current # None =>
        /\ owner[current].refs > 0
        /\ owner[current].phase = "admitted" => ~owner[current].stopped

\* Somebody awaits the end of an owner without leases, until there is nothing to await.
Awaited(o) ==
    owner[o].aborted /\ owner[o].torn = "no" =>
        \/ \E w \in Wallet : wallet[w].of = o /\ wallet[w].last
        \/ \E s \in Signer : signer[s].of = o /\ signer[s].state = "leaving"

IInv ==
    /\ Types
    /\ \A o \in Owner : OwnerOK(owner[o]) /\ Counted(o) /\ Awaited(o)
    /\ \A w \in Wallet : WalletOK(wallet[w])
    /\ \A s \in Signer : SignerOK(signer[s])
    /\ CurrentOK

-----------------------------------------------------------------------------
(* Moves that change no lease *)

LEMMA Constants == None \notin Owner /\ NewOwner \in OwnerSet /\ NewWallet \in WalletSet
                   /\ NewSigner \in SignerSet
BY ThreadedAssumption DEF None, Owner, NewOwner, OwnerSet, NewWallet, WalletSet,
                           NewSigner, SignerSet

\* The leases of an owner that are not touched stay counted.
LEMMA CountKept ==
    ASSUME IInv, Types', NEW p \in Owner,
           WalletLeases(p)' = WalletLeases(p), SignerLeases(p)' = SignerLeases(p),
           owner'[p].refs = owner[p].refs, owner'[p].wallets <= owner[p].wallets,
           owner'[p].wallets - owner'[p].orphans = owner[p].wallets - owner[p].orphans
    PROVE  Counted(p)'
<1>1. Cardinality(WalletLeases(p)) \in Nat
  BY UsersAssumption, FS_Subset, FS_CardinalityType DEF WalletLeases
<1>2. owner[p] \in OwnerSet /\ owner'[p] \in OwnerSet
  BY DEF IInv, Types
<1>3. Counted(p)
  BY DEF IInv
<1> QED
  BY <1>1, <1>2, <1>3, WalletsAssumption DEF Counted, OwnerSet

\* What a start, a teardown or the end of an abandoned opening does to an owner.
LEMMA OwnerMoves ==
    ASSUME IInv, NEW o \in Owner, NEW r \in OwnerSet,
           owner' = [owner EXCEPT ![o] = r], UNCHANGED <<wallet, signer>>,
           OwnerOK(r), r.ready # "unused", r.refs = owner[o].refs,
           owner[o].ready # "unused",
           r.wallets - r.orphans = owner[o].wallets - owner[o].orphans,
           r.wallets <= owner[o].wallets,
           r.aborted /\ r.torn = "no" => owner[o].torn = "no",
           current' \in {current, None},
           current' = o /\ r.phase = "admitted" => ~r.stopped
    PROVE  IInv'
<1>1. /\ owner' \in [Owner -> OwnerSet] /\ owner'[o] = r
      /\ \A p \in Owner : p # o => owner'[p] = owner[p]
  BY DEF IInv, Types
<1>2. Types'
  BY <1>1, Constants DEF IInv, Types
<1>3. ASSUME NEW p \in Owner PROVE OwnerOK(owner[p])'
  BY <1>1 DEF IInv, OwnerOK
<1>4. ASSUME NEW p \in Owner PROVE Counted(p)'
  <2>1. WalletLeases(p)' = WalletLeases(p) /\ SignerLeases(p)' = SignerLeases(p)
    BY DEF WalletLeases, SignerLeases
  <2>2. owner[p] \in OwnerSet
    BY DEF IInv, Types
  <2> QED
    BY <1>1, <1>2, <2>1, <2>2, CountKept DEF OwnerSet
<1>5. ASSUME NEW p \in Owner PROVE Awaited(p)'
  BY <1>1 DEF IInv, Awaited, OwnerOK
<1>6. ASSUME NEW w \in Wallet PROVE WalletOK(wallet[w])'
  BY <1>1 DEF IInv, WalletOK
<1>7. ASSUME NEW s \in Signer PROVE SignerOK(signer[s])'
  BY <1>1 DEF IInv, SignerOK
<1>8. CurrentOK'
  BY <1>1, <1>2 DEF IInv, CurrentOK, Types
<1> QED
  BY <1>2, <1>3, <1>4, <1>5, <1>6, <1>7, <1>8 DEF IInv

\* What a call or a session does between its lease and the end of it, and its return.
LEMMA WalletMoves ==
    ASSUME IInv, NEW w \in Wallet, NEW r \in WalletSet,
           wallet' = [wallet EXCEPT ![w] = r], UNCHANGED <<current, owner, signer>>,
           WalletOK(r), r.lease = wallet[w].lease, r.lease => r.of = wallet[w].of,
           wallet[w].last => (r.last /\ r.of = wallet[w].of) \/ owner[wallet[w].of].torn # "no"
    PROVE  IInv'
<1>1. wallet' \in [Wallet -> WalletSet] /\ wallet'[w] = r
      /\ \A v \in Wallet : v # w => wallet'[v] = wallet[v]
  BY DEF IInv, Types
<1>2. Types'
  BY <1>1 DEF IInv, Types
<1>3. ASSUME NEW p \in Owner PROVE OwnerOK(owner[p])' /\ Counted(p)' /\ Awaited(p)'
  <2>1. WalletLeases(p)' = WalletLeases(p) /\ SignerLeases(p)' = SignerLeases(p)
    BY <1>1 DEF WalletLeases, SignerLeases
  <2>2. owner[p] \in OwnerSet
    BY DEF IInv, Types
  <2>3. Counted(p)'
    BY <1>2, <2>1, <2>2, CountKept DEF OwnerSet
  <2>4. Awaited(p)'
    BY <1>1 DEF IInv, Awaited
  <2> QED
    BY <2>3, <2>4 DEF IInv, OwnerOK
<1>4. ASSUME NEW v \in Wallet PROVE WalletOK(wallet[v])'
  BY <1>1 DEF IInv, WalletOK
<1>5. (\A s \in Signer : SignerOK(signer[s])') /\ CurrentOK'
  BY DEF IInv, SignerOK, CurrentOK
<1> QED
  BY <1>2, <1>3, <1>4, <1>5 DEF IInv

\* The same for a signer.
LEMMA SignerMoves ==
    ASSUME IInv, NEW s \in Signer, NEW r \in SignerSet,
           signer' = [signer EXCEPT ![s] = r], UNCHANGED <<current, owner, wallet>>,
           SignerOK(r), signer[s].state = "leaving" => owner[signer[s].of].torn # "no",
           \/ r = NewSigner /\ signer[s].state = "leaving"
           \/ /\ r.of = signer[s].of
              /\ {r.state, signer[s].state} \subseteq {"held", "releasing", "invalid"}
    PROVE  IInv'
<1>1. signer' \in [Signer -> SignerSet] /\ signer'[s] = r
      /\ \A t \in Signer : t # s => signer'[t] = signer[t]
  BY DEF IInv, Types
<1>2. Types'
  BY <1>1 DEF IInv, Types
<1>3. ASSUME NEW p \in Owner PROVE OwnerOK(owner[p])' /\ Counted(p)' /\ Awaited(p)'
  <2>1. WalletLeases(p)' = WalletLeases(p) /\ SignerLeases(p)' = SignerLeases(p)
    BY <1>1 DEF WalletLeases, SignerLeases, NewSigner
  <2>2. owner[p] \in OwnerSet
    BY DEF IInv, Types
  <2>3. Counted(p)'
    BY <1>2, <2>1, <2>2, CountKept DEF OwnerSet
  <2>4. Awaited(p)'
    BY <1>1 DEF IInv, Awaited
  <2> QED
    BY <2>3, <2>4 DEF IInv, OwnerOK
<1>4. ASSUME NEW t \in Signer PROVE SignerOK(signer[t])'
  BY <1>1 DEF IInv, SignerOK
<1>5. (\A w \in Wallet : WalletOK(wallet[w])') /\ CurrentOK'
  BY DEF IInv, WalletOK, CurrentOK
<1> QED
  BY <1>2, <1>3, <1>4, <1>5 DEF IInv

-----------------------------------------------------------------------------
(* The stop of an owner *)

\* The wallets notice it, and keep what they hold.
LEMMA NotifiedKeeps ==
    ASSUME IInv, NEW o \in Owner
    PROVE  /\ Notified(o) \in [Wallet -> WalletSet]
           /\ \A w \in Wallet :
                 /\ WalletOK(Notified(o)[w])
                 /\ Notified(o)[w].call = wallet[w].call
                 /\ Notified(o)[w].of = wallet[w].of
                 /\ Notified(o)[w].lease = wallet[w].lease
                 /\ Notified(o)[w].last = wallet[w].last
<1>1. ASSUME NEW w \in Wallet
      PROVE  \E request \in {"none", "posted", "rejected", "session", "closing", "crashed"} :
               /\ Notified(o)[w] = [wallet[w] EXCEPT !.request = request]
               /\ \/ request = wallet[w].request
                  \/ wallet[w].request = "posted" /\ request = "rejected"
                  \/ wallet[w].request \in {"session", "closing"} /\ request = "crashed"
  BY DEF Notified, IInv, Types, WalletSet
<1>2. ASSUME NEW w \in Wallet
      PROVE  /\ Notified(o)[w] \in WalletSet
             /\ WalletOK(Notified(o)[w])
             /\ Notified(o)[w].call = wallet[w].call
             /\ Notified(o)[w].of = wallet[w].of
             /\ Notified(o)[w].lease = wallet[w].lease
             /\ Notified(o)[w].last = wallet[w].last
  <2>1. wallet[w] \in WalletSet /\ WalletOK(wallet[w])
    BY DEF IInv, Types
  <2>2. PICK request \in {"none", "posted", "rejected", "session", "closing", "crashed"} :
           /\ Notified(o)[w] = [wallet[w] EXCEPT !.request = request]
           /\ \/ request = wallet[w].request
              \/ wallet[w].request = "posted" /\ request = "rejected"
              \/ wallet[w].request \in {"session", "closing"} /\ request = "crashed"
    BY <1>1
  <2>3. /\ Notified(o)[w] \in WalletSet
        /\ Notified(o)[w].request = request
        /\ Notified(o)[w].call = wallet[w].call /\ Notified(o)[w].of = wallet[w].of
        /\ Notified(o)[w].lease = wallet[w].lease /\ Notified(o)[w].last = wallet[w].last
    BY <2>1, <2>2 DEF WalletSet
  <2>4. CASE request = wallet[w].request
    <3>1. Notified(o)[w] = wallet[w]
      BY <2>1, <2>2, <2>4 DEF WalletSet
    <3> QED
      BY <2>1, <2>3, <3>1
  <2>5. CASE wallet[w].request = "posted" /\ request = "rejected"
    <3>1. wallet[w].lease /\ wallet[w].call = "opening"
      BY <2>1, <2>5 DEF WalletOK, Requests, WalletSet
    <3> QED
      BY <2>1, <2>3, <2>5, <3>1 DEF WalletOK, Requests
  <2>6. CASE wallet[w].request \in {"session", "closing"} /\ request = "crashed"
    <3>1. wallet[w].lease /\ wallet[w].call \in {"open", "failing", "closing"}
      BY <2>1, <2>6 DEF WalletOK, Requests, WalletSet
    <3> QED
      BY <2>1, <2>3, <2>6, <3>1 DEF WalletOK, Requests
  <2> QED
    BY <2>2, <2>3, <2>4, <2>5, <2>6
<1> QED
  BY <1>2 DEF Notified

\* What signers do beside it.
SignersKeep ==
    /\ signer' \in [Signer -> SignerSet]
    /\ \A s \in Signer :
          \/ signer'[s] = signer[s]
          \/ /\ signer'[s].of = signer[s].of
             /\ {signer'[s].state, signer[s].state} \subseteq {"held", "releasing", "invalid"}

LEMMA StopMoves ==
    ASSUME IInv, NEW o \in Owner, owner[o].ready # "unused", Stop(o), SignersKeep
    PROVE  IInv'
<1>1. /\ owner' \in [Owner -> OwnerSet]
      /\ owner'[o] = Stopped(owner[o]) /\ Stopped(owner[o]) \in OwnerSet
      /\ \A p \in Owner : p # o => owner'[p] = owner[p]
  <2>1. owner \in [Owner -> OwnerSet] /\ owner' = [owner EXCEPT ![o] = Stopped(@)]
    BY DEF IInv, Types, Stop
  <2>2. Stopped(owner[o]) \in OwnerSet
    BY <2>1, ZenonT(30) DEF Stopped, OwnerSet
  <2> QED
    BY <2>1, <2>2
<1>2. Types'
  BY <1>1, NotifiedKeeps, Constants DEF IInv, Types, Stop, SignersKeep
<1>3. ASSUME NEW p \in Owner
      PROVE  /\ owner'[p].ready = owner[p].ready /\ owner'[p].refs = owner[p].refs
             /\ owner'[p].wallets = owner[p].wallets /\ owner'[p].orphans = owner[p].orphans
             /\ owner'[p].aborted = owner[p].aborted /\ owner'[p].torn = owner[p].torn
             /\ owner'[p].live = owner[p].live /\ owner'[p].attempt = owner[p].attempt
             /\ owner'[p].phase = owner[p].phase
             /\ owner'[p].stopped = (owner[p].stopped \/ p = o)
             /\ owner[p] \in OwnerSet
  BY <1>1 DEF IInv, Types, Stopped, OwnerSet
<1>4. ASSUME NEW p \in Owner PROVE OwnerOK(owner[p])' /\ Counted(p)' /\ Awaited(p)'
  <2>1. WalletLeases(p)' = WalletLeases(p)
    BY NotifiedKeeps DEF WalletLeases, Stop
  <2>2. SignerLeases(p)' = SignerLeases(p)
    BY DEF SignerLeases, SignersKeep
  <2>3. Counted(p)'
    BY <1>2, <1>3, <2>1, <2>2, CountKept DEF OwnerSet
  <2>4. Awaited(p)'
    BY <1>3, NotifiedKeeps DEF IInv, Awaited, Stop, SignersKeep
  <2>5. OwnerOK(owner[p])'
    <3>1. OwnerOK(owner[p])
      BY DEF IInv
    <3>2. CASE owner[p].ready = "unused"
      <4>1. p # o
        BY <3>2
      <4> QED
        BY <1>1, <3>1, <4>1
    <3>3. CASE owner[p].ready # "unused"
      BY <1>3, <3>1, <3>3 DEF OwnerOK
    <3> QED
      BY <3>2, <3>3
  <2> QED
    BY <2>3, <2>4, <2>5
<1>5. ASSUME NEW w \in Wallet PROVE WalletOK(wallet[w])'
  BY <1>3, NotifiedKeeps DEF WalletOK, Stop
<1>6. ASSUME NEW s \in Signer PROVE SignerOK(signer[s])'
  BY <1>3 DEF IInv, SignerOK, SignersKeep
<1>7. CurrentOK'
  BY <1>2, <1>3 DEF IInv, CurrentOK, Types, Stop
<1> QED
  BY <1>2, <1>4, <1>5, <1>6, <1>7 DEF IInv

-----------------------------------------------------------------------------
(* Leases that begin *)

LEMMA OneMore ==
    ASSUME NEW r \in OwnerSet
    PROVE  [r EXCEPT !.refs = @ + 1, !.wallets = @ + 1] \in OwnerSet
<1>1. ASSUME NEW n \in Nat, NEW x \in OwnerSet
      PROVE  [x EXCEPT !.refs = n] \in OwnerSet /\ [x EXCEPT !.wallets = n] \in OwnerSet
  BY DEF OwnerSet
<1>2. r.refs + 1 \in Nat /\ r.wallets + 1 \in Nat
  BY DEF OwnerSet
<1>3. [r EXCEPT !.refs = @ + 1].wallets = r.wallets
  BY DEF OwnerSet
<1> QED
  BY <1>1, <1>2, <1>3

\* A new or a shared owner gets one more wallet.
LEMMA LeaseMoves ==
    ASSUME IInv, NEW o \in Owner, NEW w \in Wallet, NEW r \in OwnerSet,
           wallet[w].call = "none", Leased(o, w, r), UNCHANGED signer,
           r.wallets < MaxWallets,
           \/ r = owner[o] /\ owner[o].ready # "unused" /\ current = o /\ current' = o
           \/ /\ owner[o].ready = "unused" /\ r = [NewOwner EXCEPT !.ready = "pending"]
              /\ current' = o
    PROVE  IInv'
<1>1. PICK q \in OwnerSet :
         /\ owner' = [owner EXCEPT ![o] = q] /\ q.refs = owner[o].refs + 1
         /\ q.wallets = owner[o].wallets + 1 /\ q.orphans = owner[o].orphans
         /\ q.ready # "unused" /\ q.ready = r.ready /\ q.aborted = r.aborted /\ q.torn = r.torn
         /\ q.stopped = r.stopped /\ q.live = r.live /\ q.attempt = r.attempt
         /\ q.phase = r.phase /\ owner[o] \in OwnerSet /\ owner[o].wallets < MaxWallets
  <2> DEFINE q == [r EXCEPT !.refs = @ + 1, !.wallets = @ + 1]
  <2>1. owner[o] \in OwnerSet /\ OwnerOK(owner[o])
    BY DEF IInv, Types
  <2>2. owner[o].ready = "unused" => owner[o] = NewOwner
    BY <2>1 DEF OwnerOK
  <2>3. r.ready # "unused" /\ r.refs = owner[o].refs /\ r.wallets = owner[o].wallets
        /\ r.orphans = owner[o].orphans
    BY <2>2 DEF NewOwner
  <2>4. q \in OwnerSet /\ q.refs = owner[o].refs + 1 /\ q.wallets = owner[o].wallets + 1
        /\ q.orphans = owner[o].orphans
    <3>1. q \in OwnerSet
      BY OneMore
    <3>2. q.refs = r.refs + 1
      BY DEF OwnerSet
    <3>3. q.wallets = r.wallets + 1
      BY DEF OwnerSet
    <3>4. q.orphans = r.orphans
      BY DEF OwnerSet
    <3> HIDE DEF q
    <3> QED
      BY <2>3, <3>1, <3>2, <3>3, <3>4
  <2>5. q.ready = r.ready /\ q.aborted = r.aborted /\ q.torn = r.torn
        /\ q.stopped = r.stopped /\ q.live = r.live /\ q.attempt = r.attempt
        /\ q.phase = r.phase
    BY DEF OwnerSet
  <2>6. owner' = [owner EXCEPT ![o] = q]
    BY DEF Leased
  <2> QED
    BY <2>1, <2>3, <2>4, <2>5, <2>6
<1>2. OwnerOK(q)
  <2>1. CASE r = owner[o] /\ owner[o].ready # "unused" /\ current = o
    <3>1. OwnerOK(owner[o]) /\ owner[o].refs > 0
      BY <2>1, Constants DEF IInv, CurrentOK
    <3>2. q.refs # 0
      BY <3>1, <1>1 DEF OwnerSet
    <3> QED
      BY <2>1, <3>1, <3>2, <1>1 DEF OwnerOK, OwnerSet
  <2>2. CASE r = [NewOwner EXCEPT !.ready = "pending"]
    BY <2>2, <1>1, Constants DEF OwnerOK, NewOwner, OwnerSet, IInv
  <2> QED
    BY <2>1, <2>2
<1>3. PICK v \in WalletSet :
         /\ wallet' = [wallet EXCEPT ![w] = v] /\ v.of = o /\ v.lease /\ ~v.last
         /\ v.call = "waiting" /\ v.request = "none"
  <2> DEFINE v == [NewWallet EXCEPT !.call = "waiting", !.of = o, !.lease = TRUE]
  <2>1. /\ v \in WalletSet /\ v.of = o /\ v.lease /\ ~v.last
        /\ v.call = "waiting" /\ v.request = "none"
    BY Constants DEF WalletSet, NewWallet
  <2> QED
    BY <2>1 DEF Leased
<1>4. /\ owner' \in [Owner -> OwnerSet] /\ owner'[o] = q
      /\ \A p \in Owner : p # o => owner'[p] = owner[p]
  BY <1>1 DEF IInv, Types
<1>5. /\ wallet' \in [Wallet -> WalletSet] /\ wallet'[w] = v
      /\ \A x \in Wallet : x # w => wallet'[x] = wallet[x]
  BY <1>3 DEF IInv, Types
<1>6. Types'
  BY <1>4, <1>5 DEF IInv, Types
<1>7. wallet[w] = NewWallet
  BY DEF IInv, WalletOK
<1>8. ASSUME NEW p \in Owner PROVE OwnerOK(owner[p])'
  BY <1>2, <1>4 DEF IInv, OwnerOK
<1>9. ASSUME NEW p \in Owner PROVE Counted(p)'
  <2>1. SignerLeases(p)' = SignerLeases(p)
    BY DEF SignerLeases
  <2>2. CASE p # o
    <3>1. WalletLeases(p)' = WalletLeases(p)
      BY <2>2, <1>3, <1>5, <1>7, Constants DEF WalletLeases, NewWallet
    <3>2. owner[p] \in OwnerSet
      BY DEF IInv, Types
    <3> QED
      BY <2>1, <2>2, <3>1, <3>2, <1>4, <1>6, CountKept DEF OwnerSet
  <2>3. CASE p = o
    <3>1. WalletLeases(o)' = WalletLeases(o) \cup {w} /\ w \notin WalletLeases(o)
      BY <1>3, <1>5, <1>7 DEF WalletLeases, NewWallet
    <3>2. IsFiniteSet(WalletLeases(o)) /\ IsFiniteSet(SignerLeases(o))
      BY UsersAssumption, FS_Subset DEF WalletLeases, SignerLeases
    <3>3. Cardinality(WalletLeases(o)') = Cardinality(WalletLeases(o)) + 1
      BY <3>1, <3>2, FS_AddElement
    <3>4. Cardinality(WalletLeases(o)) \in Nat /\ Cardinality(SignerLeases(o)) \in Nat
      BY <3>2, FS_CardinalityType
    <3>5. Counted(o)
      BY DEF IInv
    <3> QED
      BY <1>1, <1>4, <2>1, <2>3, <3>3, <3>4, <3>5, WalletsAssumption DEF Counted, OwnerSet
  <2> QED
    BY <2>2, <2>3
<1>10. ASSUME NEW p \in Owner PROVE Awaited(p)'
  <2>1. p = o => ~q.aborted
    BY <1>1, <1>2, Constants DEF OwnerOK, IInv, Types, OwnerSet
  <2> QED
    BY <2>1, <1>4, <1>5, <1>7, Constants DEF IInv, Awaited, NewWallet
<1>11. ASSUME NEW x \in Wallet PROVE WalletOK(wallet[x])'
  <2>1. WalletOK(v)'
    BY <1>1, <1>3, <1>4 DEF WalletOK, Requests
  <2>2. WalletOK(wallet[x])
    BY DEF IInv
  <2> QED
    BY <2>1, <2>2, <1>1, <1>4, <1>5 DEF WalletOK
<1>12. ASSUME NEW s \in Signer PROVE SignerOK(signer[s])'
  BY <1>1, <1>4 DEF IInv, SignerOK
<1>13. CurrentOK'
  <2>1. q.refs > 0
    BY <1>1 DEF OwnerSet
  <2>2. q.phase = "admitted" => ~q.stopped
    BY <1>1, Constants DEF IInv, CurrentOK, NewOwner
  <2> QED
    BY <1>4, <2>1, <2>2 DEF CurrentOK
<1> QED
  BY <1>6, <1>8, <1>9, <1>10, <1>11, <1>12, <1>13 DEF IInv

\* A signer is retained: the owner of an open wallet gets one more lease.
LEMMA RetainMoves ==
    ASSUME IInv, NEW s \in Signer, Retain(s)
    PROVE  IInv'
<1>1. PICK o \in Owner :
         /\ owner[o].ready # "unused" /\ ~owner[o].aborted /\ ~owner[o].stopped
         /\ owner' = [owner EXCEPT ![o].refs = @ + 1]
         /\ signer' = [signer EXCEPT ![s] = [NewSigner EXCEPT !.state = "held", !.of = o]]
  BY DEF Retain, IInv, WalletOK
<1>2. owner[o] \in OwnerSet
  BY DEF IInv, Types
<1>3. PICK q \in OwnerSet :
         /\ owner' = [owner EXCEPT ![o] = q] /\ q.refs = owner[o].refs + 1 /\ q.refs # 0
         /\ q.wallets = owner[o].wallets /\ q.orphans = owner[o].orphans
         /\ q.ready = owner[o].ready /\ q.ready # "unused" /\ ~q.aborted
         /\ q.stopped = owner[o].stopped /\ q.phase = owner[o].phase /\ q.torn = owner[o].torn
         /\ q.live = owner[o].live /\ q.attempt = owner[o].attempt
  <2> DEFINE q == [owner[o] EXCEPT !.refs = @ + 1]
  <2>1. q \in OwnerSet /\ q.refs = owner[o].refs + 1 /\ q.refs # 0
    BY <1>2 DEF OwnerSet
  <2>2. /\ q.wallets = owner[o].wallets /\ q.orphans = owner[o].orphans
        /\ q.ready = owner[o].ready /\ q.aborted = owner[o].aborted
        /\ q.stopped = owner[o].stopped /\ q.phase = owner[o].phase /\ q.torn = owner[o].torn
        /\ q.live = owner[o].live /\ q.attempt = owner[o].attempt
    BY <1>2 DEF OwnerSet
  <2> QED
    BY <1>1, <2>1, <2>2
<1>4. OwnerOK(q)
  BY <1>3 DEF IInv, OwnerOK
<1>5. PICK v \in SignerSet :
         signer' = [signer EXCEPT ![s] = v] /\ v.of = o /\ v.state = "held"
  <2>1. [NewSigner EXCEPT !.state = "held", !.of = o] \in SignerSet
    BY DEF SignerSet, NewSigner
  <2> QED
    BY <1>1, <2>1 DEF NewSigner
<1>6. /\ owner' \in [Owner -> OwnerSet] /\ owner'[o] = q
      /\ \A p \in Owner : p # o => owner'[p] = owner[p]
  BY <1>3 DEF IInv, Types
<1>7. /\ signer' \in [Signer -> SignerSet] /\ signer'[s] = v
      /\ \A x \in Signer : x # s => signer'[x] = signer[x]
  BY <1>5 DEF IInv, Types
<1>8. Types'
  BY <1>6, <1>7 DEF IInv, Types, Retain
<1>9. signer[s] = NewSigner /\ signer[s].state = "none"
  BY DEF IInv, SignerOK, Retain
<1>10. ASSUME NEW p \in Owner PROVE OwnerOK(owner[p])'
  BY <1>4, <1>6 DEF IInv, OwnerOK
<1>11. ASSUME NEW p \in Owner PROVE Counted(p)'
  <2>1. WalletLeases(p)' = WalletLeases(p)
    BY DEF WalletLeases, Retain
  <2>2. CASE p # o
    <3>1. SignerLeases(p)' = SignerLeases(p)
      BY <2>2, <1>5, <1>7, <1>9 DEF SignerLeases
    <3>2. owner[p] \in OwnerSet
      BY DEF IInv, Types
    <3> QED
      BY <2>1, <2>2, <3>1, <3>2, <1>6, <1>8, CountKept DEF OwnerSet
  <2>3. CASE p = o
    <3>1. SignerLeases(o)' = SignerLeases(o) \cup {s} /\ s \notin SignerLeases(o)
      BY <1>2, <1>5, <1>7, <1>9, <2>1 DEF SignerLeases, Retain
    <3>2. IsFiniteSet(WalletLeases(o)) /\ IsFiniteSet(SignerLeases(o))
      BY UsersAssumption, FS_Subset DEF WalletLeases, SignerLeases
    <3>3. Cardinality(SignerLeases(o)') = Cardinality(SignerLeases(o)) + 1
      BY <3>1, <3>2, FS_AddElement
    <3>4. Cardinality(WalletLeases(o)) \in Nat /\ Cardinality(SignerLeases(o)) \in Nat
      BY <3>2, FS_CardinalityType
    <3>5. Counted(o)
      BY <1>2 DEF IInv
    <3> QED
      BY <1>3, <1>6, <2>1, <2>3, <3>3, <3>4, <3>5, WalletsAssumption DEF Counted, OwnerSet
  <2> QED
    BY <2>2, <2>3
<1>12. ASSUME NEW p \in Owner PROVE Awaited(p)'
  BY <1>3, <1>6, <1>7, <1>9 DEF IInv, Awaited, Retain
<1>13. ASSUME NEW x \in Wallet PROVE WalletOK(wallet[x])'
  BY <1>2, <1>3, <1>6 DEF IInv, WalletOK, Retain
<1>14. ASSUME NEW x \in Signer PROVE SignerOK(signer[x])'
  BY <1>2, <1>3, <1>5, <1>6, <1>7 DEF IInv, SignerOK
<1>15. CurrentOK'
  <2>1. q.refs > 0
    BY <1>3 DEF OwnerSet
  <2> QED
    BY <1>3, <1>6, <2>1 DEF IInv, CurrentOK, Types, Retain
<1> QED
  BY <1>8, <1>10, <1>11, <1>12, <1>13, <1>14, <1>15 DEF IInv

-----------------------------------------------------------------------------
(* Leases that end *)

\* The end of a lease leaves a consistent record; the last one aborts and stops the owner.
LEMMA LeftOwner ==
    ASSUME NEW r \in OwnerSet, OwnerOK(r), r.ready # "unused", r.refs > 0
    PROVE  /\ Left(r) \in OwnerSet /\ OwnerOK(Left(r)) /\ Left(r).refs = r.refs - 1
           /\ Left(r).wallets = r.wallets /\ Left(r).orphans = r.orphans
           /\ Left(r).ready = r.ready /\ Left(r).torn = r.torn /\ Left(r).phase = r.phase
           /\ Left(r).aborted = (r.refs = 1)
           /\ Left(r).stopped = (r.stopped \/ r.refs = 1)
<1>1. r.refs - 1 \in Nat /\ ~r.aborted
  BY DEF OwnerSet, OwnerOK
<1>2. CASE r.refs > 1
  <2>1. Left(r) = [r EXCEPT !.refs = r.refs - 1]
    BY <1>2 DEF Left, OwnerSet
  <2>2. [r EXCEPT !.refs = r.refs - 1] \in OwnerSet
    BY <1>1 DEF OwnerSet
  <2>3. /\ Left(r).refs = r.refs - 1
        /\ Left(r).wallets = r.wallets /\ Left(r).orphans = r.orphans
        /\ Left(r).ready = r.ready /\ Left(r).torn = r.torn /\ Left(r).phase = r.phase
        /\ Left(r).aborted = r.aborted /\ Left(r).stopped = r.stopped
        /\ Left(r).live = r.live /\ Left(r).attempt = r.attempt
    BY <2>1 DEF OwnerSet
  <2>4. r.refs # 1 /\ r.refs - 1 # 0
    BY <1>2 DEF OwnerSet
  <2>5. OwnerOK(Left(r))
    BY <1>1, <2>3, <2>4 DEF OwnerOK
  <2> QED
    BY <1>1, <2>1, <2>2, <2>3, <2>4, <2>5 DEF OwnerSet
<1>3. CASE r.refs = 1
  <2>1. Left(r) = [r EXCEPT !.stopped = TRUE, !.refs = 0, !.aborted = TRUE]
    <3>1. Stopped(r).refs = 1 /\ ~(r.refs > 1)
      BY <1>3 DEF Stopped, OwnerSet
    <3>2. Left(r) = [Stopped(r) EXCEPT !.refs = 1 - 1, !.aborted = TRUE]
      BY <3>1 DEF Left
    <3> QED
      BY <3>2 DEF Stopped
  <2>2. [r EXCEPT !.stopped = TRUE, !.refs = 0, !.aborted = TRUE] \in OwnerSet
    BY DEF OwnerSet
  <2>3. /\ Left(r).refs = 0
        /\ Left(r).wallets = r.wallets /\ Left(r).orphans = r.orphans
        /\ Left(r).ready = r.ready /\ Left(r).torn = r.torn /\ Left(r).phase = r.phase
        /\ Left(r).aborted = TRUE /\ Left(r).stopped = TRUE
        /\ Left(r).live = r.live /\ Left(r).attempt = r.attempt
    BY <2>1 DEF OwnerSet
  <2>5. OwnerOK(Left(r))
    BY <2>3 DEF OwnerOK
  <2>6. r.refs - 1 = 0 /\ (r.refs = 1) = TRUE /\ (r.stopped \/ r.refs = 1) = TRUE
    BY <1>3
  <2> QED
    BY <2>1, <2>2, <2>3, <2>5, <2>6
<1> QED
  BY <1>2, <1>3 DEF OwnerSet

Ends(o, r) ==
    /\ owner' = [owner EXCEPT ![o] = Left(r)]
    /\ current' = IF owner[o].refs = 1 /\ current = o THEN None ELSE current

\* The owner after the end of a lease, whoever held it.  r is the owner's record with
\* the slots already given back.
LEMMA OwnerLeft ==
    ASSUME IInv, NEW o \in Owner, NEW r \in OwnerSet, owner[o].ready # "unused",
           owner[o].refs > 0, r.refs = owner[o].refs, OwnerOK(r),
           r.ready = owner[o].ready, r.torn = owner[o].torn, r.phase = owner[o].phase,
           r.stopped = owner[o].stopped,
           Ends(o, r)
    PROVE  /\ current' \in Owner \cup {None} /\ owner' \in [Owner -> OwnerSet]
           /\ \A p \in Owner : p # o => owner'[p] = owner[p]
           /\ owner'[o].refs = owner[o].refs - 1
           /\ owner'[o].wallets = r.wallets /\ owner'[o].orphans = r.orphans
           /\ owner'[o].ready = owner[o].ready /\ owner'[o].torn = owner[o].torn
           /\ owner'[o].aborted = (owner[o].refs = 1)
           /\ \A p \in Owner : OwnerOK(owner[p])'
           /\ CurrentOK'
<1>1. /\ owner' \in [Owner -> OwnerSet] /\ owner'[o] = Left(r)
      /\ \A p \in Owner : p # o => owner'[p] = owner[p]
  BY LeftOwner DEF IInv, Types, Ends
<1>2. ASSUME NEW p \in Owner PROVE OwnerOK(owner[p])'
  <2>1. OwnerOK(Left(r)) /\ OwnerOK(owner[p])
    BY LeftOwner DEF IInv
  <2>2. OwnerOK(owner'[p])
    BY <2>1, <1>1
  <2> QED
    BY <2>2 DEF OwnerOK
<1>3. current' \in Owner \cup {None}
  BY DEF IInv, Types, Ends
<1>4. CurrentOK'
  <2>1. CASE current = o
    <3>1. CASE owner[o].refs = 1
      BY <2>1, <3>1 DEF Ends, CurrentOK
    <3>2. CASE owner[o].refs # 1
      <4>1. owner[o] \in OwnerSet
        BY DEF IInv, Types
      <4>2. Left(r).refs > 0 /\ Left(r).stopped = owner[o].stopped
            /\ Left(r).phase = owner[o].phase
        BY <3>2, <4>1, LeftOwner DEF OwnerSet
      <4> QED
        BY <2>1, <3>2, <4>2, <1>1 DEF Ends, CurrentOK, IInv
    <3> QED
      BY <3>1, <3>2
  <2>2. CASE current # o
    BY <2>2, <1>1, <1>3 DEF Ends, CurrentOK, IInv
  <2> QED
    BY <2>1, <2>2
<1> QED
  BY <1>1, <1>2, <1>3, <1>4, LeftOwner

\* release(): a wallet's lease ends.
LEMMA ReleaseMoves ==
    ASSUME IInv, NEW w \in Wallet, wallet[w].lease, NEW orphans \in {0, 1},
           NEW call \in {"open", "failing", "closing"}, Release(w, orphans, call)
    PROVE  IInv'
<1>1. PICK o \in Owner : o = wallet[w].of /\ owner[o].ready # "unused"
  BY DEF IInv, WalletOK, NewWallet
<1>2. /\ wallet[w] \in WalletSet /\ WalletOK(wallet[w]) /\ ~wallet[w].last
      /\ owner[o] \in OwnerSet /\ OwnerOK(owner[o]) /\ Counted(o)
  BY DEF IInv, Types, WalletOK
<1>3. /\ IsFiniteSet(WalletLeases(o)) /\ w \in WalletLeases(o)
      /\ Cardinality(WalletLeases(o)) \in Nat \ {0}
      /\ Cardinality(WalletLeases(o) \ {w}) = Cardinality(WalletLeases(o)) - 1
      /\ Cardinality(SignerLeases(o)) \in Nat
  <2>1. IsFiniteSet(WalletLeases(o)) /\ IsFiniteSet(SignerLeases(o))
    BY UsersAssumption, FS_Subset DEF WalletLeases, SignerLeases
  <2>2. w \in WalletLeases(o)
    BY <1>1 DEF WalletLeases
  <2>3. /\ Cardinality(WalletLeases(o)) \in Nat
        /\ Cardinality(WalletLeases(o)) = 0 <=> WalletLeases(o) = {}
        /\ Cardinality(SignerLeases(o)) \in Nat
    BY <2>1, FS_CardinalityType, FS_EmptySet
  <2> QED
    BY <2>1, <2>2, <2>3, FS_RemoveElement
<1>4. owner[o].refs > 0 /\ owner[o].wallets - 1 + orphans \in Nat
      /\ owner[o].orphans + orphans \in Nat
  BY <1>2, <1>3 DEF Counted, OwnerSet
<1>5. PICK r \in OwnerSet :
         /\ owner' = [owner EXCEPT ![o] = Left(r)]
         /\ r.wallets = owner[o].wallets - 1 + orphans /\ r.orphans = owner[o].orphans + orphans
         /\ r.refs = owner[o].refs /\ r.ready = owner[o].ready /\ r.torn = owner[o].torn
         /\ r.phase = owner[o].phase /\ r.stopped = owner[o].stopped /\ OwnerOK(r)
  <2> DEFINE m == owner[o].wallets - 1 + orphans
             n == owner[o].orphans + orphans
             r == [owner[o] EXCEPT !.wallets = m, !.orphans = n]
  <2>1. owner' = [owner EXCEPT ![o] = Left(r)]
    BY <1>1, <1>2 DEF Release, OwnerSet
  <2>2. m \in Nat /\ n \in Nat
    BY <1>4
  <2> HIDE DEF m, n
  <2>3. r \in OwnerSet
    BY <1>2, <2>2 DEF OwnerSet
  <2>4. /\ r.wallets = m /\ r.orphans = n
        /\ r.refs = owner[o].refs /\ r.ready = owner[o].ready /\ r.torn = owner[o].torn
        /\ r.phase = owner[o].phase /\ r.stopped = owner[o].stopped
        /\ r.aborted = owner[o].aborted /\ r.live = owner[o].live
        /\ r.attempt = owner[o].attempt
    BY <1>2 DEF OwnerSet
  <2> HIDE DEF r
  <2>5. OwnerOK(r)
    BY <1>1, <1>2, <2>4 DEF OwnerOK
  <2> QED
    BY <2>1, <2>3, <2>4, <2>5 DEF m, n
<1>6. current' = IF owner[o].refs = 1 /\ current = o THEN None ELSE current
  BY <1>1 DEF Release
<1>7. /\ current' \in Owner \cup {None} /\ owner' \in [Owner -> OwnerSet]
      /\ \A p \in Owner : p # o => owner'[p] = owner[p]
      /\ owner'[o].refs = owner[o].refs - 1
      /\ owner'[o].wallets = owner[o].wallets - 1 + orphans
      /\ owner'[o].orphans = owner[o].orphans + orphans
      /\ owner'[o].ready = owner[o].ready /\ owner'[o].torn = owner[o].torn
      /\ owner'[o].aborted = (owner[o].refs = 1)
      /\ \A p \in Owner : OwnerOK(owner[p])'
      /\ CurrentOK'
  <2>1. owner[o].refs > 0
    BY <1>4
  <2>2. Ends(o, r)
    BY <1>5, <1>6 DEF Ends
  <2> QED
    BY <1>1, <1>5, <2>1, <2>2, OwnerLeft
<1>8. PICK n \in [Wallet -> WalletSet] :
         /\ n = IF owner[o].refs = 1 THEN Notified(o) ELSE wallet
         /\ \A x \in Wallet : /\ WalletOK(n[x]) /\ n[x].call = wallet[x].call
                              /\ n[x].of = wallet[x].of /\ n[x].lease = wallet[x].lease
                              /\ n[x].last = wallet[x].last
  <2>1. wallet \in [Wallet -> WalletSet] /\ \A x \in Wallet : WalletOK(wallet[x])
    BY DEF IInv, Types
  <2> QED
    BY <2>1, NotifiedKeeps
<1>9. PICK v \in WalletSet :
         /\ wallet' = [n EXCEPT ![w] = v] /\ ~v.lease /\ WalletOK(v)
         /\ owner[o].refs = 1 => v.last /\ v.of = o
  <2>1. CASE owner[o].refs # 1 /\ call # "open"
    <3>1. wallet' = [n EXCEPT ![w] = NewWallet]
      BY <1>1, <1>8, <2>1 DEF Release
    <3>2. WalletOK(NewWallet) /\ ~NewWallet.lease
      BY DEF WalletOK, NewWallet
    <3> QED
      BY <2>1, <3>1, <3>2, Constants
  <2>2. CASE ~(owner[o].refs # 1 /\ call # "open")
    <3> DEFINE last == owner[o].refs = 1
               v == [n[w] EXCEPT !.lease = FALSE, !.last = last, !.call = call,
                                 !.request = "none"]
    <3>1. wallet' = [n EXCEPT ![w] = v]
      BY <1>1, <1>8, <2>2 DEF Release
    <3>2. n[w] \in WalletSet /\ last \in BOOLEAN /\ n[w].of = o
      BY <1>1, <1>8
    <3> HIDE DEF last
    <3>3. v \in WalletSet /\ ~v.lease /\ v.last = last /\ v.call = call /\ v.request = "none"
          /\ v.of = o
      BY <3>2 DEF WalletSet
    <3> HIDE DEF v
    <3>4. WalletOK(v)
      BY <1>1, <3>3 DEF WalletOK
    <3> QED
      BY <3>1, <3>3, <3>4 DEF last
  <2> QED
    BY <2>1, <2>2
<1>10. /\ wallet' \in [Wallet -> WalletSet] /\ wallet'[w] = v
       /\ \A x \in Wallet : x # w => wallet'[x] = n[x]
  BY <1>8, <1>9
<1>11. Types' /\ UNCHANGED signer
  BY <1>7, <1>10 DEF IInv, Types, Release
<1>12. ASSUME NEW p \in Owner PROVE Counted(p)'
  <2>1. SignerLeases(p)' = SignerLeases(p)
    BY <1>11 DEF SignerLeases
  <2>2. CASE p # o
    <3>1. WalletLeases(p)' = WalletLeases(p)
      BY <2>2, <1>1, <1>8, <1>9, <1>10 DEF WalletLeases
    <3>2. owner[p] \in OwnerSet
      BY DEF IInv, Types
    <3> QED
      BY <2>1, <2>2, <3>1, <3>2, <1>7, <1>11, CountKept DEF OwnerSet
  <2>3. CASE p = o
    <3>1. WalletLeases(o)' = WalletLeases(o) \ {w}
      BY <1>8, <1>9, <1>10 DEF WalletLeases
    <3>2. Cardinality(WalletLeases(o)') = Cardinality(WalletLeases(o)) - 1
      BY <3>1, <1>3
    <3> QED
      BY <1>2, <1>3, <1>7, <2>1, <2>3, <3>2, WalletsAssumption DEF Counted, OwnerSet
  <2> QED
    BY <2>2, <2>3
<1>13. ASSUME NEW p \in Owner PROVE Awaited(p)'
  <2>1. CASE p # o
    <3>1. owner'[p] = owner[p] /\ Awaited(p)
      BY <1>7, <2>1 DEF IInv
    <3> QED
      BY <3>1, <1>2, <1>8, <1>10, <1>11 DEF Awaited
  <2>2. CASE p = o
    BY <2>2, <1>7, <1>9, <1>10 DEF Awaited
  <2> QED
    BY <2>1, <2>2
<1>14. ASSUME NEW p \in Owner PROVE owner'[p].ready = owner[p].ready
  BY <1>7
<1>15. ASSUME NEW x \in Wallet PROVE WalletOK(wallet[x])'
  <2>1. WalletOK(wallet'[x])
    BY <1>8, <1>9, <1>10
  <2> QED
    BY <2>1, <1>14 DEF WalletOK
<1>16. ASSUME NEW s \in Signer PROVE SignerOK(signer[s])'
  BY <1>11, <1>14 DEF IInv, SignerOK
<1> QED
  BY <1>7, <1>11, <1>12, <1>13, <1>15, <1>16 DEF IInv

\* releaseOwner(): a signer's lease ends.
LEMMA LetGoMoves ==
    ASSUME IInv, NEW s \in Signer, LetGo(s)
    PROVE  IInv'
<1>1. PICK o \in Owner : o = signer[s].of /\ owner[o].ready # "unused"
  BY DEF IInv, SignerOK, LetGo
<1>2. /\ signer[s] \in SignerSet /\ signer[s].state \in {"releasing", "invalid"}
      /\ owner[o] \in OwnerSet /\ OwnerOK(owner[o]) /\ Counted(o)
  BY DEF IInv, Types, LetGo
<1>3. /\ Cardinality(SignerLeases(o)) \in Nat \ {0}
      /\ Cardinality(SignerLeases(o) \ {s}) = Cardinality(SignerLeases(o)) - 1
      /\ Cardinality(WalletLeases(o)) \in Nat
  <2>1. IsFiniteSet(WalletLeases(o)) /\ IsFiniteSet(SignerLeases(o))
    BY UsersAssumption, FS_Subset DEF WalletLeases, SignerLeases
  <2>2. s \in SignerLeases(o)
    BY <1>1, <1>2 DEF SignerLeases
  <2>3. /\ Cardinality(SignerLeases(o)) \in Nat
        /\ Cardinality(SignerLeases(o)) = 0 <=> SignerLeases(o) = {}
        /\ Cardinality(WalletLeases(o)) \in Nat
    BY <2>1, FS_CardinalityType, FS_EmptySet
  <2> QED
    BY <2>1, <2>2, <2>3, FS_RemoveElement
<1>4. owner[o].refs > 0
  BY <1>2, <1>3 DEF Counted, OwnerSet
<1>5. Ends(o, owner[o])
  BY <1>1 DEF LetGo, Ends
<1>6. /\ current' \in Owner \cup {None} /\ owner' \in [Owner -> OwnerSet]
      /\ \A p \in Owner : p # o => owner'[p] = owner[p]
      /\ owner'[o].refs = owner[o].refs - 1
      /\ owner'[o].wallets = owner[o].wallets
      /\ owner'[o].orphans = owner[o].orphans
      /\ owner'[o].ready = owner[o].ready /\ owner'[o].torn = owner[o].torn
      /\ owner'[o].aborted = (owner[o].refs = 1)
      /\ \A p \in Owner : OwnerOK(owner[p])'
      /\ CurrentOK'
  BY <1>1, <1>2, <1>4, <1>5, OwnerLeft
<1>7. /\ wallet' \in [Wallet -> WalletSet]
      /\ \A x \in Wallet : /\ WalletOK(wallet'[x]) /\ wallet'[x].call = wallet[x].call
                           /\ wallet'[x].of = wallet[x].of /\ wallet'[x].lease = wallet[x].lease
                           /\ wallet'[x].last = wallet[x].last
  <2>1. wallet \in [Wallet -> WalletSet] /\ \A x \in Wallet : WalletOK(wallet[x])
    BY DEF IInv, Types
  <2>2. wallet' = IF owner[o].refs = 1 THEN Notified(o) ELSE wallet
    BY <1>1 DEF LetGo
  <2> QED
    BY <2>1, <2>2, NotifiedKeeps
<1>8. PICK v \in SignerSet :
         /\ signer' = [signer EXCEPT ![s] = v]
         /\ owner[o].refs # 1 => v = NewSigner
         /\ owner[o].refs = 1 => v.of = o /\ v.state = "leaving"
  <2>1. [signer[s] EXCEPT !.state = "leaving"] \in SignerSet
    BY <1>2 DEF SignerSet
  <2>2. /\ [signer[s] EXCEPT !.state = "leaving"].of = o
        /\ [signer[s] EXCEPT !.state = "leaving"].state = "leaving"
    BY <1>1, <1>2 DEF SignerSet
  <2>3. signer' = [signer EXCEPT ![s] = IF owner[o].refs = 1
                                        THEN [signer[s] EXCEPT !.state = "leaving"]
                                        ELSE NewSigner]
    BY <1>1, <1>2 DEF LetGo, IInv, Types
  <2> QED
    BY <2>1, <2>2, <2>3, Constants
<1>9. /\ signer' \in [Signer -> SignerSet] /\ signer'[s] = v
      /\ \A x \in Signer : x # s => signer'[x] = signer[x]
  BY <1>8 DEF IInv, Types
<1>10. Types'
  BY <1>6, <1>7, <1>9 DEF Types
<1>11. ASSUME NEW p \in Owner PROVE Counted(p)'
  <2>1. WalletLeases(p)' = WalletLeases(p)
    BY <1>7 DEF WalletLeases
  <2>2. CASE p # o
    <3>1. SignerLeases(p)' = SignerLeases(p)
      BY <2>2, <1>1, <1>8, <1>9, Constants DEF SignerLeases, NewSigner
    <3>2. owner[p] \in OwnerSet
      BY DEF IInv, Types
    <3> QED
      BY <2>1, <2>2, <3>1, <3>2, <1>6, <1>10, CountKept DEF OwnerSet
  <2>3. CASE p = o
    <3>1. SignerLeases(o)' = SignerLeases(o) \ {s}
      BY <1>8, <1>9 DEF SignerLeases, NewSigner
    <3>2. Cardinality(SignerLeases(o)') = Cardinality(SignerLeases(o)) - 1
      BY <3>1, <1>3
    <3> QED
      BY <1>2, <1>3, <1>6, <2>1, <2>3, <3>2, WalletsAssumption DEF Counted, OwnerSet
  <2> QED
    BY <2>2, <2>3
<1>12. ASSUME NEW p \in Owner PROVE Awaited(p)'
  <2>1. CASE p # o
    <3>1. owner'[p] = owner[p] /\ Awaited(p)
      BY <1>6, <2>1 DEF IInv
    <3> QED
      BY <3>1, <1>2, <1>7, <1>9 DEF Awaited
  <2>2. CASE p = o
    BY <2>2, <1>6, <1>8, <1>9 DEF Awaited
  <2> QED
    BY <2>1, <2>2
<1>13. ASSUME NEW p \in Owner PROVE owner'[p].ready = owner[p].ready
  BY <1>6
<1>14. ASSUME NEW x \in Wallet PROVE WalletOK(wallet[x])'
  <2>1. WalletOK(wallet'[x])
    BY <1>7
  <2> QED
    BY <2>1, <1>13 DEF WalletOK
<1>15. ASSUME NEW x \in Signer PROVE SignerOK(signer[x])'
  <2>1. SignerOK(signer[x])
    BY DEF IInv
  <2>2. SignerOK(signer'[x])
    BY <2>1, <1>1, <1>8, <1>9 DEF SignerOK, NewSigner
  <2> QED
    BY <2>2, <1>13 DEF SignerOK
<1> QED
  BY <1>6, <1>10, <1>11, <1>12, <1>14, <1>15 DEF IInv

-----------------------------------------------------------------------------
(* The actions *)

\* The start of an owner.
LEMMA StartupMoves ==
    ASSUME IInv, NEW o \in Owner, Startup(o)
    PROVE  IInv'
<1>1. /\ owner[o] \in OwnerSet /\ OwnerOK(owner[o]) /\ owner[o].ready = "pending"
      /\ ~owner[o].stopped /\ UNCHANGED <<current, wallet, signer>>
  BY DEF IInv, Types, Startup, Stage, PoolStarts, ComputeLoads, Ready, Admit, Starting
<1>2. \E r \in OwnerSet :
         /\ owner' = [owner EXCEPT ![o] = r]
         /\ r.refs = owner[o].refs /\ r.wallets = owner[o].wallets
         /\ r.orphans = owner[o].orphans /\ r.aborted = owner[o].aborted
         /\ r.ready \in {"pending", "ok"} /\ r.attempt = owner[o].attempt
         /\ r.stopped = owner[o].stopped /\ r.torn = owner[o].torn
         /\ \/ r.live \in {owner[o].live, owner[o].live \cup {owner[o].attempt}}
            \/ r.live = owner[o].live \cup {"compute"} /\ owner[o].attempt = "threaded"
  <2>1. CASE Stage(o)
    <3> DEFINE r == [owner[o] EXCEPT !.phase = "executing",
                                     !.live = owner[o].live \cup {owner[o].attempt}]
    <3>1. owner' = [owner EXCEPT ![o] = r]
      BY <1>1, <2>1 DEF Stage, IInv, Types, OwnerSet
    <3>2. r \in OwnerSet
      BY <1>1 DEF OwnerSet
    <3>3. /\ r.refs = owner[o].refs /\ r.wallets = owner[o].wallets
          /\ r.orphans = owner[o].orphans /\ r.aborted = owner[o].aborted
          /\ r.stopped = owner[o].stopped /\ r.torn = owner[o].torn
          /\ r.attempt = owner[o].attempt
      BY <1>1 DEF OwnerSet
    <3>4. r.ready = "pending" /\ r.live = owner[o].live \cup {owner[o].attempt}
      BY <1>1 DEF OwnerSet
    <3> HIDE DEF r
    <3> QED
      BY <1>1, <3>1, <3>2, <3>3, <3>4
  <2>2. CASE PoolStarts(o)
    <3> DEFINE r == [owner[o] EXCEPT !.phase = "pool", !.live = owner[o].live \cup {"compute"}]
    <3>1. owner' = [owner EXCEPT ![o] = r] /\ owner[o].attempt = "threaded"
      BY <1>1, <2>2 DEF PoolStarts, IInv, Types, OwnerSet
    <3>2. r \in OwnerSet
      BY <1>1 DEF OwnerSet
    <3>3. /\ r.refs = owner[o].refs /\ r.wallets = owner[o].wallets
          /\ r.orphans = owner[o].orphans /\ r.aborted = owner[o].aborted
          /\ r.stopped = owner[o].stopped /\ r.torn = owner[o].torn
          /\ r.attempt = owner[o].attempt
      BY <1>1 DEF OwnerSet
    <3>4. r.ready = "pending" /\ r.live = owner[o].live \cup {"compute"}
      BY <1>1 DEF OwnerSet
    <3> HIDE DEF r
    <3> QED
      BY <1>1, <3>1, <3>2, <3>3, <3>4
  <2>3. CASE ComputeLoads(o)
    <3> DEFINE r == [owner[o] EXCEPT !.loaded = owner[o].loaded + 1]
    <3>1. owner' = [owner EXCEPT ![o] = r]
      BY <1>1, <2>3 DEF ComputeLoads, IInv, Types, OwnerSet
    <3>2. r \in OwnerSet
      BY <1>1 DEF OwnerSet
    <3>3. /\ r.refs = owner[o].refs /\ r.wallets = owner[o].wallets
          /\ r.orphans = owner[o].orphans /\ r.aborted = owner[o].aborted
          /\ r.stopped = owner[o].stopped /\ r.torn = owner[o].torn
          /\ r.attempt = owner[o].attempt
      BY <1>1 DEF OwnerSet
    <3>4. r.ready = "pending" /\ r.live = owner[o].live
      BY <1>1 DEF OwnerSet
    <3> HIDE DEF r
    <3> QED
      BY <1>1, <3>1, <3>2, <3>3, <3>4
  <2>4. CASE Ready(o)
    <3> DEFINE r == [owner[o] EXCEPT !.phase = "ready"]
    <3>1. owner' = [owner EXCEPT ![o] = r]
      BY <1>1, <2>4 DEF Ready, IInv, Types, OwnerSet
    <3>2. r \in OwnerSet
      BY <1>1 DEF OwnerSet
    <3>3. /\ r.refs = owner[o].refs /\ r.wallets = owner[o].wallets
          /\ r.orphans = owner[o].orphans /\ r.aborted = owner[o].aborted
          /\ r.stopped = owner[o].stopped /\ r.torn = owner[o].torn
          /\ r.attempt = owner[o].attempt
      BY <1>1 DEF OwnerSet
    <3>4. r.ready = "pending" /\ r.live = owner[o].live
      BY <1>1 DEF OwnerSet
    <3> HIDE DEF r
    <3> QED
      BY <1>1, <3>1, <3>2, <3>3, <3>4
  <2>5. CASE Admit(o)
    <3> DEFINE r == [owner[o] EXCEPT !.phase = "admitted", !.ready = "ok"]
    <3>1. owner' = [owner EXCEPT ![o] = r]
      BY <1>1, <2>5 DEF Admit, IInv, Types, OwnerSet
    <3>2. r \in OwnerSet
      BY <1>1 DEF OwnerSet
    <3>3. /\ r.refs = owner[o].refs /\ r.wallets = owner[o].wallets
          /\ r.orphans = owner[o].orphans /\ r.aborted = owner[o].aborted
          /\ r.stopped = owner[o].stopped /\ r.torn = owner[o].torn
          /\ r.attempt = owner[o].attempt
      BY <1>1 DEF OwnerSet
    <3>4. r.ready = "ok" /\ r.live = owner[o].live
      BY <1>1 DEF OwnerSet
    <3> HIDE DEF r
    <3> QED
      BY <1>1, <3>1, <3>2, <3>3, <3>4
  <2> QED
    BY <2>1, <2>2, <2>3, <2>4, <2>5 DEF Startup
<1>3. PICK r \in OwnerSet :
         /\ owner' = [owner EXCEPT ![o] = r]
         /\ r.refs = owner[o].refs /\ r.wallets = owner[o].wallets
         /\ r.orphans = owner[o].orphans /\ r.aborted = owner[o].aborted
         /\ r.ready \in {"pending", "ok"} /\ r.attempt = owner[o].attempt
         /\ r.stopped = owner[o].stopped /\ r.torn = owner[o].torn
         /\ \/ r.live \in {owner[o].live, owner[o].live \cup {owner[o].attempt}}
            \/ r.live = owner[o].live \cup {"compute"} /\ owner[o].attempt = "threaded"
  BY <1>2
<1>4. OwnerOK(r)
  <2>1. r.live \subseteq IF r.attempt = "baseline" THEN {"baseline"} ELSE {"threaded", "compute"}
    BY <1>1, <1>3 DEF OwnerOK, OwnerSet
  <2> QED
    BY <1>1, <1>3, <2>1 DEF OwnerOK
<1>5. /\ r.wallets - r.orphans = owner[o].wallets - owner[o].orphans
      /\ r.wallets <= owner[o].wallets
  BY <1>1, <1>3 DEF OwnerSet
<1> QED
  BY <1>1, <1>3, <1>4, <1>5, OwnerMoves

\* Its end: a teardown, a fallback, or the start has failed for good.
LEMMA TeardownMoves ==
    ASSUME IInv, NEW o \in Owner, Teardown(o)
    PROVE  IInv'
<1>1. owner[o] \in OwnerSet /\ OwnerOK(owner[o]) /\ UNCHANGED <<wallet, signer>>
  BY DEF IInv, Types, Teardown, TearDown, FallBack, GiveUp
<1>2. CASE TearDown(o)
  <2>1. PICK torn \in {"done", "failed"}, live \in {{}, owner[o].live} :
           /\ owner' = [owner EXCEPT ![o] = [owner[o] EXCEPT !.torn = torn, !.live = live]]
           /\ torn = "done" => live = {}
    <3>1. CASE owner' = [owner EXCEPT ![o].torn = "done", ![o].live = {}]
      BY <3>1 DEF IInv, Types
    <3>2. CASE owner' = [owner EXCEPT ![o].torn = "failed"]
      <4>1. [owner[o] EXCEPT !.torn = "failed"]
              = [owner[o] EXCEPT !.torn = "failed", !.live = owner[o].live]
        BY <1>1 DEF OwnerSet
      <4>2. owner' = [owner EXCEPT ![o] = [owner[o] EXCEPT !.torn = "failed"]]
        BY <3>2 DEF IInv, Types
      <4> QED
        BY <4>1, <4>2
    <3> QED
      BY <1>2, <3>1, <3>2 DEF TearDown
  <2> DEFINE r == [owner[o] EXCEPT !.torn = torn, !.live = live]
  <2>2. /\ r \in OwnerSet /\ r.torn = torn /\ r.live = live
        /\ r.refs = owner[o].refs /\ r.wallets = owner[o].wallets
        /\ r.orphans = owner[o].orphans /\ r.aborted = owner[o].aborted
        /\ r.ready = owner[o].ready /\ r.attempt = owner[o].attempt
        /\ r.stopped = owner[o].stopped /\ r.phase = owner[o].phase
    BY <1>1 DEF OwnerSet
  <2>3. owner' = [owner EXCEPT ![o] = r]
    BY <2>1
  <2> HIDE DEF r
  <2>4. owner[o].ready # "unused" /\ owner[o].stopped /\ UNCHANGED current
    BY <1>1, <1>2 DEF TearDown, OwnerOK, NewOwner
  <2>5. OwnerOK(r)
    BY <1>1, <2>1, <2>2, <2>4 DEF OwnerOK
  <2>6. /\ r.wallets - r.orphans = owner[o].wallets - owner[o].orphans
        /\ r.wallets <= owner[o].wallets
    BY <1>1, <2>2 DEF OwnerSet
  <2>7. current' = o /\ r.phase = "admitted" => ~r.stopped
    BY <2>2, <2>4, Constants DEF IInv, CurrentOK
  <2> QED
    BY <1>1, <2>1, <2>2, <2>3, <2>4, <2>5, <2>6, <2>7, OwnerMoves
<1>3. CASE FallBack(o)
  <2> DEFINE r == [owner[o] EXCEPT !.attempt = "baseline", !.phase = "assets",
                                   !.stopped = FALSE, !.torn = "no", !.loaded = 0]
  <2>1. owner' = [owner EXCEPT ![o] = r]
    BY <1>3 DEF IInv, Types, FallBack
  <2>2. /\ r \in OwnerSet /\ r.torn = "no" /\ r.live = owner[o].live
        /\ r.refs = owner[o].refs /\ r.wallets = owner[o].wallets
        /\ r.orphans = owner[o].orphans /\ r.aborted = owner[o].aborted
        /\ r.ready = owner[o].ready /\ r.attempt = "baseline" /\ ~r.stopped
    BY <1>1 DEF OwnerSet
  <2> HIDE DEF r
  <2>3. owner[o].ready = "pending" /\ ~owner[o].aborted /\ owner[o].torn = "done"
        /\ UNCHANGED current
    BY <1>3 DEF FallBack, MayFallBack
  <2>4. OwnerOK(r)
    BY <1>1, <2>2, <2>3 DEF OwnerOK
  <2>5. /\ r.wallets - r.orphans = owner[o].wallets - owner[o].orphans
        /\ r.wallets <= owner[o].wallets
    BY <1>1, <2>2 DEF OwnerSet
  <2> QED
    BY <1>1, <2>1, <2>2, <2>3, <2>4, <2>5, OwnerMoves
<1>4. CASE GiveUp(o)
  <2> DEFINE r == [owner[o] EXCEPT !.ready = "failed"]
  <2>1. owner' = [owner EXCEPT ![o] = r]
    BY <1>4 DEF IInv, Types, GiveUp
  <2>2. /\ r \in OwnerSet /\ r.torn = owner[o].torn /\ r.live = owner[o].live
        /\ r.refs = owner[o].refs /\ r.wallets = owner[o].wallets
        /\ r.orphans = owner[o].orphans /\ r.aborted = owner[o].aborted
        /\ r.ready = "failed" /\ r.attempt = owner[o].attempt /\ r.stopped = owner[o].stopped
    BY <1>1 DEF OwnerSet
  <2> HIDE DEF r
  <2>3. owner[o].ready = "pending" /\ owner[o].torn # "no"
        /\ current' \in {current, None} /\ current' # o
    BY <1>4, Constants DEF GiveUp
  <2>4. OwnerOK(r)
    BY <1>1, <2>2, <2>3 DEF OwnerOK
  <2>5. /\ r.wallets - r.orphans = owner[o].wallets - owner[o].orphans
        /\ r.wallets <= owner[o].wallets
    BY <1>1, <2>2 DEF OwnerSet
  <2> QED
    BY <1>1, <2>1, <2>2, <2>3, <2>4, <2>5, OwnerMoves
<1> QED
  BY <1>2, <1>3, <1>4 DEF Teardown

\* The slot of an abandoned opening comes back.
LEMMA OrphanMoves ==
    ASSUME IInv, NEW o \in Owner, OrphanSettles(o)
    PROVE  IInv'
<1>1. owner[o] \in OwnerSet /\ OwnerOK(owner[o]) /\ Counted(o)
      /\ UNCHANGED <<current, wallet, signer>> /\ owner[o].orphans > 0
  BY DEF IInv, Types, OrphanSettles
<1>2. owner[o].ready # "unused"
  BY <1>1 DEF OwnerOK, NewOwner
<1>3. Cardinality(WalletLeases(o)) \in Nat
  BY UsersAssumption, FS_Subset, FS_CardinalityType DEF WalletLeases
<1>4. owner[o].orphans - 1 \in Nat /\ owner[o].wallets - 1 \in Nat
  BY <1>1, <1>3 DEF Counted, OwnerSet
<1>5. PICK m \in Nat, n \in Nat : m = owner[o].orphans - 1 /\ n = owner[o].wallets - 1
  BY <1>4
<1> DEFINE r == [owner[o] EXCEPT !.orphans = m, !.wallets = n]
<1>6. owner' = [owner EXCEPT ![o] = r]
  BY <1>1, <1>5 DEF OrphanSettles, IInv, Types, OwnerSet
<1>7. /\ r \in OwnerSet /\ r.torn = owner[o].torn /\ r.live = owner[o].live
      /\ r.refs = owner[o].refs /\ r.wallets = n
      /\ r.orphans = m /\ r.aborted = owner[o].aborted
      /\ r.ready = owner[o].ready /\ r.attempt = owner[o].attempt
      /\ r.stopped = owner[o].stopped /\ r.phase = owner[o].phase
  BY <1>1 DEF OwnerSet
<1> HIDE DEF r
<1>8. OwnerOK(r)
  BY <1>1, <1>2, <1>7 DEF OwnerOK
<1>9. /\ r.wallets - r.orphans = owner[o].wallets - owner[o].orphans
      /\ r.wallets <= owner[o].wallets
  BY <1>1, <1>5, <1>7 DEF OwnerSet
<1>10. current' = o /\ r.phase = "admitted" => ~r.stopped
  BY <1>1, <1>7, Constants DEF IInv, CurrentOK
<1> QED
  BY <1>1, <1>2, <1>6, <1>7, <1>8, <1>9, <1>10, OwnerMoves

\* openWalletRuntime(), what becomes of it, and the end of the wallet.
LEMMA CallMoves ==
    ASSUME IInv, NEW w \in Wallet,
           OpenNew(w) \/ OpenShared(w) \/ Abort(w) \/ Abandon(w) \/ Calling(w) \/ Opened(w)
              \/ Refused(w) \/ Close(w) \/ Ending(w)
    PROVE  IInv'
<1>1. /\ wallet[w] \in WalletSet /\ WalletOK(wallet[w])
      /\ wallet \in [Wallet -> WalletSet] /\ signer \in [Signer -> SignerSet]
  BY DEF IInv, Types
<1>2. CASE OpenNew(w)
  <2>1. PICK o \in Owner :
           /\ owner[o].ready = "unused" /\ current' = o
           /\ Leased(o, w, [owner[o] EXCEPT !.ready = "pending"])
    BY <1>2 DEF OpenNew
  <2>2. owner[o] = NewOwner
    BY <2>1 DEF IInv, OwnerOK
  <2>3. [NewOwner EXCEPT !.ready = "pending"] \in OwnerSet
    BY Constants DEF OwnerSet
  <2>4. [NewOwner EXCEPT !.ready = "pending"].wallets < MaxWallets
    BY WalletsAssumption DEF NewOwner
  <2> QED
    BY <1>2, <2>1, <2>2, <2>3, <2>4, LeaseMoves DEF OpenNew, Calls
<1>3. CASE OpenShared(w)
  <2>1. /\ current \in Owner /\ owner[current] \in OwnerSet /\ owner[current].refs > 0
        /\ owner[current].wallets < MaxWallets /\ UNCHANGED <<current, signer>>
        /\ Leased(current, w, owner[current])
    BY <1>3 DEF OpenShared, IInv, Types, CurrentOK
  <2>2. owner[current].ready # "unused"
    BY <2>1 DEF IInv, OwnerOK, NewOwner
  <2> QED
    BY <1>3, <2>1, <2>2, LeaseMoves DEF OpenShared, Calls
<1>4. CASE Proceed(w)
  <2>1. PICK request \in {"posted", "rejected"} :
           wallet' = [wallet EXCEPT ![w] = [wallet[w] EXCEPT !.call = "opening",
                                                             !.request = request]]
    BY <1>1, <1>4 DEF Proceed
  <2> DEFINE r == [wallet[w] EXCEPT !.call = "opening", !.request = request]
  <2>2. wallet[w].lease /\ wallet[w].call = "waiting" /\ UNCHANGED <<current, owner, signer>>
    BY <1>1, <1>4 DEF Proceed, WalletOK
  <2>3. /\ r \in WalletSet /\ r.call = "opening" /\ r.request = request
        /\ r.of = wallet[w].of /\ r.lease = wallet[w].lease /\ r.last = wallet[w].last
    BY <1>1 DEF WalletSet
  <2>4. wallet' = [wallet EXCEPT ![w] = r]
    BY <2>1
  <2> HIDE DEF r
  <2>5. WalletOK(r)
    BY <1>1, <2>2, <2>3 DEF WalletOK, Requests
  <2> QED
    BY <2>2, <2>3, <2>4, <2>5, WalletMoves
<1>5. CASE Opened(w)
  <2>1. PICK call \in {"open", "failing"}, request \in {"session", "closing"} :
           /\ wallet' = [wallet EXCEPT ![w] = [wallet[w] EXCEPT !.call = call,
                                                             !.request = request]]
           /\ call = "open" <=> request = "session"
    BY <1>1, <1>5 DEF Opened
  <2> DEFINE r == [wallet[w] EXCEPT !.call = call, !.request = request]
  <2>2. wallet[w].lease /\ wallet[w].call = "opening" /\ UNCHANGED <<current, owner, signer>>
    BY <1>1, <1>5 DEF Opened, WalletOK, Requests, WalletSet
  <2>3. /\ r \in WalletSet /\ r.call = call /\ r.request = request
        /\ r.of = wallet[w].of /\ r.lease = wallet[w].lease /\ r.last = wallet[w].last
    BY <1>1 DEF WalletSet
  <2>4. wallet' = [wallet EXCEPT ![w] = r]
    BY <2>1
  <2> HIDE DEF r
  <2>5. WalletOK(r)
    BY <1>1, <2>1, <2>2, <2>3 DEF WalletOK, Requests
  <2> QED
    BY <2>2, <2>3, <2>4, <2>5, WalletMoves
<1>6. CASE Refused(w)
  <2>1. wallet[w].lease /\ wallet[w].call = "opening" /\ UNCHANGED signer
        /\ wallet[w].of \in Owner /\ owner[wallet[w].of].ready # "unused"
    BY <1>1, <1>6 DEF Refused, WalletOK, Requests, WalletSet
  <2>2. CASE Stop(wallet[w].of)
    <3>1. SignersKeep
      BY <1>1, <2>1 DEF SignersKeep
    <3> QED
      BY <2>1, <2>2, <3>1, StopMoves
  <2>3. CASE wallet' = [wallet EXCEPT ![w].request = "rejected"] /\ UNCHANGED <<current, owner>>
    <3> DEFINE r == [wallet[w] EXCEPT !.request = "rejected"]
    <3>1. /\ r \in WalletSet /\ r.call = wallet[w].call /\ r.request = "rejected"
          /\ r.of = wallet[w].of /\ r.lease = wallet[w].lease /\ r.last = wallet[w].last
      BY <1>1 DEF WalletSet
    <3>2. wallet' = [wallet EXCEPT ![w] = r]
      BY <1>1, <2>3
    <3> HIDE DEF r
    <3>3. WalletOK(r)
      BY <1>1, <2>1, <3>1 DEF WalletOK, Requests
    <3> QED
      BY <2>1, <2>3, <3>1, <3>2, <3>3, WalletMoves
  <2> QED
    BY <1>6, <2>2, <2>3 DEF Refused
<1>7. CASE Close(w)
  <2>1. PICK request \in {"none", "closing", "crashed"} :
           /\ wallet' = [wallet EXCEPT ![w] = [wallet[w] EXCEPT !.call = "closing",
                                                             !.request = request]]
           /\ wallet[w].lease <=> request # "none"
    <3>1. wallet' = [wallet EXCEPT ![w] = [wallet[w] EXCEPT !.call = "closing",
               !.request = IF wallet[w].request = "session" THEN "closing" ELSE wallet[w].request]]
      BY <1>1, <1>7 DEF Close, WalletSet
    <3>2. wallet[w].request \in IF wallet[w].lease THEN {"session", "crashed"} ELSE {"none"}
      BY <1>1, <1>7 DEF Close, WalletOK, Requests
    <3> QED
      BY <3>1, <3>2
  <2> DEFINE r == [wallet[w] EXCEPT !.call = "closing", !.request = request]
  <2>2. wallet[w].call = "open" /\ UNCHANGED <<current, owner, signer>>
    BY <1>7 DEF Close
  <2>3. /\ r \in WalletSet /\ r.call = "closing" /\ r.request = request
        /\ r.of = wallet[w].of /\ r.lease = wallet[w].lease /\ r.last = wallet[w].last
    BY <1>1 DEF WalletSet
  <2>4. wallet' = [wallet EXCEPT ![w] = r]
    BY <2>1
  <2> HIDE DEF r
  <2>5. WalletOK(r)
    BY <1>1, <2>1, <2>2, <2>3 DEF WalletOK, Requests
  <2> QED
    BY <2>2, <2>3, <2>4, <2>5, WalletMoves
<1>8. CASE OpenFails(w) \/ Closed(w)
  <2>1. /\ ~wallet[w].lease
        /\ wallet[w].last => owner[wallet[w].of].torn # "no"
        /\ wallet' = [wallet EXCEPT ![w] = NewWallet] /\ UNCHANGED <<current, owner, signer>>
    BY <1>8 DEF OpenFails, Closed, Returns, Destroyed
  <2>2. WalletOK(NewWallet) /\ ~NewWallet.lease /\ wallet[w].lease = FALSE
    BY <1>1, <2>1 DEF WalletOK, NewWallet, WalletSet
  <2> QED
    BY <2>1, <2>2, Constants, WalletMoves DEF NewWallet
<1>9. CASE StartFailed(w) \/ Abort(w) \/ Abandon(w) \/ Rejected(w) \/ SessionEnds(w)
  <2>1. wallet[w].lease
    BY <1>1, <1>9 DEF StartFailed, Abort, Abandon, Rejected, SessionEnds, WalletOK
  <2>2. CASE StartFailed(w) \/ Abort(w) \/ Rejected(w)
    BY <2>1, <2>2, ReleaseMoves DEF StartFailed, Abort, Rejected
  <2>3. CASE Abandon(w)
    BY <2>1, <2>3, ReleaseMoves DEF Abandon
  <2>4. CASE SessionEnds(w)
    <3>1. wallet[w].call \in {"open", "failing", "closing"} /\ Release(w, 0, wallet[w].call)
      BY <1>1, <2>1, <2>4 DEF SessionEnds, WalletOK, Requests
    <3> QED
      BY <2>1, <3>1, ReleaseMoves
  <2> QED
    BY <1>9, <2>2, <2>3, <2>4
<1> QED
  BY <1>2, <1>3, <1>4, <1>5, <1>6, <1>7, <1>8, <1>9 DEF Calling, Ending

\* The life of a signer.
LEMMA SigningMoves ==
    ASSUME IInv, NEW s \in Signer,
           Retain(s) \/ Dispose(s) \/ Invalidate(s) \/ LetGo(s) \/ SignerReturns(s)
    PROVE  IInv'
<1>1. signer[s] \in SignerSet /\ SignerOK(signer[s]) /\ signer \in [Signer -> SignerSet]
  BY DEF IInv, Types
<1>2. CASE Retain(s)
  BY <1>2, RetainMoves
<1>3. CASE Dispose(s)
  <2> DEFINE r == [signer[s] EXCEPT !.state = "releasing"]
  <2>1. signer' = [signer EXCEPT ![s] = r] /\ UNCHANGED <<current, owner, wallet>>
        /\ signer[s].state = "held"
    BY <1>1, <1>3 DEF Dispose
  <2>2. r \in SignerSet /\ r.of = signer[s].of /\ r.state = "releasing"
    BY <1>1 DEF SignerSet
  <2> HIDE DEF r
  <2>3. SignerOK(r)
    BY <1>1, <2>1, <2>2 DEF SignerOK
  <2> QED
    BY <2>1, <2>2, <2>3, SignerMoves
<1>4. CASE Invalidate(s)
  <2>1. signer[s].state = "releasing" /\ Stop(signer[s].of)
        /\ signer' = [signer EXCEPT ![s] = [signer[s] EXCEPT !.state = "invalid"]]
    BY <1>1, <1>4 DEF Invalidate
  <2>2. /\ [signer[s] EXCEPT !.state = "invalid"] \in SignerSet
        /\ [signer[s] EXCEPT !.state = "invalid"].of = signer[s].of
        /\ [signer[s] EXCEPT !.state = "invalid"].state = "invalid"
    BY <1>1 DEF SignerSet
  <2>3. SignersKeep
    BY <1>1, <2>1, <2>2 DEF SignersKeep
  <2>4. signer[s].of \in Owner /\ owner[signer[s].of].ready # "unused"
    BY <1>1, <2>1 DEF SignerOK
  <2> QED
    BY <2>1, <2>3, <2>4, StopMoves
<1>5. CASE LetGo(s)
  BY <1>5, LetGoMoves
<1>6. CASE SignerReturns(s)
  <2>1. /\ signer[s].state = "leaving" /\ owner[signer[s].of].torn # "no"
        /\ signer' = [signer EXCEPT ![s] = NewSigner] /\ UNCHANGED <<current, owner, wallet>>
    BY <1>6 DEF SignerReturns, Destroyed
  <2>2. SignerOK(NewSigner)
    BY DEF SignerOK, NewSigner
  <2> QED
    BY <2>1, <2>2, Constants, SignerMoves
<1> QED
  BY <1>2, <1>3, <1>4, <1>5, <1>6

-----------------------------------------------------------------------------
(* The theorems *)

LEMMA InitOK == Init => IInv
<1> SUFFICES ASSUME Init PROVE IInv
  OBVIOUS
<1>1. Types
  BY Constants DEF Init, Types
<1>2. ASSUME NEW o \in Owner PROVE owner[o] = NewOwner
  BY DEF Init
<1>3. ASSUME NEW o \in Owner PROVE WalletLeases(o) = {} /\ SignerLeases(o) = {}
  BY DEF Init, WalletLeases, SignerLeases, NewWallet, NewSigner
<1>4. ASSUME NEW o \in Owner PROVE OwnerOK(owner[o]) /\ Counted(o) /\ Awaited(o)
  <2>1. OwnerOK(owner[o])
    <3>1. OwnerOK(NewOwner)
      BY DEF OwnerOK, NewOwner
    <3> QED
      BY <1>2, <3>1
  <2>2. Counted(o)
    BY <1>2, <1>3, FS_EmptySet, WalletsAssumption DEF Counted, NewOwner
  <2>3. Awaited(o)
    BY <1>2 DEF Awaited, NewOwner
  <2> QED
    BY <2>1, <2>2, <2>3
<1>5. (\A w \in Wallet : WalletOK(wallet[w])) /\ \A s \in Signer : SignerOK(signer[s])
  BY DEF Init, WalletOK, NewWallet, SignerOK, NewSigner
<1>6. CurrentOK
  BY DEF Init, CurrentOK
<1> QED
  BY <1>1, <1>4, <1>5, <1>6 DEF IInv

\* Every step of the pool keeps the invariant.
LEMMA StepOK == IInv /\ [Next]_vars => IInv'
<1> SUFFICES ASSUME IInv, [Next]_vars PROVE IInv'
  OBVIOUS
<1>1. CASE UNCHANGED vars
  <2>1. Types' /\ CurrentOK'
    BY <1>1 DEF vars, IInv, Types, CurrentOK
  <2>2. ASSUME NEW o \in Owner PROVE OwnerOK(owner[o])' /\ Counted(o)' /\ Awaited(o)'
    <3>1. OwnerOK(owner[o]) /\ Counted(o) /\ Awaited(o)
      BY DEF IInv
    <3> QED
      BY <1>1, <3>1 DEF vars, OwnerOK, Counted, Awaited, WalletLeases, SignerLeases
  <2>3. ASSUME NEW w \in Wallet PROVE WalletOK(wallet[w])'
    BY <1>1 DEF vars, IInv, WalletOK
  <2>4. ASSUME NEW s \in Signer PROVE SignerOK(signer[s])'
    BY <1>1 DEF vars, IInv, SignerOK
  <2> QED
    BY <2>1, <2>2, <2>3, <2>4 DEF IInv
<1>2. ASSUME NEW o \in Owner, Startup(o) \/ Fails(o) \/ Teardown(o) \/ OrphanSettles(o)
      PROVE  IInv'
  <2>1. CASE Fails(o)
    <3>1. owner[o].ready # "unused" /\ Stop(o) /\ SignersKeep
      BY <2>1 DEF Fails, SignersKeep, IInv, Types
    <3> QED
      BY <3>1, StopMoves
  <2> QED
    BY <1>2, <2>1, StartupMoves, TeardownMoves, OrphanMoves
<1> QED
  BY <1>1, <1>2, CallMoves, SigningMoves DEF Next, Quiet

LEMMA Invariance == Spec => []IInv
BY InitOK, StepOK, PTL DEF Spec

\* On every path that ends an opening, a session or a signer one lease and one slot come
\* back, and no owner serves more wallets than its limit: for any number of wallets and
\* signers, release(), releaseOwner() and the orphans of abandoned openings add up.
THEOREM LeasesAreExact == Spec => []LeasesExact
<1>1. ASSUME IInv PROVE LeasesExact
  <2>1. ASSUME NEW o \in Owner
        PROVE  Wallets(o) = Cardinality(WalletLeases(o)) /\ Signers(o) = Cardinality(SignerLeases(o))
    BY DEF Wallets, Signers, WalletLeases, SignerLeases
  <2> QED
    BY <1>1, <2>1 DEF IInv, Counted, LeasesExact
<1> QED
  BY <1>1, Invariance, PTL

\* The owner that owners.get() finds is leased and has not stopped since it was admitted,
\* and an owner whose signal was aborted has no lease and never gets one again.
THEOREM AbortedIsNotHandedOut == Spec => []NotHandedOut
<1>1. ASSUME IInv PROVE NotHandedOut
  BY <1>1 DEF IInv, OwnerOK, CurrentOK, NotHandedOut
<1> QED
  BY <1>1, Invariance, PTL

\* The workers of two attempts of a start never run together, and when the last user of an
\* owner has returned, its workers have been terminated or one could not be.
THEOREM NoWorkerStrays == Spec => []NoStrayWorker
<1>1. ASSUME IInv PROVE NoStrayWorker
  <2>1. ASSUME NEW o \in Owner
        PROVE  ~({"baseline", "threaded"} \subseteq owner[o].live)
               /\ ~({"baseline", "compute"} \subseteq owner[o].live)
    <3>1. owner[o].live \subseteq {"baseline"} \/ owner[o].live \subseteq {"threaded", "compute"}
      BY <1>1 DEF IInv, OwnerOK
    <3> QED
      BY <3>1
  <2>2. ASSUME NEW o \in Owner, owner[o].ready # "unused", owner[o].refs = 0,
               \A w \in Wallet : wallet[w].of # o, \A s \in Signer : signer[s].of # o
        PROVE  owner[o].live = {} \/ owner[o].torn = "failed"
    <3>1. owner[o] \in OwnerSet /\ OwnerOK(owner[o]) /\ Awaited(o)
      BY <1>1 DEF IInv, Types
    <3>2. owner[o].torn # "no"
      BY <2>2, <3>1 DEF OwnerOK, Awaited
    <3> QED
      BY <3>1, <3>2 DEF OwnerOK, OwnerSet
  <2> QED
    BY <2>1, <2>2 DEF NoStrayWorker
<1> QED
  BY <1>1, Invariance, PTL
=============================================================================
