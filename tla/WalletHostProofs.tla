-------------------------- MODULE WalletHostProofs --------------------------
(***************************************************************************)
(* Proofs about the call queue, for any ports, calls and limits.           *)
(*                                                                         *)
(* The inductive invariant IInv adds to the type invariant what the        *)
(* handlers rely on: every job stands where the queues, the active slots   *)
(* and the wire say it does, at most one port of the owner is busy, an     *)
(* answer tells what the engine did, a caller has been told nothing else,  *)
(* and the job counter is exact.  There is a lemma for each action, built  *)
(* on a few about the steps that handlers share: taking a job out of a     *)
(* queue, releasing it, pumping.                                           *)
(*                                                                         *)
(* Three parts follow, which rest on this invariant: that the queue        *)
(* implements CallReceipts, two promises about its order, that no wake-up  *)
(* is lost and that close() drains its port, and that the budget's sums    *)
(* are exact.                                                              *)
(***************************************************************************)
EXTENDS WalletHost, FiniteSetTheorems, SequenceTheorems, WellFoundedInduction, TLAPS

\* Splicing one element out of a sequence.
LEMMA RemoveAtProperties ==
    ASSUME NEW S, NEW s \in Seq(S), NEW i \in DOMAIN s
    PROVE  /\ RemoveAt(s, i) \in Seq(S)
           /\ Len(RemoveAt(s, i)) = Len(s) - 1
           /\ \A j \in 1..(Len(s) - 1) :
                 RemoveAt(s, i)[j] = IF j < i THEN s[j] ELSE s[j+1]
<1> DEFINE a == SubSeq(s, 1, i-1)
           b == SubSeq(s, i+1, Len(s))
<1>1. i \in 1..Len(s) /\ Len(s) \in Nat
  OBVIOUS
<1>2. a \in Seq(S) /\ b \in Seq(S)
  BY <1>1, SubSeqProperties
<1>3. Len(a) = i - 1 /\ Len(b) = Len(s) - i
  BY <1>1, SubSeqProperties
<1>4. RemoveAt(s, i) = a \o b
  BY DEF RemoveAt
<1>5. \A j \in 1..(Len(s) - i) : b[j] = s[i+j]
  BY <1>1, SubSeqProperties
<1>6. \A j \in 1..(i - 1) : a[j] = s[j]
  BY <1>1, SubSeqProperties
<1> HIDE DEF a, b
<1>7. /\ a \o b \in Seq(S)
      /\ Len(a \o b) = Len(a) + Len(b)
      /\ \A j \in 1..(Len(a) + Len(b)) :
            (a \o b)[j] = IF j <= Len(a) THEN a[j] ELSE b[j - Len(a)]
  BY <1>2, ConcatProperties
<1>8. ASSUME NEW j \in 1..(Len(s) - 1)
      PROVE  (a \o b)[j] = IF j < i THEN s[j] ELSE s[j+1]
  <2>1. CASE j < i
    <3>0. j \in 1..(Len(a) + Len(b)) /\ j <= Len(a)
      BY <1>1, <1>3, <2>1
    <3>1. (a \o b)[j] = a[j]
      BY <1>7, <3>0
    <3>2. a[j] = s[j]
      BY <1>1, <1>6, <2>1
    <3>. QED  BY <2>1, <3>1, <3>2
  <2>2. CASE ~(j < i)
    <3>0. j \in 1..(Len(a) + Len(b)) /\ ~(j <= Len(a))
      BY <1>1, <1>3, <2>2
    <3>1. (a \o b)[j] = b[j - (i - 1)]
      BY <1>3, <1>7, <3>0
    <3>3. j - (i - 1) \in 1..(Len(s) - i)
      BY <1>1, <2>2
    <3>2. i + (j - (i - 1)) = j + 1
      BY <1>1
    <3>. QED  BY <1>5, <2>2, <3>1, <3>2, <3>3
  <2>. QED  BY <2>1, <2>2
<1>9. RemoveAt(s, i) \in Seq(S)
  BY <1>4, <1>7
<1>10. Len(RemoveAt(s, i)) = Len(s) - 1
  <2>1. Len(a \o b) = Len(s) - 1
    BY <1>1, <1>3, <1>7
  <2>. QED  BY <1>4, <2>1
<1>11. \A j \in 1..(Len(s) - 1) : RemoveAt(s, i)[j] = IF j < i THEN s[j] ELSE s[j+1]
  BY <1>4, <1>8
<1>. QED  BY <1>9, <1>10, <1>11

-----------------------------------------------------------------------------
(***************************************************************************)
(* The inductive invariant.  Its scheduling part is stated over the        *)
(* components a handler computes before it pumps, so that one lemma about  *)
(* PumpAfter serves every handler that ends in pump().                     *)
(***************************************************************************)
Stage == {"idle", "queued", "active"} \cup Settlement

\* A queue holds distinct queued calls of its own port.
QueueOK(st, Q) ==
    /\ \A p \in Port : \A i \in DOMAIN Q[p] :
          st[Q[p][i]] = "queued" /\ req[Q[p][i]].port = p
    /\ \A p \in Port : \A i, j \in DOMAIN Q[p] : Q[p][i] = Q[p][j] => i = j

\* The active calls are exactly the calls the ports have posted, one at most,
\* and the shared flag tells.
ActiveOK(st, A, sh) ==
    /\ \A p \in Port : A[p] # NoCall => st[A[p]] = "active" /\ req[A[p]].port = p
    /\ \A c \in Call : st[c] = "active" => A[req[c].port] = c
    /\ \A p1, p2 \in Port : p1 # p2 => A[p1] = NoCall \/ A[p2] = NoCall
    /\ sh.active <=> \E p \in Port : A[p] # NoCall

\* What is on a wire has not run; it is the port's active call, or the whole
\* owner has crashed and the call was reported as unknown.
WireOK(st, A, W, stp, eff) ==
    \A p \in Port : W[p] # NoCall =>
        /\ req[W[p]].port = p
        /\ W[p] \notin eff
        /\ W[p] = A[p] \/ (st[W[p]] = "unknown" /\ stp = Port)

WireExclusive(W) ==
    \A p1, p2 \in Port : p1 # p2 => W[p1] = NoCall \/ W[p2] = NoCall

\* Only a call that was posted has had an effect.
EffectOK(st, eff) ==
    \A c \in eff : st[c] \in {"active", "ok", "committed", "unknown"}

Sched(st, Q, A, sh, W, stp, eff) ==
    /\ QueueOK(st, Q)
    /\ ActiveOK(st, A, sh)
    /\ WireOK(st, A, W, stp, eff)
    /\ WireExclusive(W)
    /\ EffectOK(st, eff)

\* An answer on its way to a live port is about its active call, nothing else
\* is on the wire, and what the answer says is true.
ReplyOK ==
    \A p \in Port : reply[p].call # NoCall /\ p \notin stopped =>
        /\ reply[p].call = active[p]
        /\ wire[p] = NoCall
        /\ reply[p].completion = "none" => reply[p].call \notin effect
        /\ reply[p].completion = "committed" => reply[p].call \in effect
        /\ reply[p].ok => (Durable(reply[p].call) => reply[p].call \in effect)

\* What settled calls were told is true.
ToldOK ==
    \A c \in Call :
        /\ status[c] = "committed" => c \in effect
        /\ status[c] = "ok" /\ Durable(c) => c \in effect

HInv ==
    /\ Sched(status, queue, active, shared, wire, stopped, effect)
    /\ ReplyOK
    /\ ToldOK

\* The part of TypeOK that handlers pass on to pump().
SchedType(st, Q, A, sh, W) ==
    /\ st \in [Call -> Stage]
    /\ Q \in [Port -> Seq(Call)]
    /\ A \in [Port -> Call \cup {NoCall}]
    /\ W \in [Port -> Call \cup {NoCall}]
    /\ DOMAIN sh = {"jobs", "bytes", "active"}
    /\ sh.active \in BOOLEAN

\* g is f with x in the place of p.
Updated(g, f, p, x) == g = [f EXCEPT ![p] = x]

\* pump() keeps the scheduling invariant that its handler established.
LEMMA PumpSched ==
    ASSUME NEW p \in Port, NEW st, NEW q, NEW rdy, NEW act, NEW budget, NEW Q, NEW A,
           Updated(Q, queue, p, q), Updated(A, active, p, act),
           queue \in [Port -> Seq(Call)],
           active \in [Port -> Call \cup {NoCall}],
           req \in [Call -> Request],
           q \in Seq(Call), act \in Call \cup {NoCall},
           SchedType(st, Q, A, budget, wire),
           Sched(st, Q, A, budget, wire, stopped, effect),
           PumpAfter(p, st, q, rdy, act, budget)
    PROVE  /\ SchedType(status', queue', active', shared', wire')
           /\ Sched(status', queue', active', shared', wire', stopped, effect)
           /\ shared'.jobs = budget.jobs /\ shared'.bytes = budget.bytes
           /\ \A c \in Call :
              status'[c] = st[c] \/ (st[c] = "queued" /\ status'[c] = "active")
           /\ \A o \in Port \ {p} : active'[o] = active[o] /\ wire'[o] = wire[o]
           /\ act # NoCall => active'[p] = act /\ wire'[p] = wire[p]
<1> USE DEF Updated
<1>0. Q[p] = q /\ A[p] = act
  OBVIOUS
<1>1. CASE ~CanPost(p, q, rdy, act, budget.active)
  <2>1. /\ status' = st /\ queue' = Q /\ active' = A /\ shared' = budget /\ wire' = wire
    BY <1>1 DEF PumpAfter
  <2>2. \A o \in Port \ {p} : A[o] = active[o]
    OBVIOUS
  <2>. QED  BY <1>0, <2>1, <2>2
<1>2. CASE CanPost(p, q, rdy, act, budget.active)
  <2> DEFINE h == Head(q)
  <2>1. /\ status' = [st EXCEPT ![h] = "active"]
        /\ queue' = [queue EXCEPT ![p] = Tail(q)]
        /\ active' = [active EXCEPT ![p] = h]
        /\ shared' = [budget EXCEPT !.active = TRUE]
        /\ wire' = [wire EXCEPT ![p] = h]
    BY <1>2 DEF PumpAfter
  <2>2. /\ act = NoCall /\ p \notin stopped /\ ~budget.active
        /\ q # <<>>
    BY <1>2 DEF CanPost
  <2>3. /\ h \in Call /\ Tail(q) \in Seq(Call)
        /\ h = q[1] /\ 1 \in DOMAIN q
        /\ Len(Tail(q)) = Len(q) - 1
        /\ \A i \in 1..(Len(q) - 1) : Tail(q)[i] = q[i+1]
        /\ DOMAIN Tail(q) = 1..(Len(q) - 1) /\ DOMAIN q = 1..Len(q)
        /\ Len(q) \in Nat
    BY <2>2, HeadTailProperties
  <2> HIDE DEF h
  <2>4. st[h] = "queued" /\ req[h].port = p
    BY <1>0, <2>3 DEF Sched, QueueOK
  <2>5. \A o \in Port : A[o] = NoCall
    BY <2>2 DEF Sched, ActiveOK
  <2>6. \A o \in Port : wire[o] = NoCall
    BY <2>2, <2>5, CallAssumption DEF Sched, WireOK, SchedType
  <2>7. h \notin effect
    BY <2>4 DEF Sched, EffectOK
  <2>8. SchedType(status', queue', active', shared', wire')
    BY <2>1, <2>3 DEF SchedType, Stage
  <2>9. QueueOK(status', queue')
    <3>1. ASSUME NEW o \in Port, NEW i \in DOMAIN queue'[o]
          PROVE  status'[queue'[o][i]] = "queued" /\ req[queue'[o][i]].port = o
      <4>1. CASE o = p
        <5>1. queue'[o] = Tail(q) /\ i \in 1..(Len(q) - 1)
          BY <2>1, <2>3, <4>1
        <5>2. queue'[o][i] = q[i+1] /\ i+1 \in DOMAIN q /\ i+1 # 1
          BY <2>3, <5>1
        <5>3. q[i+1] # h /\ st[q[i+1]] = "queued" /\ req[q[i+1]].port = p
          BY <1>0, <2>3, <5>2 DEF Sched, QueueOK
        <5>4. q[i+1] \in Call
          BY <5>2
        <5>. QED  BY <2>1, <4>1, <5>2, <5>3, <5>4 DEF SchedType
      <4>2. CASE o # p
        <5>1. queue'[o] = Q[o] /\ i \in DOMAIN Q[o]
          BY <2>1, <4>2
        <5>2. st[Q[o][i]] = "queued" /\ req[Q[o][i]].port = o
          BY <5>1 DEF Sched, QueueOK
        <5>3. Q[o][i] \in Call /\ Q[o][i] # h
          BY <2>4, <4>2, <5>1, <5>2 DEF SchedType
        <5>. QED  BY <2>1, <5>1, <5>2, <5>3 DEF SchedType
      <4>. QED  BY <4>1, <4>2
    <3>2. ASSUME NEW o \in Port, NEW i \in DOMAIN queue'[o], NEW j \in DOMAIN queue'[o],
                 queue'[o][i] = queue'[o][j]
          PROVE  i = j
      <4>1. CASE o = p
        <5>1. /\ queue'[o] = Tail(q)
              /\ i \in 1..(Len(q) - 1) /\ j \in 1..(Len(q) - 1)
          BY <2>1, <2>3, <4>1
        <5>2. q[i+1] = q[j+1] /\ i+1 \in DOMAIN q /\ j+1 \in DOMAIN q
          BY <2>3, <3>2, <5>1
        <5>3. i+1 = j+1
          BY <1>0, <5>2 DEF Sched, QueueOK
        <5>. QED  BY <5>1, <5>3
      <4>2. CASE o # p
        BY <2>1, <3>2, <4>2 DEF Sched, QueueOK
      <4>. QED  BY <4>1, <4>2
    <3>. QED  BY <3>1, <3>2 DEF QueueOK
  <2>10. ActiveOK(status', active', shared')
    <3>1. active'[p] = h /\ \A o \in Port \ {p} : active'[o] = A[o]
      BY <2>1
    <3>2. shared'.active = TRUE
      BY <2>1 DEF SchedType
    <3>3. ASSUME NEW c \in Call, status'[c] = "active" PROVE c = h
      <4>1. SUFFICES ASSUME c # h PROVE FALSE
        OBVIOUS
      <4>2. st[c] = "active"
        BY <2>1, <3>3, <4>1 DEF SchedType
      <4>3. req[c].port \in Port
        BY RequestAssumption
      <4>. QED  BY <2>5, <4>2, <4>3, CallAssumption DEF Sched, ActiveOK
    <3>4. status'[h] = "active"
      BY <2>1, <2>3 DEF SchedType
    <3>5. h # NoCall
      BY <2>3, CallAssumption
    <3>6. \A o \in Port : active'[o] # NoCall => o = p
      BY <2>5, <3>1
    <3>7. \A c \in Call : status'[c] = "active" => active'[req[c].port] = c
      BY <2>4, <3>1, <3>3
    <3>8. \A o \in Port : active'[o] # NoCall => status'[active'[o]] = "active" /\ req[active'[o]].port = o
      BY <2>4, <3>1, <3>4, <3>6
    <3>9. \A o1, o2 \in Port : o1 # o2 => active'[o1] = NoCall \/ active'[o2] = NoCall
      BY <3>6
    <3>10. shared'.active <=> \E o \in Port : active'[o] # NoCall
      BY <3>1, <3>2, <3>5
    <3>. QED  BY <3>7, <3>8, <3>9, <3>10 DEF ActiveOK
  <2>11. WireOK(status', active', wire', stopped, effect) /\ WireExclusive(wire')
    BY <2>1, <2>4, <2>6, <2>7 DEF WireOK, WireExclusive, SchedType
  <2>12. EffectOK(status', effect)
    BY <2>1, <2>7 DEF Sched, EffectOK, SchedType
  <2>13. shared'.jobs = budget.jobs /\ shared'.bytes = budget.bytes
    BY <2>1 DEF SchedType
  <2>14. \A c \in Call :
              status'[c] = st[c] \/ (st[c] = "queued" /\ status'[c] = "active")
    BY <2>1, <2>4 DEF SchedType
  <2>15. \A o \in Port \ {p} : active'[o] = active[o] /\ wire'[o] = wire[o]
    BY <2>1 DEF SchedType
  <2>. QED  BY <2>2, <2>8, <2>9, <2>10, <2>11, <2>12, <2>13, <2>14, <2>15 DEF Sched
<1>. QED  BY <1>1, <1>2

\* The job counter equals what is outstanding, the close control apart.
JobsOK == shared.jobs = Cardinality(Counted)

IInv == TypeOK /\ HInv /\ JobsOK

\* What a step other than the making of a call does to the jobs and bytes that are
\* reserved: nothing, or one job leaves, whose bytes the owner gets back.
Made == {c \in Call : status[c] # "idle"}
Keeps == Made' = Made /\ Outstanding' = Outstanding /\ shared'.bytes = shared.bytes
Frees(c) ==
    /\ c \in Outstanding
    /\ Made' = Made /\ Outstanding' = Outstanding \ {c}
    /\ shared'.bytes = Released(c).bytes

\* A request has a kind and a size, for any constants.
LEMMA RequestType ==
    ASSUME req \in [Call -> Request], NEW c \in Call
    PROVE  /\ req[c].port \in Port /\ req[c].kind \in Kind
           /\ req[c].size \in Nat /\ req[c].signal \in BOOLEAN
BY RequestAssumption

\* Only finitely many jobs are ever outstanding, so they can be counted.
LEMMA CountedFinite == IsFiniteSet(Counted) /\ Cardinality(Counted) \in Nat
<1>1. Counted \in SUBSET Call
  BY DEF Counted, Outstanding
<1>. QED  BY <1>1, CallAssumption, FS_Subset, FS_CardinalityType

\* release() takes exactly the released job out of the counter.
LEMMA ReleasedJobs ==
    ASSUME JobsOK, NEW c \in Outstanding
    PROVE  Released(c).jobs = Cardinality(Counted \ {c})
<1>1. CASE req[c].kind = "close"
  <2>1. Counted \ {c} = Counted
    BY <1>1 DEF Counted
  <2>. QED  BY <1>1, <2>1 DEF Released, JobsOK
<1>2. CASE req[c].kind # "close"
  <2>1. c \in Counted
    BY <1>2 DEF Counted
  <2>2. Cardinality(Counted \ {c}) = Cardinality(Counted) - 1
    BY <2>1, CountedFinite, FS_RemoveElement
  <2>. QED  BY <1>2, <2>2 DEF Released, JobsOK
<1>. QED  BY <1>1, <1>2

\* The scheduling conditions are typed by the type invariant.
LEMMA TypeSched ==
    ASSUME TypeOK PROVE SchedType(status, queue, active, shared, wire)
BY DEF TypeOK, SchedType, Stage, Settlement

\* Putting the type invariant together after a step that pumps.
LEMMA TypeAgain ==
    ASSUME TypeOK, SchedType(status', queue', active', shared', wire'),
           shared'.jobs \in Nat,
           req' = req, reply' \in [Port -> [call : Call \cup {NoCall}, ok : BOOLEAN,
                           completion : {"none", "committed", "unknown"},
                           invalid : BOOLEAN]],
           ready' \subseteq Call, cancelled' \subseteq Call, tokens' \subseteq Call,
           effect' \subseteq Call, wake' \in BOOLEAN,
           id' = id, nextId' = nextId, lastId' = lastId, closing' = closing,
           stopped' \subseteq Port, stopped \subseteq stopped', destroyed' = destroyed
    PROVE  TypeOK'
BY DEF TypeOK, SchedType, Stage, Settlement

\* What a handler established of the values it computed holds of the next state.
LEMMA SchedAgain ==
    ASSUME Sched(status', queue', active', shared', wire', stopped, effect),
           req' = req, effect' = effect, stopped' \subseteq Port, stopped \subseteq stopped'
    PROVE  Sched(status, queue, active, shared, wire, stopped, effect)'
<1>1. QueueOK(status, queue)'
  BY DEF Sched, QueueOK
<1>2. ActiveOK(status, active, shared)'
  BY DEF Sched, ActiveOK
<1>3. WireOK(status, active, wire, stopped, effect)'
  BY DEF Sched, WireOK
<1>4. WireExclusive(wire)' /\ EffectOK(status, effect)'
  BY DEF Sched, WireExclusive, EffectOK
<1>. QED  BY <1>1, <1>2, <1>3, <1>4 DEF Sched

\* The answers on their way stay true when handlers touch only idle ports.
LEMMA ReplyAgain ==
    ASSUME ReplyOK, req' = req, stopped \subseteq stopped', effect' = effect,
           \A p \in Port : p \notin stopped' /\ reply'[p].call # NoCall =>
              /\ reply'[p] = reply[p]
              /\ active'[p] = active[p]
              /\ wire'[p] = wire[p]
    PROVE  ReplyOK'
BY DEF ReplyOK, Durable

\* Taking a job out of a queue, releasing it and pumping keeps the invariant (the abort
\* callback and the failed watch of call()).
LEMMA UnqueueStep ==
    ASSUME IInv, NEW c \in Call, Unqueue(c), cancelled' \subseteq Call
    PROVE  IInv' /\ Frees(c)
<1>1. PICK p, st, act, budget, rdy :
         /\ p = req[c].port
         /\ rdy = ready
         /\ st = [status EXCEPT ![c] = "none"]
         /\ act = active[p]
         /\ budget = Released(c)
  OBVIOUS
<1>2. PICK q :
         /\ \E i \in DOMAIN queue[p] : queue[p][i] = c /\ q = RemoveAt(queue[p], i)
         /\ PumpAfter(p, st, q, rdy, act, budget)
  BY <1>1 DEF Unqueue
<1>3. PICK Q, A : Updated(Q, queue, p, q) /\ Updated(A, active, p, act)
  BY DEF Updated
<1>4. /\ p \in Port
      /\ queue \in [Port -> Seq(Call)] /\ queue[p] \in Seq(Call)
      /\ active \in [Port -> Call \cup {NoCall}] /\ act \in Call \cup {NoCall}
      /\ req \in [Call -> Request]
  BY <1>1, RequestType DEF IInv, TypeOK
<1>5. /\ q \in Seq(Call) /\ status[c] = "queued"
      /\ \A j \in DOMAIN q : q[j] # c /\ status[q[j]] = "queued" /\ req[q[j]].port = p
      /\ \A j, k \in DOMAIN q : q[j] = q[k] => j = k
  <2>1. PICK i \in DOMAIN queue[p] : queue[p][i] = c /\ q = RemoveAt(queue[p], i)
    BY <1>2
  <2>2. /\ q \in Seq(Call)
        /\ Len(q) = Len(queue[p]) - 1
        /\ \A j \in 1..(Len(queue[p]) - 1) : q[j] = IF j < i THEN queue[p][j] ELSE queue[p][j+1]
    BY <2>1, <1>4, RemoveAtProperties
  <2>3. /\ i \in 1..Len(queue[p]) /\ DOMAIN queue[p] = 1..Len(queue[p]) /\ Len(queue[p]) \in Nat
        /\ DOMAIN q = 1..(Len(queue[p]) - 1)
    BY <1>4, <2>1, <2>2
  <2>4. ASSUME NEW j \in DOMAIN q
        PROVE  \E k \in DOMAIN queue[p] : k # i /\ q[j] = queue[p][k] /\ k = IF j < i THEN j ELSE j+1
    <3>1. CASE j < i
      BY <2>2, <2>3, <3>1
    <3>2. CASE ~(j < i)
      BY <2>2, <2>3, <3>2
    <3>. QED  BY <3>1, <3>2
  <2>5. /\ status[c] = "queued"
        /\ \A k \in DOMAIN queue[p] : k # i => queue[p][k] # c
    BY <1>4, <2>1 DEF IInv, HInv, Sched, QueueOK
  <2>6. \A j \in DOMAIN q : q[j] # c /\ status[q[j]] = "queued" /\ req[q[j]].port = p
    BY <1>4, <2>4, <2>5 DEF IInv, HInv, Sched, QueueOK
  <2>7. ASSUME NEW j \in DOMAIN q, NEW k \in DOMAIN q, q[j] = q[k] PROVE j = k
    <3>1. PICK j1 \in DOMAIN queue[p] : q[j] = queue[p][j1] /\ j1 = IF j < i THEN j ELSE j+1
      BY <2>4
    <3>2. PICK k1 \in DOMAIN queue[p] : q[k] = queue[p][k1] /\ k1 = IF k < i THEN k ELSE k+1
      BY <2>4
    <3>0. \A x, y \in DOMAIN queue[p] : queue[p][x] = queue[p][y] => x = y
      BY <1>4 DEF IInv, HInv, Sched, QueueOK
    <3>3. j1 = k1
      BY <2>7, <3>0, <3>1, <3>2
    <3>. QED  BY <2>3, <3>1, <3>2, <3>3
  <2>. QED  BY <2>2, <2>5, <2>6, <2>7
<1>6. st[c] = "none" /\ \A d \in Call : d # c => st[d] = status[d]
  BY <1>1 DEF IInv, TypeOK
<1>7. A = active
  BY <1>1, <1>3, <1>4 DEF Updated
<1>8. active[p] # c /\ budget.active = shared.active
  <2>1. active[p] # NoCall => status[active[p]] = "active"
    BY <1>4 DEF IInv, HInv, Sched, ActiveOK
  <2>2. active[p] # c
    BY <1>5, <2>1, CallAssumption
  <2>. QED  BY <1>1, <2>2 DEF Released
<1>9. SchedType(st, Q, A, budget, wire)
  BY <1>1, <1>3, <1>4, <1>5, <1>7, <1>8
     DEF IInv, TypeOK, SchedType, Stage, Settlement, Released, Updated
<1>10. QueueOK(st, Q)
  <2>1. ASSUME NEW o \in Port, o # p, NEW j \in DOMAIN queue[o]
        PROVE  queue[o][j] # c /\ queue[o][j] \in Call
    BY <1>1, <1>4, <2>1 DEF IInv, HInv, Sched, QueueOK
  <2>2. Q[p] = q /\ \A o \in Port : o # p => Q[o] = queue[o]
    BY <1>3, <1>4 DEF Updated
  <2>3. \A j \in DOMAIN q : q[j] \in Call
    BY <1>5
  <2>4. \A o \in Port : \A j \in DOMAIN Q[o] : st[Q[o][j]] = "queued" /\ req[Q[o][j]].port = o
    BY <1>5, <1>6, <2>1, <2>2, <2>3 DEF IInv, HInv, Sched, QueueOK
  <2>5. \A o \in Port : \A j, k \in DOMAIN Q[o] : Q[o][j] = Q[o][k] => j = k
    BY <1>5, <2>2 DEF IInv, HInv, Sched, QueueOK
  <2>. QED  BY <2>4, <2>5 DEF QueueOK
<1>11. Sched(st, Q, A, budget, wire, stopped, effect)
  <2>1. ActiveOK(st, A, budget)
    <3>1. \A o \in Port : active[o] # NoCall =>
             active[o] \in Call /\ status[active[o]] = "active" /\ req[active[o]].port = o
      BY <1>4 DEF IInv, HInv, Sched, ActiveOK
    <3>2. \A o \in Port : active[o] # NoCall => st[active[o]] = "active"
      BY <1>5, <1>6, <3>1
    <3>3. \A d \in Call : st[d] = "active" => status[d] = "active"
      BY <1>5, <1>6
    <3>. QED  BY <1>7, <1>8, <3>1, <3>2, <3>3 DEF IInv, HInv, Sched, ActiveOK
  <2>2. WireOK(st, A, wire, stopped, effect) /\ WireExclusive(wire)
    BY <1>5, <1>6, <1>7 DEF IInv, HInv, TypeOK, Sched, WireOK
  <2>3. EffectOK(st, effect)
    BY <1>5, <1>6 DEF IInv, HInv, TypeOK, Sched, EffectOK
  <2>. QED  BY <1>10, <2>1, <2>2, <2>3 DEF Sched
<1>12. /\ SchedType(status', queue', active', shared', wire')
       /\ Sched(status', queue', active', shared', wire', stopped, effect)
       /\ shared'.jobs = budget.jobs /\ shared'.bytes = budget.bytes
       /\ \A d \in Call : status'[d] = st[d] \/ (st[d] = "queued" /\ status'[d] = "active")
       /\ \A o \in Port \ {p} : active'[o] = active[o] /\ wire'[o] = wire[o]
       /\ act # NoCall => active'[p] = act /\ wire'[p] = wire[p]
  <2>1. q \in Seq(Call)
    BY <1>5
  <2>2. PumpAfter(p, st, q, rdy, act, budget)
    BY <1>2
  <2>. QED  BY <1>3, <1>4, <1>9, <1>11, <2>1, <2>2, PumpSched
<1>13. /\ req' = req /\ stopped' = stopped /\ effect' = effect /\ reply' = reply
       /\ tokens' = tokens /\ wake' = TRUE /\ ready' = ready
       /\ id' = id /\ nextId' = nextId /\ lastId' = lastId /\ closing' = closing
       /\ destroyed' = destroyed
  BY DEF Unqueue, PumpAfter
<1>14. Frees(c) /\ Counted' = Counted \ {c}
  <2>1. \A d \in Call : status'[d] \in {"queued", "active"} <=>
                          d # c /\ status[d] \in {"queued", "active"}
    BY <1>6, <1>12
  <2>2. c \in Outstanding /\ Outstanding' = Outstanding \ {c}
    BY <1>5, <2>1 DEF Outstanding
  <2>3. Made' = Made
    BY <1>5, <1>6, <1>12 DEF Made
  <2>. QED  BY <1>1, <1>12, <1>13, <2>2, <2>3 DEF Counted, Frees
<1>15. JobsOK'
  <2>1. c \in Outstanding
    BY <1>14 DEF Frees
  <2>. QED  BY <1>1, <1>12, <1>14, <2>1, ReleasedJobs DEF IInv, JobsOK
<1>16. TypeOK'
  <2>1. shared'.jobs \in Nat
    <3>1. IsFiniteSet(Counted \ {c})
      BY CountedFinite, FS_RemoveElement
    <3>2. Cardinality(Counted') \in Nat
      BY <1>14, <3>1, FS_CardinalityType
    <3>. QED  BY <1>15, <3>2 DEF JobsOK
  <2>. QED  BY <1>12, <1>13, <2>1, TypeAgain DEF IInv, TypeOK
<1>17. HInv'
  <2>1. ReplyOK'
    <3>1. \A o \in Port : o \notin stopped' /\ reply'[o].call # NoCall =>
            /\ reply'[o] = reply[o] /\ active'[o] = active[o] /\ wire'[o] = wire[o]
      BY <1>1, <1>12, <1>13 DEF IInv, HInv, ReplyOK
    <3>. QED  BY <1>13, <3>1, ReplyAgain DEF IInv, HInv
  <2>2. ToldOK'
    BY <1>6, <1>12, <1>13 DEF IInv, HInv, ToldOK, TypeOK, Durable
  <2>3. Sched(status, queue, active, shared, wire, stopped, effect)'
    BY <1>12, <1>13, SchedAgain DEF IInv, TypeOK
  <2>. QED  BY <2>1, <2>2, <2>3 DEF HInv
<1>. QED  BY <1>14, <1>15, <1>16, <1>17 DEF IInv

\* The components a pump finds when its handler changed none of them.
AsTheyAre(p, st, q, act, budget) ==
    st = status /\ q = queue[p] /\ act = active[p] /\ budget = shared

\* A handler that only pumps.
LEMMA PumpStep ==
    ASSUME IInv, NEW p \in Port, NEW st, NEW q, NEW rdy, NEW act, NEW budget,
           AsTheyAre(p, st, q, act, budget),
           PumpAfter(p, st, q, rdy, act, budget),
           ready' \subseteq Call, wake' \in BOOLEAN,
           UNCHANGED <<req, cancelled, id, nextId, bytes, tokens, closing,
                       stopped, destroyed, reply, lastId, effect>>
    PROVE  IInv' /\ Keeps
<1>1. /\ queue \in [Port -> Seq(Call)] /\ q \in Seq(Call)
      /\ active \in [Port -> Call \cup {NoCall}] /\ act \in Call \cup {NoCall}
      /\ req \in [Call -> Request]
  BY DEF IInv, TypeOK, AsTheyAre
<1>2. PICK Q, A : Updated(Q, queue, p, q) /\ Updated(A, active, p, act)
  BY DEF Updated
<1>3. Q = queue /\ A = active /\ st = status /\ budget = shared /\ act = active[p]
  BY <1>1, <1>2 DEF Updated, AsTheyAre
<1>4. /\ SchedType(st, Q, A, budget, wire)
      /\ Sched(st, Q, A, budget, wire, stopped, effect)
  BY <1>3, TypeSched DEF IInv, HInv
<1>5. /\ SchedType(status', queue', active', shared', wire')
      /\ Sched(status', queue', active', shared', wire', stopped, effect)
      /\ shared'.jobs = budget.jobs /\ shared'.bytes = budget.bytes
      /\ \A d \in Call : status'[d] = st[d] \/ (st[d] = "queued" /\ status'[d] = "active")
      /\ \A o \in Port \ {p} : active'[o] = active[o] /\ wire'[o] = wire[o]
      /\ act # NoCall => active'[p] = act /\ wire'[p] = wire[p]
  BY <1>1, <1>2, <1>4, PumpSched
<1>6. Keeps /\ Counted' = Counted
  <2>1. \A d \in Call : status'[d] \in {"queued", "active"} <=> status[d] \in {"queued", "active"}
    BY <1>3, <1>5
  <2>2. Made' = Made
    BY <1>3, <1>5 DEF Made
  <2>. QED  BY <1>3, <1>5, <2>1, <2>2 DEF Counted, Outstanding, Keeps
<1>7. JobsOK'
  BY <1>3, <1>5, <1>6 DEF IInv, JobsOK
<1>8. TypeOK'
  <2>1. shared'.jobs \in Nat
    BY <1>3, <1>5 DEF IInv, TypeOK
  <2>. QED  BY <1>5, <2>1, TypeAgain DEF IInv, TypeOK
<1>9. ReplyOK'
  <2>1. \A o \in Port : o \notin stopped' /\ reply'[o].call # NoCall =>
          /\ reply'[o] = reply[o] /\ active'[o] = active[o] /\ wire'[o] = wire[o]
    BY <1>3, <1>5 DEF IInv, HInv, ReplyOK
  <2>. QED  BY <2>1, ReplyAgain DEF IInv, HInv
<1>10. ToldOK'
  BY <1>3, <1>5 DEF IInv, HInv, ToldOK, Durable
<1>11. Sched(status, queue, active, shared, wire, stopped, effect)'
  BY <1>5, SchedAgain DEF IInv, TypeOK
<1>. QED  BY <1>6, <1>7, <1>8, <1>9, <1>10, <1>11 DEF IInv, HInv

\* The installation of the abort listener keeps the invariant.
LEMMA WatchedStep ==
    ASSUME IInv, NEW c \in Call, Watched(c)
    PROVE  IInv' /\ Keeps
<1>1. PICK p, st, q, rdy, act, budget :
         /\ p = req[c].port /\ rdy = ready \cup {c}
         /\ AsTheyAre(p, st, q, act, budget)
         /\ PumpAfter(p, st, q, rdy, act, budget)
  BY DEF Watched, AsTheyAre
<1>2. p \in Port /\ ready' = ready \cup {c} /\ ready \subseteq Call /\ wake \in BOOLEAN
  BY <1>1, RequestType DEF IInv, TypeOK, PumpAfter
<1>3. /\ wake' = wake
      /\ UNCHANGED <<req, cancelled, id, nextId, bytes, tokens, closing,
                     stopped, destroyed, reply, lastId, effect>>
  BY DEF Watched
<1>4. PumpAfter(p, st, q, rdy, act, budget) /\ AsTheyAre(p, st, q, act, budget)
  BY <1>1
<1>. QED  BY <1>2, <1>3, <1>4, PumpStep

\* A step that leaves alone everything the scheduling invariant is about.
LEMMA Frame ==
    ASSUME IInv,
           UNCHANGED <<req, status, queue, active, shared, wire, reply, stopped, effect>>
    PROVE  HInv' /\ JobsOK' /\ Keeps
<1>1. Sched(status, queue, active, shared, wire, stopped, effect)'
  BY DEF IInv, HInv, Sched, QueueOK, ActiveOK, WireOK, WireExclusive, EffectOK
<1>2. ReplyOK' /\ ToldOK'
  BY DEF IInv, HInv, ReplyOK, ToldOK, Durable
<1>3. JobsOK'
  BY DEF IInv, JobsOK, Counted, Outstanding
<1>4. Keeps
  BY DEF Keeps, Made, Outstanding
<1>. QED  BY <1>1, <1>2, <1>3, <1>4 DEF HInv

\* The wake-up after a release keeps the invariant.
LEMMA WakeStep ==
    ASSUME IInv, Wake
    PROVE  IInv' /\ Keeps
<1>1. CASE \E p \in Port :
             /\ CanPost(p, queue[p], ready, active[p], shared.active)
             /\ PumpAfter(p, status, queue[p], ready, active[p], shared)
  <2>1. PICK p \in Port : PumpAfter(p, status, queue[p], ready, active[p], shared)
    BY <1>1
  <2>2. PICK st, q, rdy, act, budget :
           /\ rdy = ready
           /\ AsTheyAre(p, st, q, act, budget)
           /\ PumpAfter(p, st, q, rdy, act, budget)
    BY <2>1 DEF AsTheyAre
  <2>3. ready' \subseteq Call
    BY <2>1 DEF PumpAfter, IInv, TypeOK
  <2>4. /\ wake' = FALSE
        /\ UNCHANGED <<req, cancelled, id, nextId, bytes, tokens, closing,
                       stopped, destroyed, reply, lastId, effect>>
    BY DEF Wake
  <2>. QED  BY <2>2, <2>3, <2>4, PumpStep
<1>2. CASE UNCHANGED <<status, queue, ready, active, shared, wire>>
  <2>1. HInv' /\ JobsOK' /\ Keeps
    BY <1>2, Frame DEF Wake
  <2>2. TypeOK'
    BY <1>2 DEF Wake, IInv, TypeOK
  <2>. QED  BY <2>1, <2>2 DEF IInv
<1>. QED  BY <1>1, <1>2 DEF Wake

\* An abort keeps the invariant, whether the job is queued, active or settled.
LEMMA CancelStep ==
    ASSUME IInv, NEW c \in Call, Cancel(c)
    PROVE  IInv'
<1>1. cancelled' \subseteq Call
  BY DEF Cancel, IInv, TypeOK
<1>2. CASE Unqueue(c)
  BY <1>1, <1>2, UnqueueStep
<1>3. CASE ~Unqueue(c)
  <2>1. UNCHANGED <<req, status, queue, ready, active, id, nextId, bytes,
                    shared, wake, tokens, closing, stopped, destroyed, workerVars>>
    BY <1>3 DEF Cancel
  <2>2. HInv' /\ JobsOK'
    BY <2>1, Frame DEF workerVars
  <2>3. TypeOK'
    BY <1>1, <2>1 DEF IInv, TypeOK, workerVars
  <2>. QED  BY <2>2, <2>3 DEF IInv
<1>. QED  BY <1>2, <1>3

\* The steps that change no queue keep the invariant: dispose() and the end of close().
LEMMA QuietSteps ==
    ASSUME IInv, NEW p \in Port, Dispose(p) \/ Closed(p) \/ UNCHANGED vars
    PROVE  IInv'
<1>1. UNCHANGED <<req, status, queue, active, shared, wire, reply, stopped, effect>>
  BY DEF Dispose, Closed, vars, hostVars, workerVars
<1>2. TypeOK'
  <2>1. CASE Dispose(p)
    BY <2>1 DEF Dispose, IInv, TypeOK, workerVars
  <2>2. CASE Closed(p)
    BY <2>2 DEF Closed, IInv, TypeOK, workerVars
  <2>3. CASE UNCHANGED vars
    BY <2>3 DEF vars, hostVars, workerVars, IInv, TypeOK
  <2>. QED  BY <2>1, <2>2, <2>3
<1>. QED  BY <1>1, <1>2, Frame DEF IInv

-----------------------------------------------------------------------------
\* A valid answer settles the active call, releases its job and pumps, and keeps the
\* invariant (onmessage).
LEMMA ReceiveStep ==
    ASSUME IInv, NEW p \in Port, Receive(p)
    PROVE  IInv' /\ Frees(reply[p].call)
<1>1. PICK c, st, q, rdy, act, budget :
         /\ c = reply[p].call
         /\ st = [status EXCEPT ![c] = Told(reply[p])]
         /\ q = queue[p] /\ rdy = ready /\ act = NoCall
         /\ budget = Released(c)
         /\ PumpAfter(p, st, q, rdy, act, budget)
  BY DEF Receive
<1>2. /\ c # NoCall /\ p \notin stopped /\ active[p] = c
      /\ reply' = [reply EXCEPT ![p] = NoReply]
      /\ tokens' \in {tokens, tokens \cup {c}}
      /\ wake' = TRUE
      /\ stopped' \in {stopped, stopped \cup {p}}
      /\ UNCHANGED <<req, cancelled, id, nextId, closing, destroyed, lastId, effect>>
  BY <1>1 DEF Receive
<1>3. PICK Q, A : Updated(Q, queue, p, q) /\ Updated(A, active, p, act)
  BY DEF Updated
<1>4. /\ queue \in [Port -> Seq(Call)] /\ q \in Seq(Call)
      /\ active \in [Port -> Call \cup {NoCall}] /\ act \in Call \cup {NoCall}
      /\ req \in [Call -> Request]
      /\ c \in Call
      /\ status \in [Call -> Stage]
  BY <1>1, <1>2 DEF IInv, TypeOK, Stage, Settlement
<1>5. /\ status[c] = "active" /\ req[c].port = p
      /\ \A o \in Port : o # p => active[o] = NoCall
      /\ \A d \in Call : status[d] = "active" => d = c
      /\ \A o \in Port : wire[o] = NoCall
  <2>1. /\ status[c] = "active" /\ req[c].port = p
        /\ \A o \in Port : o # p => active[o] = NoCall
    BY <1>2 DEF IInv, HInv, Sched, ActiveOK
  <2>2. \A d \in Call : status[d] = "active" => d = c
    <3>1. SUFFICES ASSUME NEW d \in Call, status[d] = "active" PROVE d = c
      OBVIOUS
    <3>2. req[d].port \in Port /\ active[req[d].port] = d
      BY <1>4, <3>1, RequestType DEF IInv, HInv, Sched, ActiveOK
    <3>. QED  BY <1>2, <2>1, <3>2, CallAssumption
  <2>3. wire[p] = NoCall
    BY <1>1, <1>2 DEF IInv, HInv, ReplyOK
  <2>4. \A o \in Port : wire[o] = NoCall
    BY <1>2, <2>1, <2>3 DEF IInv, HInv, Sched, WireOK
  <2>. QED  BY <2>1, <2>2, <2>4
<1>6. /\ st[c] = Told(reply[p]) /\ \A d \in Call : d # c => st[d] = status[d]
      /\ st[c] \in Settlement
      /\ st[c] = "none" => c \notin effect
      /\ st[c] = "committed" => c \in effect
      /\ st[c] = "ok" => (Durable(c) => c \in effect)
  <2>1. /\ reply[p].completion \in {"none", "committed", "unknown"}
        /\ reply[p].completion = "none" => c \notin effect
        /\ reply[p].completion = "committed" => c \in effect
        /\ reply[p].ok => (Durable(c) => c \in effect)
    BY <1>1, <1>2 DEF IInv, TypeOK, HInv, ReplyOK
  <2>2. st[c] = Told(reply[p]) /\ \A d \in Call : d # c => st[d] = status[d]
    BY <1>1, <1>4
  <2>. QED  BY <2>1, <2>2 DEF Told, Settlement
<1>7. /\ DOMAIN budget = {"jobs", "bytes", "active"}
      /\ budget.active = FALSE
  BY <1>1, <1>2, <1>5 DEF Released
<1>8. /\ Q = queue
      /\ A \in [Port -> Call \cup {NoCall}] /\ \A o \in Port : A[o] = NoCall
  BY <1>1, <1>3, <1>4, <1>5 DEF Updated
<1>9. SchedType(st, Q, A, budget, wire)
  <2>1. st \in [Call -> Stage]
    BY <1>1, <1>4, <1>6 DEF Stage
  <2>2. wire \in [Port -> Call \cup {NoCall}]
    BY DEF IInv, TypeOK
  <2>. QED  BY <1>4, <1>7, <1>8, <2>1, <2>2 DEF SchedType
<1>10. Sched(st, Q, A, budget, wire, stopped, effect)
  <2>1. QueueOK(st, Q)
    <3>1. \A o \in Port : \A i \in DOMAIN queue[o] :
            /\ status[queue[o][i]] = "queued" /\ req[queue[o][i]].port = o
            /\ queue[o][i] \in Call
      BY <1>4 DEF IInv, HInv, Sched, QueueOK
    <3>2. \A o \in Port : \A i \in DOMAIN queue[o] : st[queue[o][i]] = "queued"
      BY <1>5, <1>6, <3>1
    <3>. QED  BY <1>8, <3>1, <3>2 DEF IInv, HInv, Sched, QueueOK
  <2>2. ActiveOK(st, A, budget)
    BY <1>5, <1>6, <1>7, <1>8 DEF ActiveOK, Settlement
  <2>3. WireOK(st, A, wire, stopped, effect) /\ WireExclusive(wire)
    BY <1>5 DEF WireOK, WireExclusive
  <2>4. EffectOK(st, effect)
    BY <1>6 DEF IInv, HInv, TypeOK, Sched, EffectOK, Settlement
  <2>. QED  BY <2>1, <2>2, <2>3, <2>4 DEF Sched
<1>11. /\ SchedType(status', queue', active', shared', wire')
       /\ Sched(status', queue', active', shared', wire', stopped, effect)
       /\ shared'.jobs = budget.jobs /\ shared'.bytes = budget.bytes
       /\ \A d \in Call : status'[d] = st[d] \/ (st[d] = "queued" /\ status'[d] = "active")
       /\ \A o \in Port \ {p} : active'[o] = active[o] /\ wire'[o] = wire[o]
       /\ act # NoCall => active'[p] = act /\ wire'[p] = wire[p]
  <2>1. PumpAfter(p, st, q, rdy, act, budget)
    BY <1>1
  <2>. QED  BY <1>3, <1>4, <1>9, <1>10, <2>1, PumpSched, SMTT(20)
<1>12. Frees(c) /\ Counted' = Counted \ {c}
  <2>1. \A d \in Call : status'[d] \in {"queued", "active"} <=>
                          d # c /\ status[d] \in {"queued", "active"}
    BY <1>6, <1>11 DEF Settlement
  <2>2. c \in Outstanding /\ Outstanding' = Outstanding \ {c}
    BY <1>4, <1>5, <2>1 DEF Outstanding
  <2>3. Made' = Made
    BY <1>5, <1>6, <1>11 DEF Made, Settlement
  <2>. QED  BY <1>1, <1>2, <1>11, <2>2, <2>3 DEF Counted, Frees
<1>13. JobsOK'
  <2>1. c \in Outstanding
    BY <1>12 DEF Frees
  <2>. QED  BY <1>1, <1>11, <1>12, <2>1, ReleasedJobs DEF IInv, JobsOK
<1>14. TypeOK'
  <2>1. shared'.jobs \in Nat
    BY <1>12, <1>13, CountedFinite, FS_RemoveElement, FS_CardinalityType DEF JobsOK
  <2>2. reply' \in [Port -> [call : Call \cup {NoCall}, ok : BOOLEAN,
                             completion : {"none", "committed", "unknown"},
                             invalid : BOOLEAN]]
    BY <1>2 DEF IInv, TypeOK, NoReply
  <2>3. ready' = ready
    BY <1>1 DEF PumpAfter
  <2>4. /\ tokens' \subseteq Call /\ stopped' \subseteq Port /\ stopped \subseteq stopped'
        /\ ready' \subseteq Call /\ cancelled' \subseteq Call /\ effect' \subseteq Call
    <3>1. /\ tokens \subseteq Call /\ stopped \subseteq Port
          /\ ready \subseteq Call /\ cancelled \subseteq Call /\ effect \subseteq Call
      BY DEF IInv, TypeOK
    <3>. QED  BY <1>2, <1>4, <2>3, <3>1
  <2>. QED  BY <1>2, <1>11, <2>1, <2>2, <2>4, TypeAgain DEF IInv
<1>15. ReplyOK'
  <2>1. \A o \in Port : reply'[o].call # NoCall => o # p /\ reply'[o] = reply[o]
    BY <1>2 DEF IInv, TypeOK, NoReply
  <2>2. \A o \in Port : o \notin stopped' => ~(reply'[o].call # NoCall)
    BY <1>2, <1>5, <2>1 DEF IInv, HInv, ReplyOK
  <2>. QED  BY <2>2 DEF ReplyOK
<1>16. ToldOK'
  BY <1>2, <1>6, <1>11 DEF IInv, HInv, ToldOK, Durable, Settlement
<1>17. Sched(status, queue, active, shared, wire, stopped, effect)'
  <2>1. stopped' \subseteq Port /\ stopped \subseteq stopped'
    BY <1>2 DEF IInv, TypeOK
  <2>. QED  BY <1>2, <1>11, <2>1, SchedAgain
<1>. QED  BY <1>1, <1>12, <1>13, <1>14, <1>15, <1>16, <1>17 DEF IInv, HInv

\* crashed() on every port, from a status the handler left.
LEMMA CrashStep ==
    ASSUME IInv, NEW st, st \in [Call -> Stage], CrashFrom(st),
           \A p \in Port : wire[p] # NoCall => st[wire[p]] \in {"active", "unknown"},
           EffectOK(st, effect),
           \A c \in Call : /\ st[c] = "committed" => c \in effect
                           /\ st[c] = "ok" /\ Durable(c) => c \in effect,
           reply' \in [Port -> [call : Call \cup {NoCall}, ok : BOOLEAN,
                                completion : {"none", "committed", "unknown"},
                                invalid : BOOLEAN]],
           UNCHANGED <<wire, lastId, effect>>
    PROVE  IInv'
<1>1. /\ status' = [c \in Call |-> Crashed(st[c])]
      /\ queue' = [p \in Port |-> <<>>]
      /\ active' = [p \in Port |-> NoCall]
      /\ DOMAIN shared' = {"jobs", "bytes", "active"}
      /\ shared'.jobs = shared.jobs - Cardinality(Counted)
      /\ shared'.active = FALSE
      /\ wake' = TRUE
      /\ stopped' = Port
      /\ UNCHANGED <<req, ready, cancelled, id, nextId, tokens, closing, destroyed>>
  BY DEF CrashFrom
<1>2. \A c \in Call : /\ status'[c] \in {"idle"} \cup Settlement
                      /\ st[c] \in {"active", "unknown"} => status'[c] = "unknown"
                      /\ status'[c] \in {"ok", "committed"} => st[c] = status'[c]
                      /\ st[c] \in {"ok", "committed"} => status'[c] = st[c]
  BY <1>1 DEF Crashed, Stage, Settlement
<1>3. shared'.jobs = 0
  BY <1>1, CountedFinite DEF IInv, JobsOK
<1>4. Counted' = {}
  BY <1>2 DEF Counted, Outstanding, Settlement
<1>5. JobsOK'
  BY <1>3, <1>4, FS_EmptySet DEF JobsOK
<1>6. TypeOK'
  <2>1. status' \in [Call -> {"idle", "queued", "active"} \cup Settlement]
    BY <1>1, <1>2
  <2>2. queue' \in [Port -> Seq(Call)] /\ active' \in [Port -> Call \cup {NoCall}]
    BY <1>1
  <2>3. destroyed' \subseteq stopped' /\ stopped' \subseteq Port
    BY <1>1 DEF IInv, TypeOK
  <2>4. /\ ready' \subseteq Call /\ cancelled' \subseteq Call
        /\ tokens' \subseteq Call /\ effect' \subseteq Call
        /\ wire' \in [Port -> Call \cup {NoCall}]
        /\ id' \in [Call -> Nat] /\ nextId' \in [Port -> Nat] /\ lastId' \in [Port -> Nat]
        /\ closing' \in [Port -> {"open", "closing", "closed"}]
        /\ req' \in [Call -> Request]
    BY <1>1 DEF IInv, TypeOK
  <2>5. shared'.jobs \in Nat
    BY <1>3
  <2>6. shared'.active \in BOOLEAN
    BY <1>1, Zenon
  <2>7. wake' \in BOOLEAN
    BY <1>1, Zenon
  <2>. QED  BY <1>1, <2>1, <2>2, <2>3, <2>4, <2>5, <2>6, <2>7 DEF TypeOK
<1>7. Sched(status, queue, active, shared, wire, stopped, effect)'
  <2>1. QueueOK(status, queue)'
    BY <1>1 DEF QueueOK
  <2>2. ActiveOK(status, active, shared)'
    BY <1>1, <1>2 DEF ActiveOK, Settlement
  <2>3. WireOK(status, active, wire, stopped, effect)'
    <3>1. \A p \in Port : wire[p] # NoCall =>
            wire[p] \in Call /\ req[wire[p]].port = p /\ wire[p] \notin effect
      BY DEF IInv, TypeOK, HInv, Sched, WireOK
    <3>. QED  BY <1>1, <1>2, <3>1 DEF WireOK
  <2>4. WireExclusive(wire)'
    BY DEF IInv, HInv, Sched, WireExclusive
  <2>5. EffectOK(status, effect)'
    <3>1. effect \subseteq Call
      BY DEF IInv, TypeOK
    <3>. QED  BY <1>2, <3>1 DEF EffectOK
  <2>. QED  BY <2>1, <2>2, <2>3, <2>4, <2>5 DEF Sched
<1>8. ReplyOK'
  BY <1>1 DEF ReplyOK
<1>9. ToldOK'
  BY <1>1, <1>2 DEF ToldOK, Durable
<1>. QED  BY <1>5, <1>6, <1>7, <1>8, <1>9 DEF IInv, HInv

\* The loss of the owner's worker keeps the invariant.
LEMMA LossStep ==
    ASSUME IInv, Crash
    PROVE  IInv'
<1>1. PICK st : st = status /\ CrashFrom(st)
  BY DEF Crash
<1>2. UNCHANGED <<wire, lastId, effect>> /\ reply' = reply
  BY DEF Crash, workerVars
<1>3. st \in [Call -> Stage] /\ EffectOK(st, effect)
  BY <1>1 DEF IInv, TypeOK, HInv, Sched, Stage, Settlement
<1>4. \A p \in Port : wire[p] # NoCall => st[wire[p]] \in {"active", "unknown"}
  BY <1>1 DEF IInv, TypeOK, HInv, Sched, WireOK, ActiveOK
<1>5. \A c \in Call : /\ st[c] = "committed" => c \in effect
                      /\ st[c] = "ok" /\ Durable(c) => c \in effect
  BY <1>1 DEF IInv, HInv, ToldOK
<1>6. reply' \in [Port -> [call : Call \cup {NoCall}, ok : BOOLEAN,
                           completion : {"none", "committed", "unknown"},
                           invalid : BOOLEAN]]
  BY <1>2 DEF IInv, TypeOK
<1>. QED  BY <1>1, <1>2, <1>3, <1>4, <1>5, <1>6, CrashStep

\* An answer with an invalid engine settles its call and crashes the owner, and keeps
\* the invariant.
LEMMA ReceiveInvalidStep ==
    ASSUME IInv, NEW p \in Port, ReceiveInvalid(p)
    PROVE  IInv'
<1>1. PICK c, st : /\ c = reply[p].call
                   /\ st = [status EXCEPT ![c] = reply[p].completion]
                   /\ CrashFrom(st)
  BY DEF ReceiveInvalid
<1>2. /\ c # NoCall /\ p \notin stopped /\ active[p] = c
      /\ reply' = [reply EXCEPT ![p] = NoReply]
      /\ UNCHANGED <<wire, lastId, effect>>
  BY <1>1 DEF ReceiveInvalid
<1>3. /\ reply[p].completion \in {"none", "committed", "unknown"}
      /\ reply[p].completion = "none" => c \notin effect
      /\ reply[p].completion = "committed" => c \in effect
      /\ c \in Call /\ wire[p] = NoCall
  BY <1>1, <1>2 DEF IInv, TypeOK, HInv, ReplyOK
<1>4. /\ status \in [Call -> Stage]
      /\ st[c] = reply[p].completion
      /\ \A d \in Call : d # c => st[d] = status[d]
      /\ st \in [Call -> Stage]
  <2>1. status \in [Call -> Stage]
    BY DEF IInv, TypeOK, Stage, Settlement
  <2>. QED  BY <1>1, <1>3, <2>1 DEF Stage, Settlement
<1>5. \A o \in Port : wire[o] = NoCall
  <2>1. \A o \in Port : o # p => active[o] = NoCall
    BY <1>2 DEF IInv, HInv, Sched, ActiveOK
  <2>. QED  BY <1>2, <1>3, <2>1 DEF IInv, HInv, Sched, WireOK
<1>6. EffectOK(st, effect)
  BY <1>3, <1>4 DEF IInv, HInv, TypeOK, Sched, EffectOK
<1>7. \A d \in Call : /\ st[d] = "committed" => d \in effect
                      /\ st[d] = "ok" /\ Durable(d) => d \in effect
  BY <1>3, <1>4 DEF IInv, HInv, ToldOK
<1>8. reply' \in [Port -> [call : Call \cup {NoCall}, ok : BOOLEAN,
                           completion : {"none", "committed", "unknown"},
                           invalid : BOOLEAN]]
  BY <1>2 DEF IInv, TypeOK, NoReply
<1>. QED  BY <1>1, <1>2, <1>4, <1>5, <1>6, <1>7, <1>8, CrashStep

\* The worker runs what is on its wire; the caller has been told nothing yet,
\* or after a crash that the outcome is unknown.
LEMMA RunStep ==
    ASSUME IInv, NEW p \in Port, Run(p)
    PROVE  IInv'
<1>1. PICK c : c = wire[p] /\ c # NoCall /\ c \in Call /\ c \notin effect /\ req[c].port = p
  BY DEF Run, IInv, TypeOK, HInv, Sched, WireOK
<1>2. /\ wire' = [wire EXCEPT ![p] = NoCall]
      /\ UNCHANGED <<req, status, queue, ready, cancelled, active, id, nextId,
                     shared, wake, tokens, closing, stopped, destroyed>>
  BY DEF Run, hostVars
<1>3. PICK r :
        /\ reply' = [reply EXCEPT ![p] = r]
        /\ r \in [call : Call \cup {NoCall}, ok : BOOLEAN,
                  completion : {"none", "committed", "unknown"}, invalid : BOOLEAN]
        /\ r.call = c
        /\ effect' \in {effect, effect \cup {c}}
        /\ r.completion = "none" => c \notin effect'
        /\ r.completion = "committed" => c \in effect'
        /\ r.ok => (Durable(c) => c \in effect')
        /\ lastId' \in [Port -> Nat]
  <2>1. lastId \in [Port -> Nat] /\ id[c] \in Nat
    BY <1>1 DEF IInv, TypeOK
  <2>7. lastId' \in [Port -> Nat]
    BY <1>1, <2>1 DEF Run
  <2>2. PICK ok \in BOOLEAN, k \in {"none", "committed", "unknown"}, invalid \in BOOLEAN :
           /\ reply' = [reply EXCEPT ![p] =
                          [call |-> c, ok |-> ok, completion |-> k, invalid |-> invalid]]
           /\ effect' \in {effect, effect \cup {c}}
           /\ k = "none" => c \notin effect'
           /\ k = "committed" => c \in effect'
           /\ ok => (Durable(c) => c \in effect')
    <3>1. CASE Takes(p, c)
      <4>2. CASE /\ reply' = [reply EXCEPT ![p] =
                       [call |-> c, ok |-> TRUE,
                        completion |-> IF Durable(c) THEN "committed" ELSE "none",
                        invalid |-> FALSE]]
                 /\ effect' = IF Durable(c) THEN effect \cup {c} ELSE effect
        BY <1>1, <4>2
      <4>3. CASE \E invalid \in BOOLEAN :
                   /\ reply' = [reply EXCEPT ![p] =
                         [call |-> c, ok |-> FALSE, completion |-> "none", invalid |-> invalid]]
                   /\ effect' = effect
        BY <1>1, <4>3
      <4>4. CASE \E invalid \in BOOLEAN :
                   /\ reply' = [reply EXCEPT ![p] =
                         [call |-> c, ok |-> FALSE, completion |-> "committed", invalid |-> invalid]]
                   /\ effect' = effect \cup {c}
        BY <4>4
      <4>5. CASE \E invalid \in BOOLEAN :
                   /\ reply' = [reply EXCEPT ![p] =
                         [call |-> c, ok |-> FALSE, completion |-> "unknown", invalid |-> invalid]]
                   /\ effect' \in {effect, effect \cup {c}}
        BY <4>5
      <4>. QED  BY <1>1, <3>1, <4>2, <4>3, <4>4, <4>5 DEF Run
    <3>2. CASE ~Takes(p, c)
      <4>1. /\ reply' = [reply EXCEPT ![p] =
                 [call |-> c, ok |-> FALSE, completion |-> "unknown", invalid |-> FALSE]]
            /\ effect' = effect
        BY <1>1, <3>2 DEF Run
      <4>. QED  BY <4>1
    <3>. QED  BY <3>1, <3>2
  <2>3. PICK r : r = [call |-> c, ok |-> ok, completion |-> k, invalid |-> invalid]
    OBVIOUS
  <2>4. r \in [call : Call \cup {NoCall}, ok : BOOLEAN,
               completion : {"none", "committed", "unknown"}, invalid : BOOLEAN]
    BY <1>1, <2>3
  <2>5. r.call = c /\ r.ok = ok /\ r.completion = k
    BY <2>3
  <2>6. reply' = [reply EXCEPT ![p] = r]
    BY <2>2, <2>3
  <2>. QED  BY <2>2, <2>4, <2>5, <2>6, <2>7
<1>4. /\ \A o \in Port : o # p => wire[o] = NoCall
      /\ wire' \in [Port -> Call \cup {NoCall}]
      /\ \A o \in Port : wire'[o] = NoCall
  <2>1. \A o \in Port : o # p => wire[o] = NoCall
    BY <1>1 DEF IInv, HInv, Sched, WireExclusive
  <2>2. wire \in [Port -> Call \cup {NoCall}]
    BY DEF IInv, TypeOK
  <2>. QED  BY <1>2, <2>1, <2>2
<1>5. \/ active[p] = c /\ status[c] = "active" /\ \A o \in Port : o # p => active[o] = NoCall
      \/ status[c] = "unknown" /\ stopped = Port
  BY <1>1 DEF IInv, HInv, Sched, WireOK, ActiveOK
<1>6. TypeOK'
  <2>1. reply' \in [Port -> [call : Call \cup {NoCall}, ok : BOOLEAN,
                           completion : {"none", "committed", "unknown"},
                           invalid : BOOLEAN]]
    BY <1>3 DEF IInv, TypeOK
  <2>2. effect' \subseteq Call
    BY <1>1, <1>3 DEF IInv, TypeOK
  <2>3. lastId' \in [Port -> Nat]
    BY <1>3
  <2>. QED  BY <1>2, <1>4, <2>1, <2>2, <2>3 DEF IInv, TypeOK
<1>7. Sched(status, queue, active, shared, wire, stopped, effect)'
  <2>1. QueueOK(status, queue)' /\ ActiveOK(status, active, shared)'
    BY <1>2 DEF IInv, HInv, Sched, QueueOK, ActiveOK
  <2>2. WireOK(status, active, wire, stopped, effect)' /\ WireExclusive(wire)'
    BY <1>4 DEF WireOK, WireExclusive
  <2>3. EffectOK(status, effect)'
    BY <1>2, <1>3, <1>5 DEF IInv, HInv, Sched, EffectOK
  <2>. QED  BY <2>1, <2>2, <2>3 DEF Sched
<1>8. ReplyOK'
  <2>1. SUFFICES ASSUME NEW o \in Port, reply'[o].call # NoCall, o \notin stopped
                 PROVE  /\ reply'[o].call = active[o]
                        /\ wire'[o] = NoCall
                        /\ reply'[o].completion = "none" => reply'[o].call \notin effect'
                        /\ reply'[o].completion = "committed" => reply'[o].call \in effect'
                        /\ reply'[o].ok => (Durable(reply'[o].call) => reply'[o].call \in effect')
    BY <1>2 DEF ReplyOK, Durable
  <2>2. CASE o = p
    BY <1>3, <1>4, <1>5, <2>1, <2>2 DEF IInv, TypeOK
  <2>3. CASE o # p
    <3>1. reply'[o] = reply[o]
      BY <1>3, <2>3 DEF IInv, TypeOK
    <3>2. active[o] = reply[o].call /\ active[o] # NoCall
      BY <2>1, <3>1 DEF IInv, HInv, ReplyOK
    <3>. QED  BY <1>5, <2>1, <2>3, <3>2
  <2>. QED  BY <2>2, <2>3
<1>9. ToldOK'
  BY <1>2, <1>3 DEF IInv, HInv, ToldOK, Durable
<1>10. JobsOK'
  BY <1>2 DEF IInv, JobsOK, Counted, Outstanding
<1>. QED  BY <1>6, <1>7, <1>8, <1>9, <1>10 DEF IInv, HInv

-----------------------------------------------------------------------------
\* A call that is made but not admitted.
LEMMA RefusedStep ==
    ASSUME IInv, NEW c \in Call, status[c] = "idle",
           status' = [status EXCEPT ![c] = "none"], closing' \in [Port -> {"open", "closing", "closed"}],
           UNCHANGED <<req, queue, ready, cancelled, active, id, nextId,
                       shared, wake, tokens, stopped, destroyed, workerVars>>
    PROVE  IInv'
<1>1. status \in [Call -> Stage] /\ req \in [Call -> Request]
  BY DEF IInv, TypeOK, Stage, Settlement
<1>2. status'[c] = "none" /\ \A d \in Call : d # c => status'[d] = status[d]
  BY <1>1
<1>3. TypeOK'
  BY DEF IInv, TypeOK, Settlement, workerVars
<1>4. Sched(status, queue, active, shared, wire, stopped, effect)'
  <2>1. QueueOK(status, queue)'
    <3>1. \A o \in Port : \A i \in DOMAIN queue[o] :
             /\ status[queue[o][i]] = "queued" /\ req[queue[o][i]].port = o
             /\ queue[o][i] \in Call
      BY DEF IInv, TypeOK, HInv, Sched, QueueOK
    <3>2. \A o \in Port : \A i \in DOMAIN queue[o] : status'[queue[o][i]] = "queued"
      BY <1>2, <3>1
    <3>. QED  BY <3>1, <3>2 DEF IInv, HInv, Sched, QueueOK
  <2>2. ActiveOK(status, active, shared)'
    BY <1>2 DEF IInv, TypeOK, HInv, Sched, ActiveOK
  <2>3. WireOK(status, active, wire, stopped, effect)'
    <3>1. \A o \in Port : wire[o] # NoCall => wire[o] \in Call /\ status[wire[o]] \in {"active", "unknown"}
      BY DEF IInv, TypeOK, HInv, Sched, WireOK, ActiveOK
    <3>2. \A o \in Port : wire[o] # NoCall => status'[wire[o]] = status[wire[o]]
      BY <1>2, <3>1
    <3>. QED  BY <3>2 DEF IInv, HInv, Sched, WireOK, workerVars
  <2>4. WireExclusive(wire)' /\ EffectOK(status, effect)'
    BY <1>2 DEF IInv, TypeOK, HInv, Sched, WireExclusive, EffectOK, workerVars
  <2>. QED  BY <2>1, <2>2, <2>3, <2>4 DEF Sched
<1>5. ReplyOK'
  BY DEF IInv, HInv, ReplyOK, Durable, workerVars
<1>6. ToldOK'
  BY <1>2 DEF IInv, HInv, ToldOK, Durable, workerVars
<1>7. JobsOK'
  <2>1. Counted' = Counted
    BY <1>2 DEF Counted, Outstanding
  <2>. QED  BY <2>1 DEF IInv, JobsOK
<1>. QED  BY <1>3, <1>4, <1>5, <1>6, <1>7 DEF IInv, HInv

\* A call takes its place behind the admitted work.
LEMMA EnqueueStep ==
    ASSUME IInv, NEW c \in Call, status[c] = "idle", Enqueue(c),
           DOMAIN shared' = {"jobs", "bytes", "active"}, shared'.active = shared.active,
           JobsOK',
           closing' \in [Port -> {"open", "closing", "closed"}],
           UNCHANGED <<req, ready, cancelled, active, wake, tokens, stopped,
                       destroyed, workerVars>>
    PROVE  IInv'
<1>1. PICK p, q : p = req[c].port /\ q = Append(queue[p], c)
  OBVIOUS
<1>2. /\ status' = [status EXCEPT ![c] = "queued"]
      /\ queue' = [queue EXCEPT ![p] = q]
      /\ id' = [id EXCEPT ![c] = nextId[p] + 1]
      /\ nextId' = [nextId EXCEPT ![p] = @ + 1]
  BY <1>1 DEF Enqueue, Behind
<1>3. /\ p \in Port /\ queue \in [Port -> Seq(Call)] /\ queue[p] \in Seq(Call)
      /\ status \in [Call -> Stage] /\ req \in [Call -> Request]
  BY <1>1, RequestType DEF IInv, TypeOK, Stage, Settlement
<1>4. status'[c] = "queued" /\ \A d \in Call : d # c => status'[d] = status[d]
  BY <1>2, <1>3
<1>5. \A o \in Port : \A i \in DOMAIN queue[o] :
         /\ status[queue[o][i]] = "queued" /\ req[queue[o][i]].port = o
         /\ queue[o][i] \in Call /\ queue[o][i] # c
  BY <1>3 DEF IInv, HInv, Sched, QueueOK
<1>6. /\ q \in Seq(Call)
      /\ \A i \in DOMAIN q :
            \/ (i \in DOMAIN queue[p] /\ q[i] = queue[p][i])
            \/ (i = Len(queue[p]) + 1 /\ q[i] = c)
  BY <1>1, <1>3, AppendProperties
<1>7. queue'[p] = q /\ \A o \in Port : o # p => queue'[o] = queue[o]
  BY <1>2, <1>3
<1>8. TypeOK'
  <2>1. status' \in [Call -> {"idle", "queued", "active"} \cup Settlement]
    BY <1>2 DEF IInv, TypeOK
  <2>2. queue' \in [Port -> Seq(Call)]
    BY <1>2, <1>3, <1>6
  <2>3. id' \in [Call -> Nat] /\ nextId' \in [Port -> Nat]
    BY <1>2, <1>3 DEF IInv, TypeOK
  <2>4. shared'.jobs \in Nat
    <3>1. \A d \in Counted' : d \in Call
      BY DEF Counted, Outstanding
    <3>2. IsFiniteSet(Counted')
      BY <3>1, CallAssumption, FS_Subset
    <3>. QED  BY <3>2, FS_CardinalityType DEF JobsOK
  <2>. QED  BY <2>1, <2>2, <2>3, <2>4 DEF IInv, TypeOK, workerVars
<1>9. Sched(status, queue, active, shared, wire, stopped, effect)'
  <2>1. QueueOK(status, queue)'
    <3>1. ASSUME NEW o \in Port, NEW i \in DOMAIN queue'[o]
          PROVE  status'[queue'[o][i]] = "queued" /\ req[queue'[o][i]].port = o
      <4>1. CASE o # p
        BY <1>4, <1>5, <1>7, <4>1
      <4>2. CASE o = p
        <5>1. queue'[o] = q /\ i \in DOMAIN q
          BY <1>7, <4>2
        <5>2. CASE i \in DOMAIN queue[p] /\ q[i] = queue[p][i]
          BY <1>3, <1>4, <1>5, <4>2, <5>1, <5>2
        <5>3. CASE q[i] = c
          BY <1>1, <1>4, <4>2, <5>1, <5>3
        <5>. QED  BY <1>6, <5>1, <5>2, <5>3
      <4>. QED  BY <4>1, <4>2
    <3>2. ASSUME NEW o \in Port, NEW i \in DOMAIN queue'[o], NEW j \in DOMAIN queue'[o],
                 queue'[o][i] = queue'[o][j]
          PROVE  i = j
      <4>1. CASE o = p
        BY <1>3, <1>5, <1>6, <1>7, <3>2, <4>1 DEF IInv, HInv, Sched, QueueOK
      <4>2. CASE o # p
        BY <1>7, <3>2, <4>2 DEF IInv, HInv, Sched, QueueOK
      <4>. QED  BY <4>1, <4>2
    <3>. QED  BY <3>1, <3>2 DEF QueueOK
  <2>2. ActiveOK(status, active, shared)'
    BY <1>4 DEF IInv, TypeOK, HInv, Sched, ActiveOK
  <2>3. WireOK(status, active, wire, stopped, effect)'
    <3>1. \A o \in Port : wire[o] # NoCall => wire[o] \in Call /\ status[wire[o]] \in {"active", "unknown"}
      BY DEF IInv, TypeOK, HInv, Sched, WireOK, ActiveOK
    <3>2. \A o \in Port : wire[o] # NoCall => status'[wire[o]] = status[wire[o]]
      BY <1>4, <3>1
    <3>. QED  BY <3>2 DEF IInv, HInv, Sched, WireOK, workerVars
  <2>4. WireExclusive(wire)' /\ EffectOK(status, effect)'
    <3>1. \A d \in effect : d # c /\ d \in Call
      BY DEF IInv, TypeOK, HInv, Sched, EffectOK
    <3>2. \A d \in effect : status'[d] = status[d]
      BY <1>4, <3>1
    <3>. QED  BY <3>2 DEF IInv, HInv, Sched, WireExclusive, EffectOK, workerVars
  <2>. QED  BY <2>1, <2>2, <2>3, <2>4 DEF Sched
<1>10. ReplyOK'
  BY DEF IInv, HInv, ReplyOK, Durable, workerVars
<1>11. ToldOK'
  BY <1>4 DEF IInv, HInv, ToldOK, Durable, workerVars
<1>. QED  BY <1>8, <1>9, <1>10, <1>11 DEF IInv, HInv

\* A refused call keeps the invariant.
LEMMA RefuseStep ==
    ASSUME IInv, NEW c \in Call, Refuse(c)
    PROVE  IInv'
<1>1. closing' \in [Port -> {"open", "closing", "closed"}]
  BY DEF Refuse, Refused, IInv, TypeOK
<1>. QED  BY <1>1, RefusedStep DEF Refuse, Refused

\* An admitted call keeps the invariant.
LEMMA AdmitStep ==
    ASSUME IInv, NEW c \in Call, Admit(c)
    PROVE  IInv'
<1>1. /\ status[c] = "idle" /\ req[c].kind # "close" /\ Enqueue(c)
      /\ shared' = [shared EXCEPT !.jobs = @ + 1, !.bytes = @ + req[c].size]
      /\ UNCHANGED <<req, ready, cancelled, active, wake, tokens, closing,
                     stopped, destroyed, workerVars>>
  BY DEF Admit
<1>2. DOMAIN shared = {"jobs", "bytes", "active"} /\ status \in [Call -> Stage]
  BY DEF IInv, TypeOK, Stage, Settlement
<1>3. DOMAIN shared' = {"jobs", "bytes", "active"} /\ shared'.active = shared.active
      /\ shared'.jobs = shared.jobs + 1
  BY <1>1, <1>2
<1>4. JobsOK'
  <2>1. status' = [status EXCEPT ![c] = "queued"]
    BY <1>1 DEF Enqueue
  <2>2. Counted' = Counted \cup {c} /\ c \notin Counted
    BY <1>1, <1>2, <2>1 DEF Counted, Outstanding
  <2>3. Cardinality(Counted \cup {c}) = Cardinality(Counted) + 1
    BY <2>2, CountedFinite, FS_AddElement
  <2>. QED  BY <1>3, <2>2, <2>3 DEF IInv, JobsOK
<1>5. closing' \in [Port -> {"open", "closing", "closed"}]
  BY <1>1 DEF IInv, TypeOK
<1>. QED  BY <1>1, <1>3, <1>4, <1>5, EnqueueStep

\* close() keeps the invariant, the first time and every other time.
LEMMA CloseStep ==
    ASSUME IInv, NEW c \in Call, Close(c)
    PROVE  IInv'
<1>1. /\ status[c] = "idle" /\ req[c].kind = "close"
      /\ closing' = [closing EXCEPT ![req[c].port] = "closing"]
      /\ UNCHANGED <<req, ready, cancelled, active, shared, wake,
                     tokens, stopped, destroyed, workerVars>>
  BY DEF Close
<1>2. closing' \in [Port -> {"open", "closing", "closed"}]
  BY <1>1 DEF IInv, TypeOK
<1>3. CASE /\ status' = [status EXCEPT ![c] = "none"]
           /\ UNCHANGED <<queue, id, nextId>>
  BY <1>1, <1>2, <1>3, RefusedStep
<1>4. CASE Enqueue(c)
  <2>1. status' = [status EXCEPT ![c] = "queued"] /\ status \in [Call -> Stage]
    BY <1>4 DEF Enqueue, IInv, TypeOK, Stage, Settlement
  <2>2. Counted' = Counted
    BY <1>1, <2>1 DEF Counted, Outstanding
  <2>3. JobsOK'
    BY <1>1, <2>2 DEF IInv, JobsOK
  <2>4. DOMAIN shared' = {"jobs", "bytes", "active"} /\ shared'.active = shared.active
    BY <1>1 DEF IInv, TypeOK
  <2>. QED  BY <1>1, <1>2, <1>4, <2>3, <2>4, EnqueueStep
<1>. QED  BY <1>3, <1>4 DEF Close

-----------------------------------------------------------------------------
\* The invariant holds of a fresh owner.
LEMMA InitIInv == Init => IInv
<1> SUFFICES ASSUME Init PROVE IInv
  OBVIOUS
<1>1. TypeOK
  <2>1. queue \in [Port -> Seq(Call)]
    BY DEF Init
  <2>2. NoReply \in [call : Call \cup {NoCall}, ok : BOOLEAN,
                     completion : {"none", "committed", "unknown"}, invalid : BOOLEAN]
    BY DEF NoReply
  <2>. QED  BY <2>1, <2>2 DEF Init, TypeOK
<1>2. HInv
  BY DEF Init, HInv, Sched, QueueOK, ActiveOK, WireOK, WireExclusive, EffectOK,
         ReplyOK, ToldOK, NoReply
<1>3. JobsOK
  <2>1. Counted = {}
    BY DEF Init, Counted, Outstanding
  <2>. QED  BY <2>1, FS_EmptySet DEF Init, JobsOK
<1>. QED  BY <1>1, <1>2, <1>3 DEF IInv

\* Every step of the host, its worker or its callers keeps the invariant.
LEMMA NextIInv == IInv /\ [Next]_vars => IInv'
<1> SUFFICES ASSUME IInv, [Next]_vars PROVE IInv'
  OBVIOUS
<1>1. ASSUME NEW c \in Call, Refuse(c) PROVE IInv'
  BY <1>1, RefuseStep
<1>2. ASSUME NEW c \in Call, Admit(c) PROVE IInv'
  BY <1>2, AdmitStep
<1>3. ASSUME NEW c \in Call, Close(c) PROVE IInv'
  BY <1>3, CloseStep
<1>4. ASSUME NEW c \in Call, Watched(c) PROVE IInv'
  BY <1>4, WatchedStep
<1>5. ASSUME NEW c \in Call, WatchFailed(c) PROVE IInv'
  <2>1. Unqueue(c) /\ cancelled' \subseteq Call
    BY <1>5 DEF WatchFailed, IInv, TypeOK
  <2>. QED  BY <2>1, UnqueueStep
<1>6. ASSUME NEW c \in Call, Cancel(c) PROVE IInv'
  BY <1>6, CancelStep
<1>7. ASSUME NEW p \in Port, PortStep(p) PROVE IInv'
  BY <1>7, RunStep, ReceiveStep, ReceiveInvalidStep, QuietSteps DEF PortStep
<1>8. CASE Wake
  BY <1>8, WakeStep
<1>9. CASE Crash
  BY <1>9, LossStep
<1>10. CASE Quiet \/ UNCHANGED vars
  <2>1. UNCHANGED <<req, status, queue, active, shared, wire, reply, stopped, effect>>
    BY <1>10 DEF Quiet, vars, hostVars, workerVars
  <2>2. TypeOK'
    BY <1>10 DEF Quiet, vars, hostVars, workerVars, IInv, TypeOK
  <2>. QED  BY <2>1, <2>2, Frame DEF IInv
<1>. QED
  BY <1>1, <1>2, <1>3, <1>4, <1>5, <1>6, <1>7, <1>8, <1>9, <1>10 DEF Next

\* The inductive invariant holds in every behaviour: the queue's bookkeeping agrees with
\* what is on the wire, what the engine did and what the callers were told.
THEOREM Invariance == Spec => []IInv
BY InitIInv, NextIInv, PTL DEF Spec

\* The types of the host's state hold for any owner: however many ports, calls
\* and limits there are, and a disposed port has always been stopped.
THEOREM TypeCorrect == Spec => []TypeOK
<1>1. IInv => TypeOK
  BY DEF IInv
<1>. QED  BY <1>1, Invariance, PTL

\* A call that settles as "none" changed nothing and never will; "committed"
\* and a successful write are about a change that was made.
THEOREM Honesty == Spec => []ReceiptsHonest
<1>1. IInv => ReceiptsHonest
  BY DEF IInv, HInv, Sched, EffectOK, ToldOK, ReceiptsHonest
<1>. QED  BY <1>1, Invariance, PTL

\* The native engine is never given a second command while it has one, over
\* whatever port of the owner.
THEOREM Exclusion == Spec => []OneCommandAtATime
<1>1. IInv => OneCommandAtATime
  BY DEF IInv, HInv, Sched, ActiveOK, WireExclusive, OneCommandAtATime
<1>. QED  BY <1>1, Invariance, PTL

-----------------------------------------------------------------------------
(* The call queue implements CallReceipts: every step of the host, of its  *)
(* worker or of its callers is a step of the abstract promise about        *)
(* settlements, or changes nothing that the promise speaks of.             *)
(*                                                                         *)
(* The invariant says what settled calls were told, so what is left to     *)
(* show of a step is which calls it may settle: only those that were       *)
(* admitted and had not settled (Moves).  The engine may make a change     *)
(* only for what is on a wire, and that is active or was reported as       *)
(* unknown.                                                                *)

Phase(st, c) == IF st[c] \in {"queued", "active"} THEN "pending" ELSE st[c]

\* The step settles or posts admitted calls only, and the engine does nothing.
Moves ==
    /\ \A c \in Call : status'[c] # status[c] =>
          status[c] \in {"queued", "active"} /\ status'[c] # "idle"
    /\ \A p \in Port : wire'[p] = wire[p] \/ wire'[p] \in OnPort(p)
    /\ req' = req /\ effect' = effect

LEMMA Types == IInv => /\ status \in [Call -> Stage] /\ req \in [Call -> Request]
                       /\ effect \subseteq Call
BY DEF IInv, TypeOK, Stage

\* A step that moves admitted calls is a Settle of the promise, or stutters.
LEMMA MovesSettle ==
    ASSUME IInv, IInv', Moves
    PROVE  Receipts!Settle
<1>1. /\ status \in [Call -> Stage] /\ status' \in [Call -> Stage]
      /\ req' = req /\ effect' = effect
  BY Types DEF IInv, TypeOK, Stage, Moves
<1> DEFINE phase == [c \in Call |-> Phase(status, c)]
<1>2. phase' \in [Call -> {"idle", "pending"} \cup Settlement]
  BY <1>1 DEF Phase, Stage, Settlement
<1>3. ASSUME NEW c \in Call, phase'[c] # phase[c]
      PROVE  /\ phase[c] = "pending"
             /\ phase'[c] \in Settlement
             /\ phase'[c] = "ok" => (Durable(c) => c \in effect)
             /\ phase'[c] = "none" => c \notin effect
             /\ phase'[c] = "committed" => c \in effect
  <2>1. status'[c] # status[c]
    BY <1>3 DEF Phase
  <2>2. status[c] \in {"queued", "active"} /\ status'[c] # "idle"
    BY <2>1 DEF Moves
  <2>3. phase[c] = "pending" /\ phase'[c] = status'[c] /\ status'[c] \in Settlement
    BY <1>1, <1>3, <2>2 DEF Phase, Stage
  <2>4. /\ status'[c] = "ok" => (Durable(c)' => c \in effect')
        /\ status'[c] = "committed" => c \in effect'
    BY DEF IInv, HInv, ToldOK
  <2>5. status'[c] = "none" => c \notin effect'
    BY DEF IInv, HInv, Sched, EffectOK
  <2> QED
    BY <1>1, <2>3, <2>4, <2>5 DEF Durable
<1>4. {c \in Call : Durable(c)}' = {c \in Call : Durable(c)}
  BY <1>1 DEF Durable
<1> QED
  BY <1>1, <1>2, <1>3, <1>4 DEF Receipts!Settle, Receipts!Settlement, Settlement, Phase

\* Where pump() is called with the queue q, whose head, if any, was queued, the step moves
\* no call beyond those that st moves.
LEMMA PumpMoves ==
    ASSUME IInv,
           NEW p \in Port, NEW st \in [Call -> Stage], NEW q \in Seq(Call), NEW rdy, NEW act,
           NEW budget,
           PumpAfter(p, st, q, rdy, act, budget),
           q # <<>> => status[Head(q)] = "queued" /\ req[Head(q)].port = p,
           \A c \in Call : st[c] # status[c] =>
               status[c] \in {"queued", "active"} /\ st[c] # "idle",
           req' = req, effect' = effect
    PROVE  Moves
<1>1. CASE status' = st /\ wire' = wire
  BY <1>1 DEF Moves
<1>2. CASE /\ q # <<>> /\ status' = [st EXCEPT ![Head(q)] = "active"]
           /\ wire' = [wire EXCEPT ![p] = Head(q)]
  <2>1. Head(q) \in OnPort(p)
    BY <1>2 DEF OnPort, Outstanding
  <2>2. wire \in [Port -> Call \cup {NoCall}]
    BY DEF IInv, TypeOK
  <2> QED
    BY <1>2, <2>1, <2>2 DEF Moves
<1> QED
  BY <1>1, <1>2 DEF PumpAfter, CanPost

\* The head of a port's queue is queued, and a splice leaves queued calls only.
LEMMA HeadQueued ==
    ASSUME IInv, NEW p \in Port
    PROVE  /\ queue[p] \in Seq(Call)
           /\ \A i \in DOMAIN queue[p] :
                 status[queue[p][i]] = "queued" /\ req[queue[p][i]].port = p
           /\ queue[p] # <<>> =>
                 status[Head(queue[p])] = "queued" /\ req[Head(queue[p])].port = p
<1>1. /\ queue[p] \in Seq(Call)
      /\ \A i \in DOMAIN queue[p] : status[queue[p][i]] = "queued" /\ req[queue[p][i]].port = p
  BY DEF IInv, TypeOK, HInv, Sched, QueueOK
<1> QED
  BY <1>1

LEMMA UnqueueMoves ==
    ASSUME IInv, NEW c \in Call, Unqueue(c)
    PROVE  Moves
<1> DEFINE p == req[c].port
           st == [status EXCEPT ![c] = "none"]
<1>1. p \in Port /\ status \in [Call -> Stage] /\ st \in [Call -> Stage]
  BY Types, RequestAssumption DEF Stage, Settlement
<1>2. PICK i \in DOMAIN queue[p] :
        /\ queue[p][i] = c
        /\ PumpAfter(p, st, RemoveAt(queue[p], i), ready, active[p], Released(c))
  BY DEF Unqueue
<1> DEFINE q == RemoveAt(queue[p], i)
<1>3. /\ queue[p] \in Seq(Call)
      /\ \A j \in DOMAIN queue[p] :
            status[queue[p][j]] = "queued" /\ req[queue[p][j]].port = p
  BY <1>1, HeadQueued
<1>4. /\ q \in Seq(Call) /\ Len(q) = Len(queue[p]) - 1
      /\ \A j \in 1..(Len(queue[p]) - 1) :
            q[j] = IF j < i THEN queue[p][j] ELSE queue[p][j+1]
  BY <1>2, <1>3, RemoveAtProperties
<1> HIDE DEF q
<1>5. q # <<>> => status[Head(q)] = "queued" /\ req[Head(q)].port = p
  <2>1. SUFFICES ASSUME q # <<>> PROVE status[Head(q)] = "queued" /\ req[Head(q)].port = p
    OBVIOUS
  <2>2. Len(queue[p]) \in Nat /\ 1 \in 1..(Len(queue[p]) - 1) /\ Head(q) = q[1]
    BY <1>3, <1>4, <2>1
  <2>3. PICK j \in DOMAIN queue[p] : q[1] = queue[p][j]
    BY <1>3, <1>4, <2>2
  <2> QED
    BY <1>3, <2>2, <2>3
<1>6. \A d \in Call : st[d] # status[d] => status[d] \in {"queued", "active"} /\ st[d] # "idle"
  BY <1>1, <1>2, <1>3
<1>7. req' = req /\ effect' = effect
  BY DEF Unqueue
<1>8. PumpAfter(p, st, q, ready, active[p], Released(c))
  BY <1>2 DEF q
<1> HIDE DEF p, st
<1> QED
  BY <1>1, <1>4, <1>5, <1>6, <1>7, <1>8, PumpMoves

LEMMA ReceiveMoves ==
    ASSUME IInv, NEW p \in Port, Receive(p)
    PROVE  Moves
<1> DEFINE c == reply[p].call
           st == [status EXCEPT ![c] = Told(reply[p])]
<1>1. /\ c = active[p] /\ c # NoCall /\ req' = req /\ effect' = effect
      /\ PumpAfter(p, st, queue[p], ready, NoCall, Released(c))
  BY DEF Receive
<1>2. c \in Call /\ status[c] = "active"
  BY <1>1 DEF IInv, TypeOK, HInv, Sched, ActiveOK
<1>3. status \in [Call -> Stage] /\ Told(reply[p]) \in Settlement
  BY Types DEF IInv, TypeOK, Told, Settlement
<1>4. st \in [Call -> Stage]
  BY <1>3 DEF Stage
<1>5. \A d \in Call : st[d] # status[d] => status[d] \in {"queued", "active"} /\ st[d] # "idle"
  BY <1>2, <1>3 DEF Settlement
<1>6. /\ queue[p] \in Seq(Call)
      /\ queue[p] # <<>> => status[Head(queue[p])] = "queued" /\ req[Head(queue[p])].port = p
  BY HeadQueued
<1> HIDE DEF st, c
<1> QED
  BY <1>1, <1>4, <1>5, <1>6, PumpMoves

\* Watched, and a wake-up: pump() over the queue as it is.
LEMMA PumpQueueMoves ==
    ASSUME IInv, NEW p \in Port, NEW rdy,
           PumpAfter(p, status, queue[p], rdy, active[p], shared), req' = req, effect' = effect
    PROVE  Moves
<1>1. PICK q, act : q = queue[p] /\ act = active[p]
  OBVIOUS
<1>2. q \in Seq(Call) /\ (q # <<>> => status[Head(q)] = "queued" /\ req[Head(q)].port = p)
  BY <1>1, HeadQueued
<1>3. status \in [Call -> Stage]
  BY Types
<1> QED
  BY <1>1, <1>2, <1>3, PumpMoves

\* A crash settles what is admitted.
LEMMA CrashMoves ==
    ASSUME IInv, NEW st \in [Call -> Stage], CrashFrom(st), effect' = effect,
           wire' = wire,
           \A c \in Call : st[c] # status[c] =>
               status[c] \in {"queued", "active"} /\ st[c] # "idle"
    PROVE  Moves
<1>1. status' = [c \in Call |-> Crashed(st[c])] /\ req' = req
  BY DEF CrashFrom
<1>2. \A c \in Call : \/ status'[c] = st[c]
                      \/ st[c] \in {"queued", "active"} /\ status'[c] \in {"unknown", "none"}
  BY <1>1 DEF Crashed
<1>3. \A c \in Call : st[c] \in {"queued", "active"} => status[c] \in {"queued", "active"}
  OBVIOUS
<1> QED
  BY <1>1, <1>2, <1>3 DEF Moves

LEMMA ReceiveInvalidMoves ==
    ASSUME IInv, NEW p \in Port, ReceiveInvalid(p)
    PROVE  Moves
<1> DEFINE c == reply[p].call
           st == [status EXCEPT ![c] = reply[p].completion]
<1>1. c = active[p] /\ c # NoCall /\ effect' = effect /\ wire' = wire /\ CrashFrom(st)
  BY DEF ReceiveInvalid
<1>2. c \in Call /\ status[c] = "active"
  BY <1>1 DEF IInv, TypeOK, HInv, Sched, ActiveOK
<1>3. status \in [Call -> Stage] /\ reply[p].completion \in {"none", "committed", "unknown"}
  BY Types DEF IInv, TypeOK
<1>4. st \in [Call -> Stage]
  BY <1>3 DEF Stage, Settlement
<1>5. \A d \in Call : st[d] # status[d] => status[d] \in {"queued", "active"} /\ st[d] # "idle"
  BY <1>2, <1>3
<1> HIDE DEF st
<1> QED
  BY <1>1, <1>4, <1>5, CrashMoves

LEMMA WatchedMoves ==
    ASSUME IInv, NEW c \in Call, Watched(c)
    PROVE  Moves
<1>1. PICK p \in Port : p = req[c].port
  BY Types, RequestAssumption
<1>2. PICK rdy : rdy = ready \cup {c}
  OBVIOUS
<1>3. PumpAfter(p, status, queue[p], rdy, active[p], shared) /\ req' = req /\ effect' = effect
  BY <1>1, <1>2 DEF Watched
<1> QED
  BY <1>3, PumpQueueMoves

LEMMA WithdrawMoves ==
    ASSUME IInv, NEW c \in Call, WatchFailed(c) \/ Cancel(c)
    PROVE  Moves
BY UnqueueMoves DEF WatchFailed, Cancel, Moves, workerVars

LEMMA PortMoves ==
    ASSUME IInv, NEW p \in Port, Receive(p) \/ ReceiveInvalid(p) \/ Dispose(p) \/ Closed(p)
    PROVE  Moves
BY ReceiveMoves, ReceiveInvalidMoves DEF Dispose, Closed, Moves, workerVars

LEMMA WakeMoves ==
    ASSUME IInv, Wake
    PROVE  Moves
BY PumpQueueMoves DEF Wake, Moves

LEMMA LossMoves ==
    ASSUME IInv, Crash
    PROVE  Moves
BY Types, CrashMoves DEF Crash, workerVars

-----------------------------------------------------------------------------
(* Steps that are not settlements of admitted calls *)

\* An admission that puts the call behind others is an Issue.
LEMMA AdmissionIssues ==
    ASSUME IInv, NEW c \in Call, status[c] = "idle", req' = req, effect' = effect,
           status' = [status EXCEPT ![c] = "queued"]
    PROVE  Receipts!Issue(c)
<1>1. status \in [Call -> Stage]
  BY Types
<1>2. [d \in Call |-> Phase(status, d)]' =
      [[d \in Call |-> Phase(status, d)] EXCEPT ![c] = "pending"]
  BY <1>1 DEF Phase
<1>3. {d \in Call : Durable(d)}' = {d \in Call : Durable(d)}
  BY DEF Durable
<1> QED
  BY <1>1, <1>2, <1>3 DEF Receipts!Issue, Phase

LEMMA RefusalRefuses ==
    ASSUME IInv, NEW c \in Call, status[c] = "idle", req' = req, effect' = effect,
           status' = [status EXCEPT ![c] = "none"]
    PROVE  Receipts!Refuse(c)
<1>1. status \in [Call -> Stage]
  BY Types
<1>2. [d \in Call |-> Phase(status, d)]' =
      [[d \in Call |-> Phase(status, d)] EXCEPT ![c] = "none"]
  BY <1>1 DEF Phase
<1>3. {d \in Call : Durable(d)}' = {d \in Call : Durable(d)}
  BY DEF Durable
<1> QED
  BY <1>1, <1>2, <1>3 DEF Receipts!Refuse, Phase

\* The engine makes a change at most once, and for a call that was not told otherwise.
LEMMA RunImplements ==
    ASSUME IInv, NEW p \in Port, Run(p)
    PROVE  [Receipts!Next]_(Receipts!vars)
<1> DEFINE c == wire[p]
<1>1. c # NoCall /\ req' = req /\ status' = status
  BY DEF Run, hostVars
<1>2. {d \in Call : Durable(d)}' = {d \in Call : Durable(d)}
  BY <1>1 DEF Durable
<1>3. effect' = effect \/ (Durable(c) /\ effect' = effect \cup {c})
  BY DEF Run
<1>4. c \in Call /\ c \notin effect /\ status[c] \in {"active", "unknown"}
  BY <1>1 DEF IInv, TypeOK, HInv, Sched, WireOK, ActiveOK
<1>5. CASE effect' = effect
  BY <1>1, <1>2, <1>5 DEF Receipts!vars
<1>6. CASE Durable(c) /\ effect' = effect \cup {c}
  <2>1. Receipts!Effect(c)
    BY <1>1, <1>2, <1>4, <1>6 DEF Receipts!Effect
  <2> QED
    BY <1>4, <2>1 DEF Receipts!Next
<1> QED
  BY <1>3, <1>5, <1>6

LEMMA StepImplements ==
    ASSUME IInv, IInv', [Next]_vars
    PROVE  [Receipts!Next]_(Receipts!vars)
<1>1. ASSUME Moves PROVE Receipts!Next
  BY <1>1, MovesSettle DEF Receipts!Next
<1>2. ASSUME NEW c \in Call, Refuse(c) \/ Admit(c) \/ Close(c)
      PROVE  Receipts!Next
  <2>1. /\ status[c] = "idle" /\ req' = req /\ effect' = effect
        /\ \/ status' = [status EXCEPT ![c] = "queued"]
           \/ status' = [status EXCEPT ![c] = "none"]
    BY <1>2 DEF Refuse, Refused, Admit, Close, Enqueue, workerVars
  <2> QED
    BY <2>1, AdmissionIssues, RefusalRefuses DEF Receipts!Next
<1>3. ASSUME NEW c \in Call, Watched(c) \/ WatchFailed(c) \/ Cancel(c)
      PROVE  Moves
  BY <1>3, WatchedMoves, WithdrawMoves
<1>4. ASSUME NEW p \in Port, Receive(p) \/ ReceiveInvalid(p) \/ Dispose(p) \/ Closed(p)
      PROVE  Moves
  BY <1>4, PortMoves
<1>5. CASE Wake
  BY <1>5, <1>1, WakeMoves
<1>6. CASE Crash
  BY <1>6, <1>1, LossMoves
<1>7. CASE Quiet \/ UNCHANGED vars
  BY <1>7, <1>1 DEF Quiet, vars, hostVars, workerVars, Moves
<1>8. ASSUME NEW p \in Port, Run(p) PROVE [Receipts!Next]_(Receipts!vars)
  BY <1>8, RunImplements
<1> QED
  BY <1>1, <1>2, <1>3, <1>4, <1>5, <1>6, <1>7, <1>8 DEF Next, PortStep

\* The queue implements the promise about settlements, whatever is queued, posted, aborted,
\* closed or lost: a call settles once, and a change is made at most once, and never for a
\* caller that was told otherwise.
THEOREM Implementation == Spec => ImplementsReceipts
<1>1. Init => Receipts!Init
  BY DEF Init, Receipts!Init
<1>2. IInv /\ IInv' /\ [Next]_vars => [Receipts!Next]_(Receipts!vars)
  BY StepImplements
<1> QED
  BY <1>1, <1>2, Invariance, PTL DEF Spec, ImplementsReceipts, Receipts!Spec

-----------------------------------------------------------------------------
(* Two promises about the order of the queue: no wake-up is lost, and      *)
(* close() drains its port.                                                *)
(*                                                                         *)
(* For the first it is enough that a call which has not been made is not   *)
(* ready: an admission then never makes a head that could be posted, and   *)
(* every other step that frees the engine or changes a head also queues    *)
(* the microtask, or pumps.  For the second, the queue is shown to hold    *)
(* every queued call, the close last, with nothing behind it.              *)

\* A call that nobody has made has no abort listener.
Fresh == \A c \in Call : status[c] = "idle" => c \notin ready

\* What each step does to the readiness and the making of calls.
LEMMA FreshStep ==
    ASSUME IInv, [Next]_vars, Fresh
    PROVE  Fresh'
<1> SUFFICES ASSUME NEW c \in Call, status'[c] = "idle" PROVE c \notin ready'
  BY DEF Fresh
<1>0. status \in [Call -> Stage] /\ req \in [Call -> Request]
  BY Types
<1>1. ASSUME Moves, ready' = ready PROVE c \notin ready'
  BY <1>1 DEF Moves, Fresh
<1>2. ASSUME NEW d \in Call, Refuse(d) \/ Admit(d) \/ Close(d)
      PROVE  c \notin ready'
  BY <1>0, <1>2 DEF Refuse, Refused, Admit, Close, Enqueue, Fresh
<1>3. ASSUME NEW d \in Call, Watched(d) \/ WatchFailed(d) \/ Cancel(d)
      PROVE  c \notin ready'
  <2>1. Moves
    BY <1>3, WatchedMoves, WithdrawMoves
  <2>2. ready' = ready \/ (status[d] = "queued" /\ ready' = ready \cup {d})
    BY <1>3 DEF Watched, WatchFailed, Cancel, Unqueue, PumpAfter
  <2>3. c # d \/ status[d] # "queued"
    BY <2>1 DEF Moves
  <2> QED
    BY <2>1, <2>2, <2>3 DEF Moves, Fresh
<1>4. ASSUME NEW p \in Port, PortStep(p)
      PROVE  c \notin ready'
  <2>1. ready' = ready
    BY <1>4 DEF PortStep, Run, Receive, ReceiveInvalid, Dispose, Closed, CrashFrom, hostVars,
                PumpAfter
  <2>2. CASE Run(p)
    BY <2>1, <2>2 DEF Run, hostVars, Fresh
  <2> QED
    BY <1>4, <2>1, <2>2, <1>1, PortMoves DEF PortStep
<1>5. CASE Wake
  BY <1>5, <1>1, WakeMoves DEF Wake, PumpAfter
<1>6. CASE Crash
  BY <1>6, <1>1, LossMoves DEF Crash, CrashFrom
<1>7. CASE Quiet \/ UNCHANGED vars
  BY <1>7 DEF Quiet, vars, hostVars, Fresh
<1> QED
  BY <1>2, <1>3, <1>4, <1>5, <1>6, <1>7 DEF Next

-----------------------------------------------------------------------------
(* No wake-up is lost *)

Postable(p) == CanPost(p, queue[p], ready, active[p], shared.active)

\* Where pump() has run at port p over queue q, port p can post nothing, and another port
\* only what it could post before.
LEMMA PumpLeaves ==
    ASSUME IInv, NEW p \in Port, NEW st, NEW q, NEW rdy,
           NEW act, NEW budget,
           PumpAfter(p, st, q, rdy, act, budget),
           DOMAIN budget = {"jobs", "bytes", "active"},
           q # <<>> => Head(q) \in Call,
           stopped' = stopped
    PROVE  /\ ~Postable(p)'
           /\ \A r \in Port : r # p /\ Postable(r)' =>
                 CanPost(r, queue[r], rdy, active[r], budget.active)
<1>1. queue \in [Port -> Seq(Call)] /\ active \in [Port -> Call \cup {NoCall}]
  BY DEF IInv, TypeOK
<1>2. CASE CanPost(p, q, rdy, act, budget.active)
  <2>1. shared' = [budget EXCEPT !.active = TRUE]
    BY <1>2 DEF PumpAfter
  <2>2. shared'.active = TRUE
    BY <2>1
  <2> QED
    BY <2>2 DEF Postable, CanPost
<1>3. CASE ~CanPost(p, q, rdy, act, budget.active)
  <2>1. /\ queue' = [queue EXCEPT ![p] = q] /\ active' = [active EXCEPT ![p] = act]
        /\ shared' = budget /\ ready' = rdy
    BY <1>3 DEF PumpAfter
  <2> QED
    BY <1>1, <1>3, <2>1 DEF Postable, CanPost
<1> QED
  BY <1>2, <1>3

\* An admission behind the queue makes no port able to post.
LEMMA EnqueueLeaves ==
    ASSUME IInv, Fresh, NEW c \in Call, NEW p \in Port, status[c] = "idle",
           queue' = [queue EXCEPT ![p] = Append(@, c)],
           ready' = ready, active' = active, shared'.active = shared.active, stopped' = stopped,
           NEW r \in Port, Postable(r)'
    PROVE  Postable(r)
<1>1. queue \in [Port -> Seq(Call)] /\ c \notin ready
  BY DEF IInv, TypeOK, Fresh
<1>2. queue[p] \in Seq(Call)
  BY <1>1
<1>3. CASE r # p
  BY <1>1, <1>3 DEF Postable, CanPost
<1>4. CASE r = p
  <2>1. queue'[p] = Append(queue[p], c) /\ Head(queue'[p]) \in ready
    BY <1>1, <1>4 DEF Postable, CanPost
  <2>2. CASE queue[p] = <<>>
    BY <1>1, <2>1, <2>2
  <2>3. CASE queue[p] # <<>>
    <3>1. Len(queue[p]) \in Nat \ {0}
      BY <1>2, <2>3
    <3>2. /\ Append(queue[p], c)[1] = queue[p][1]
          /\ Head(Append(queue[p], c)) = Append(queue[p], c)[1]
          /\ Head(queue[p]) = queue[p][1]
      BY <1>2, <3>1
    <3>3. Head(queue'[p]) = Head(queue[p])
      BY <2>1, <3>2
    <3> QED
      BY <1>4, <2>1, <2>3, <3>3 DEF Postable, CanPost
  <2> QED
    BY <2>2, <2>3
<1> QED
  BY <1>3, <1>4

LEMMA WakeupStep ==
    ASSUME IInv, Fresh, [Next]_vars, NoLostWakeup
    PROVE  NoLostWakeup'
<1>0. /\ queue \in [Port -> Seq(Call)] /\ req \in [Call -> Request]
      /\ DOMAIN shared = {"jobs", "bytes", "active"}
      /\ wake \in BOOLEAN
  BY DEF IInv, TypeOK
<1> USE NoLostWakeup DEF NoLostWakeup
<1>1. ASSUME wake' PROVE NoLostWakeup'
  BY <1>1
<1>2. ASSUME wake' = wake, \A r \in Port : Postable(r)' => Postable(r)
      PROVE  NoLostWakeup'
  BY <1>2 DEF Postable
<1>3. ASSUME UNCHANGED <<queue, ready, active, shared, stopped, wake>>
      PROVE  NoLostWakeup'
  BY <1>3 DEF CanPost
<1>4. ASSUME NEW c \in Call, Refuse(c)
      PROVE  NoLostWakeup'
  BY <1>3, <1>4 DEF Refuse, Refused
<1>5. ASSUME NEW c \in Call, Admit(c) \/ Close(c)
      PROVE  NoLostWakeup'
  <2>1. PICK p \in Port : p = req[c].port
    BY <1>0, RequestAssumption
  <2>2. CASE Close(c) /\ p \in stopped
    BY <1>3, <2>1, <2>2 DEF Close
  <2>3. CASE Admit(c) \/ p \notin stopped
    <3>1. /\ status[c] = "idle" /\ queue' = [queue EXCEPT ![p] = Append(@, c)]
          /\ ready' = ready /\ active' = active /\ stopped' = stopped /\ wake' = wake
          /\ shared' = shared \/ shared' = [shared EXCEPT !.jobs = @ + 1, !.bytes = @ + req[c].size]
      BY <1>5, <2>1, <2>3 DEF Admit, Close, Enqueue, Behind
    <3>2. shared'.active = shared.active
      BY <1>0, <3>1
    <3> QED
      BY <1>2, <3>1, <3>2, EnqueueLeaves
  <2> QED
    BY <1>5, <2>2, <2>3
<1>6. ASSUME NEW c \in Call, Watched(c)
      PROVE  NoLostWakeup'
  <2>0. PICK p \in Port : p = req[c].port
    BY <1>0, RequestAssumption
  <2>1. PICK rdy, q, act : rdy = ready \cup {c} /\ q = queue[p] /\ act = active[p]
    OBVIOUS
  <2>2. /\ PumpAfter(p, status, q, rdy, act, shared)
        /\ stopped' = stopped /\ wake' = wake
    BY <1>6, <2>0, <2>1 DEF Watched
  <2>3. q # <<>> => Head(q) \in Call
    BY <1>0, <2>1
  <2>4. /\ ~Postable(p)'
        /\ \A r \in Port : r # p /\ Postable(r)' =>
              CanPost(r, queue[r], rdy, active[r], shared.active)
    BY <1>0, <2>2, <2>3, PumpLeaves
  <2>5. ASSUME NEW r \in Port, r # p, queue[r] # <<>>
        PROVE  Head(queue[r]) # c
    BY <2>0, <2>5, HeadQueued
  <2>6. \A r \in Port : Postable(r)' => Postable(r)
    BY <2>1, <2>4, <2>5 DEF Postable, CanPost
  <2> QED
    BY <1>2, <2>2, <2>6
<1>7. ASSUME NEW c \in Call, WatchFailed(c) \/ Cancel(c)
      PROVE  NoLostWakeup'
  BY <1>1, <1>3, <1>7 DEF WatchFailed, Cancel, Unqueue
<1>8. ASSUME NEW p \in Port, PortStep(p)
      PROVE  NoLostWakeup'
  BY <1>1, <1>3, <1>8 DEF PortStep, Run, Receive, ReceiveInvalid, Dispose, Closed, CrashFrom,
                          hostVars
<1>9. CASE Wake
  <2>1. stopped' = stopped
    BY <1>9 DEF Wake
  <2>2. ASSUME NEW p \in Port, Postable(p),
               PumpAfter(p, status, queue[p], ready, active[p], shared)
        PROVE  NoLostWakeup'
    <3>1. shared' = [shared EXCEPT !.active = TRUE]
      BY <2>2 DEF PumpAfter, Postable
    <3>2. shared'.active = TRUE
      BY <1>0, <3>1
    <3> QED
      BY <3>2 DEF CanPost
  <2>3. ASSUME \A p \in Port : ~Postable(p), UNCHANGED <<queue, ready, active, shared>>
        PROVE  NoLostWakeup'
    BY <2>1, <2>3 DEF CanPost, Postable
  <2> QED
    BY <1>9, <2>2, <2>3 DEF Wake, Postable
<1>10. CASE Crash
  BY <1>1, <1>10 DEF Crash, CrashFrom
<1>11. CASE Quiet \/ UNCHANGED vars
  BY <1>3, <1>11 DEF Quiet, vars, hostVars
<1> QED
  BY <1>4, <1>5, <1>6, <1>7, <1>8, <1>9, <1>10, <1>11 DEF Next

\* When the engine is idle and a port could post, the microtask that pumps it is queued, after
\* any admissions, aborts, answers and crashes (pump, release): no port stands still.
THEOREM Wakeups == Spec => []NoLostWakeup
<1>1. Init => Fresh /\ NoLostWakeup
  BY DEF Init, Fresh, NoLostWakeup, CanPost
<1>2. IInv /\ [Next]_vars /\ Fresh => Fresh'
  BY FreshStep
<1>3. IInv /\ Fresh /\ [Next]_vars /\ NoLostWakeup => NoLostWakeup'
  BY WakeupStep
<1> QED
  BY <1>1, <1>2, <1>3, Invariance, PTL DEF Spec

-----------------------------------------------------------------------------
(* close() drains *)

IsClose(c) == req[c].kind = "close"

\* Queued calls are in the queue of their port, a close is the last of its queue, and once it
\* is posted nothing is left.
LastIsClose(st, Q, A) ==
    /\ \A c \in Call : st[c] = "queued" => \E i \in DOMAIN Q[req[c].port] : Q[req[c].port][i] = c
    /\ \A p \in Port : \A i \in DOMAIN Q[p] : IsClose(Q[p][i]) => i = Len(Q[p])
    /\ \A p \in Port : A[p] # NoCall /\ IsClose(A[p]) => Q[p] = <<>>

\* A close that was made has shut its port.
ShutByClose == \A c \in Call : IsClose(c) /\ status[c] # "idle" => closing[req[c].port] # "open"

DInv == LastIsClose(status, queue, active) /\ ShutByClose /\ CloseDrains

\* pump() keeps the order that its handler left.
LEMMA PumpLast ==
    ASSUME IInv, NEW p \in Port, NEW st \in [Call -> Stage], NEW q \in Seq(Call), NEW rdy,
           NEW act \in Call \cup {NoCall}, NEW budget, NEW Q, NEW A,
           Updated(Q, queue, p, q), Updated(A, active, p, act),
           LastIsClose(st, Q, A), req' = req,
           PumpAfter(p, st, q, rdy, act, budget)
    PROVE  LastIsClose(status, queue, active)'
<1>1. /\ queue \in [Port -> Seq(Call)] /\ active \in [Port -> Call \cup {NoCall}]
      /\ req \in [Call -> Request]
  BY DEF IInv, TypeOK
<1>2. /\ Q \in [Port -> Seq(Call)] /\ Q[p] = q /\ \A r \in Port : r # p => Q[r] = queue[r]
      /\ A \in [Port -> Call \cup {NoCall}] /\ A[p] = act
      /\ \A r \in Port : r # p => A[r] = active[r]
  BY <1>1 DEF Updated
<1>3. CASE ~CanPost(p, q, rdy, act, budget.active)
  <2>1. status' = st /\ queue' = Q /\ active' = A
    BY <1>3 DEF PumpAfter, Updated
  <2> QED
    BY <2>1 DEF LastIsClose, IsClose
<1>4. CASE CanPost(p, q, rdy, act, budget.active)
  <2>1. /\ q # <<>> /\ status' = [st EXCEPT ![Head(q)] = "active"]
        /\ queue' = [queue EXCEPT ![p] = Tail(q)] /\ active' = [active EXCEPT ![p] = Head(q)]
    BY <1>4 DEF PumpAfter, CanPost
  <2>2. /\ Len(q) \in Nat \ {0} /\ Head(q) = q[1] /\ Tail(q) \in Seq(Call)
        /\ Len(Tail(q)) = Len(q) - 1 /\ \A i \in 1..(Len(q) - 1) : Tail(q)[i] = q[i+1]
    BY <2>1
  <2>3. /\ queue'[p] = Tail(q) /\ active'[p] = q[1] /\ q[1] \in Call
        /\ \A r \in Port : r # p => queue'[r] = Q[r] /\ active'[r] = A[r]
    BY <1>1, <1>2, <2>1, <2>2
  <2>4. ASSUME NEW c \in Call, status'[c] = "queued"
        PROVE  \E i \in DOMAIN queue'[req[c].port] : queue'[req[c].port][i] = c
    <3>1. st[c] = "queued" /\ c # q[1]
      BY <2>1, <2>2, <2>4, <2>3
    <3>2. PICK r \in Port : r = req[c].port
      BY <1>1, RequestAssumption
    <3>3. PICK i \in DOMAIN Q[r] : Q[r][i] = c
      BY <3>1, <3>2 DEF LastIsClose
    <3>4. CASE r # p
      BY <2>3, <3>2, <3>3, <3>4
    <3>5. CASE r = p
      <4>1. i \in 1..Len(q) /\ i # 1 /\ q[i] = c
        BY <1>2, <3>1, <3>3, <3>5
      <4>2. i - 1 \in 1..(Len(q) - 1) /\ Tail(q)[i - 1] = c
        BY <2>2, <4>1
      <4>3. i - 1 \in DOMAIN Tail(q)
        BY <2>2, <4>2
      <4> QED
        BY <2>3, <3>2, <3>5, <4>2, <4>3
    <3> QED
      BY <3>4, <3>5
  <2>5. ASSUME NEW r \in Port, NEW i \in DOMAIN queue'[r], IsClose(queue'[r][i])
        PROVE  i = Len(queue'[r])
    <3>1. CASE r # p
      BY <2>3, <2>5, <3>1 DEF LastIsClose
    <3>2. CASE r = p
      <4>1. i \in 1..(Len(q) - 1) /\ IsClose(q[i+1])
        BY <2>2, <2>3, <2>5, <3>2
      <4>2. i + 1 \in DOMAIN Q[p]
        BY <1>2, <2>2, <4>1
      <4>3. i + 1 = Len(q)
        BY <1>2, <4>1, <4>2 DEF LastIsClose
      <4> QED
        BY <2>2, <2>3, <3>2, <4>1, <4>3
    <3> QED
      BY <3>1, <3>2
  <2>6. ASSUME NEW r \in Port, active'[r] # NoCall, IsClose(active'[r])
        PROVE  queue'[r] = <<>>
    <3>1. CASE r # p
      BY <2>3, <2>6, <3>1 DEF LastIsClose
    <3>2. CASE r = p
      <4>1. 1 \in DOMAIN Q[p] /\ IsClose(Q[p][1])
        BY <1>2, <2>2, <2>3, <2>6, <3>2
      <4>2. Len(q) = 1
        BY <1>2, <4>1 DEF LastIsClose
      <4>3. Tail(q) = <<>>
        <5>1. \A t \in Seq(Call) : Len(t) = 0 => t = <<>>
          BY EmptySeq
        <5>2. Tail(q) \in Seq(Call) /\ Len(Tail(q)) = 0
          BY <2>2, <4>2
        <5> QED
          BY <5>1, <5>2, Zenon
      <4> QED
        BY <2>3, <3>2, <4>3
    <3> QED
      BY <3>1, <3>2
  <2> QED
    BY <2>4, <2>5, <2>6 DEF LastIsClose, IsClose
<1> QED
  BY <1>3, <1>4

\* A withdrawn call is not a close, which carries no signal; the others keep their order.
LEMMA UnqueueLast ==
    ASSUME IInv, DInv, NEW c \in Call, Unqueue(c)
    PROVE  LastIsClose(status, queue, active)'
<1>0. /\ queue \in [Port -> Seq(Call)] /\ active \in [Port -> Call \cup {NoCall}]
      /\ req \in [Call -> Request] /\ status \in [Call -> Stage]
  BY Types DEF IInv, TypeOK
<1>1. PICK p \in Port : p = req[c].port
  BY <1>0, RequestAssumption
<1> DEFINE st == [status EXCEPT ![c] = "none"]
<1>2. PICK i \in DOMAIN queue[p] :
        /\ queue[p][i] = c
        /\ PumpAfter(p, st, RemoveAt(queue[p], i), ready, active[p], Released(c))
  BY <1>1 DEF Unqueue
<1>3. PICK q, act, budget : q = RemoveAt(queue[p], i) /\ act = active[p] /\ budget = Released(c)
  OBVIOUS
<1>4. PumpAfter(p, st, q, ready, act, budget) /\ req' = req
  BY <1>2, <1>3 DEF Unqueue
<1>5. queue[p] \in Seq(Call) /\ Len(queue[p]) \in Nat /\ DOMAIN queue[p] = 1..Len(queue[p])
  BY <1>0
<1>6. /\ q \in Seq(Call) /\ Len(q) = Len(queue[p]) - 1 /\ DOMAIN q = 1..(Len(queue[p]) - 1)
      /\ \A j \in 1..(Len(queue[p]) - 1) :
            q[j] = IF j < i THEN queue[p][j] ELSE queue[p][j+1]
  <2>1. /\ q \in Seq(Call) /\ Len(q) = Len(queue[p]) - 1
        /\ \A j \in 1..(Len(queue[p]) - 1) :
              q[j] = IF j < i THEN queue[p][j] ELSE queue[p][j+1]
    BY <1>2, <1>3, <1>5, RemoveAtProperties
  <2> QED
    BY <2>1
<1>7. PICK Q, A : Updated(Q, queue, p, q) /\ Updated(A, active, p, act)
  BY DEF Updated
<1>8. /\ Q[p] = q /\ \A r \in Port : r # p => Q[r] = queue[r]
      /\ A = active /\ act \in Call \cup {NoCall}
  BY <1>0, <1>3, <1>7 DEF Updated
<1>9. st \in [Call -> Stage]
  BY <1>0 DEF Stage, Settlement
<1>10. LastIsClose(status, queue, active)
  BY DEF DInv
<1>11. ASSUME NEW d \in Call, st[d] = "queued"
       PROVE  \E j \in DOMAIN Q[req[d].port] : Q[req[d].port][j] = d
  <2>1. d # c /\ status[d] = "queued"
    BY <1>0, <1>11
  <2>2. PICK r \in Port : r = req[d].port
    BY <1>0, RequestAssumption
  <2>3. PICK j \in DOMAIN queue[r] : queue[r][j] = d
    BY <1>10, <2>1, <2>2 DEF LastIsClose
  <2>4. CASE r # p
    BY <1>8, <2>2, <2>3, <2>4
  <2>5. CASE r = p
    <3>1. j \in 1..Len(queue[p]) /\ i \in 1..Len(queue[p]) /\ j # i
      BY <1>2, <1>5, <2>1, <2>3, <2>5
    <3>2. CASE j < i
      <4>1. j \in 1..(Len(queue[p]) - 1)
        BY <1>5, <3>1, <3>2
      <4> QED
        BY <1>6, <1>8, <2>2, <2>3, <2>5, <3>2, <4>1
    <3>3. CASE ~(j < i)
      <4>1. j - 1 \in 1..(Len(queue[p]) - 1) /\ ~(j - 1 < i) /\ (j - 1) + 1 = j
        BY <1>5, <3>1, <3>3
      <4>2. q[j - 1] = queue[p][j] /\ j - 1 \in DOMAIN q
        BY <1>6, <4>1
      <4> QED
        BY <1>8, <2>2, <2>3, <2>5, <4>2
    <3> QED
      BY <3>2, <3>3
  <2> QED
    BY <2>4, <2>5
<1>12. ASSUME NEW r \in Port, NEW j \in DOMAIN Q[r], IsClose(Q[r][j])
       PROVE  j = Len(Q[r])
  <2>1. CASE r # p
    BY <1>8, <1>10, <1>12, <2>1 DEF LastIsClose
  <2>2. CASE r = p
    <3>1. j \in 1..(Len(queue[p]) - 1) /\ IsClose(q[j])
      BY <1>6, <1>8, <1>12, <2>2
    <3>2. CASE j < i
      <4>1. j \in DOMAIN queue[p] /\ IsClose(queue[p][j]) /\ j # Len(queue[p])
        BY <1>5, <1>6, <3>1, <3>2
      <4> QED
        BY <1>10, <4>1 DEF LastIsClose
    <3>3. CASE ~(j < i)
      <4>1. j + 1 \in DOMAIN queue[p] /\ IsClose(queue[p][j+1])
        BY <1>5, <1>6, <3>1, <3>3
      <4>2. j + 1 = Len(queue[p])
        BY <1>10, <4>1 DEF LastIsClose
      <4> QED
        BY <1>5, <1>6, <1>8, <2>2, <3>1, <4>2
    <3> QED
      BY <3>2, <3>3
  <2> QED
    BY <2>1, <2>2
<1>13. ASSUME NEW r \in Port, A[r] # NoCall, IsClose(A[r])
       PROVE  Q[r] = <<>>
  <2>1. queue[r] = <<>>
    BY <1>8, <1>10, <1>13 DEF LastIsClose
  <2>2. r # p
    BY <1>5, <1>2, <2>1
  <2> QED
    BY <1>8, <2>1, <2>2
<1>14. LastIsClose(st, Q, A)
  BY <1>11, <1>12, <1>13 DEF LastIsClose
<1> HIDE DEF st
<1> QED
  BY <1>4, <1>6, <1>7, <1>8, <1>9, <1>14, PumpLast

\* An answered call leaves the queue of its port as it was; if it is a close, nothing is
\* posted behind it.
LEMMA ReceiveLast ==
    ASSUME IInv, DInv, NEW p \in Port, Receive(p)
    PROVE  LastIsClose(status, queue, active)'
<1>0. /\ queue \in [Port -> Seq(Call)] /\ active \in [Port -> Call \cup {NoCall}]
      /\ status \in [Call -> Stage]
  BY Types DEF IInv, TypeOK
<1>1. PICK c : c = reply[p].call
  OBVIOUS
<1>2. PICK st, q, act, budget : /\ st = [status EXCEPT ![c] = Told(reply[p])]
                                 /\ q = queue[p] /\ act = NoCall /\ budget = Released(c)
  OBVIOUS
<1>3. /\ c = active[p] /\ c # NoCall /\ req' = req
      /\ PumpAfter(p, st, q, ready, act, budget)
  BY <1>1, <1>2 DEF Receive
<1>4. Told(reply[p]) \in Settlement
  BY DEF IInv, TypeOK, Told, Settlement
<1>5. st \in [Call -> Stage] /\ \A d \in Call : st[d] = "queued" => status[d] = "queued"
  BY <1>0, <1>2, <1>4 DEF Stage, Settlement
<1>6. PICK Q, A : Updated(Q, queue, p, q) /\ Updated(A, active, p, act)
  BY DEF Updated
<1>7. Q = queue /\ A[p] = NoCall /\ \A r \in Port : r # p => A[r] = active[r]
  BY <1>0, <1>2, <1>6 DEF Updated
<1>8. LastIsClose(st, Q, A)
  BY <1>5, <1>7 DEF DInv, LastIsClose
<1>9. q \in Seq(Call) /\ act \in Call \cup {NoCall}
  BY <1>0, <1>2
<1> QED
  BY <1>3, <1>5, <1>6, <1>8, <1>9, PumpLast

\* pump() over the queue as it is.
LEMMA PumpQueueLast ==
    ASSUME IInv, DInv, NEW p \in Port, NEW rdy, req' = req,
           PumpAfter(p, status, queue[p], rdy, active[p], shared)
    PROVE  LastIsClose(status, queue, active)'
<1>0. /\ queue \in [Port -> Seq(Call)] /\ active \in [Port -> Call \cup {NoCall}]
      /\ status \in [Call -> Stage]
  BY Types DEF IInv, TypeOK
<1>1. PICK q, act, st : q = queue[p] /\ act = active[p] /\ st = status
  OBVIOUS
<1>2. /\ Updated(queue, queue, p, q) /\ Updated(active, active, p, act)
      /\ q \in Seq(Call) /\ act \in Call \cup {NoCall}
  BY <1>0, <1>1 DEF Updated
<1>3. LastIsClose(st, queue, active)
  BY <1>1 DEF DInv
<1>4. PumpAfter(p, st, q, rdy, act, shared) /\ st \in [Call -> Stage]
  BY <1>0, <1>1
<1>5. PICK Q, A : Q = queue /\ A = active
  OBVIOUS
<1> QED
  BY <1>2, <1>3, <1>4, <1>5, PumpLast

\* An admitted call is the last of its queue; a close shuts the port for what comes after.
LEMMA EnqueueLast ==
    ASSUME IInv, DInv, NEW c \in Call, NEW p \in Port, p = req[c].port, status[c] = "idle",
           closing[p] = "open", req' = req, active' = active,
           status' = [status EXCEPT ![c] = "queued"],
           queue' = [queue EXCEPT ![p] = Append(@, c)]
    PROVE  LastIsClose(status, queue, active)'
<1>0. /\ queue \in [Port -> Seq(Call)] /\ active \in [Port -> Call \cup {NoCall}]
      /\ status \in [Call -> Stage] /\ req \in [Call -> Request]
  BY Types DEF IInv, TypeOK
<1>1. /\ queue[p] \in Seq(Call) /\ Len(queue[p]) \in Nat
      /\ queue'[p] = Append(queue[p], c) /\ \A r \in Port : r # p => queue'[r] = queue[r]
      /\ DOMAIN queue[p] = 1..Len(queue[p])
  BY <1>0
<1>2. /\ DOMAIN queue'[p] = 1..(Len(queue[p]) + 1) /\ Len(queue'[p]) = Len(queue[p]) + 1
      /\ queue'[p][Len(queue[p]) + 1] = c
      /\ \A i \in DOMAIN queue[p] : queue'[p][i] = queue[p][i]
  BY <1>1
<1>3. LastIsClose(status, queue, active)
  BY DEF DInv
<1>4. \A i \in DOMAIN queue[p] : ~IsClose(queue[p][i])
  <2>1. SUFFICES ASSUME NEW i \in DOMAIN queue[p], IsClose(queue[p][i]) PROVE FALSE
    OBVIOUS
  <2>2. queue[p][i] \in Call /\ status[queue[p][i]] = "queued" /\ req[queue[p][i]].port = p
    BY <1>1, HeadQueued
  <2> QED
    BY <2>1, <2>2 DEF DInv, ShutByClose
<1>5. active[p] # NoCall => ~IsClose(active[p])
  <2>1. SUFFICES ASSUME active[p] # NoCall, IsClose(active[p]) PROVE FALSE
    OBVIOUS
  <2>2. active[p] \in Call /\ status[active[p]] = "active" /\ req[active[p]].port = p
    BY <1>0, <2>1 DEF IInv, HInv, Sched, ActiveOK
  <2> QED
    BY <2>1, <2>2 DEF DInv, ShutByClose
<1>6. ASSUME NEW d \in Call, status'[d] = "queued"
      PROVE  \E i \in DOMAIN queue'[req[d].port] : queue'[req[d].port][i] = d
  <2>1. CASE d = c
    BY <1>1, <1>2, <2>1
  <2>2. CASE d # c
    <3>1. PICK r \in Port : r = req[d].port
      BY <1>0, RequestAssumption
    <3>2. PICK i \in DOMAIN queue[r] : queue[r][i] = d
      BY <1>0, <1>3, <1>6, <2>2, <3>1 DEF LastIsClose
    <3>3. i \in DOMAIN queue'[r] /\ queue'[r][i] = d
      BY <1>1, <1>2, <3>2
    <3> QED
      BY <3>1, <3>3
  <2> QED
    BY <2>1, <2>2
<1>7. ASSUME NEW r \in Port, NEW i \in DOMAIN queue'[r], IsClose(queue'[r][i])
      PROVE  i = Len(queue'[r])
  <2>1. CASE r # p
    BY <1>1, <1>3, <1>7, <2>1 DEF LastIsClose
  <2>2. CASE r = p
    BY <1>1, <1>2, <1>4, <1>7, <2>2
  <2> QED
    BY <2>1, <2>2
<1>8. ASSUME NEW r \in Port, active[r] # NoCall, IsClose(active[r])
      PROVE  queue'[r] = <<>>
  BY <1>1, <1>3, <1>5, <1>8 DEF LastIsClose
<1> QED
  BY <1>6, <1>7, <1>8 DEF LastIsClose, IsClose

LEMMA CrashLast ==
    ASSUME IInv, NEW st \in [Call -> Stage], CrashFrom(st)
    PROVE  LastIsClose(status, queue, active)'
<1>1. /\ status' = [c \in Call |-> Crashed(st[c])] /\ queue' = [p \in Port |-> <<>>]
      /\ active' = [p \in Port |-> NoCall]
  BY DEF CrashFrom
<1>2. \A c \in Call : status'[c] # "queued"
  BY <1>1 DEF Crashed
<1> QED
  BY <1>1, <1>2 DEF LastIsClose

LEMMA LastStep ==
    ASSUME IInv, DInv, [Next]_vars
    PROVE  LastIsClose(status, queue, active)'
<1>0. req \in [Call -> Request] /\ status \in [Call -> Stage]
  BY Types
<1>1. ASSUME UNCHANGED <<req, status, queue, active>>
      PROVE  LastIsClose(status, queue, active)'
  BY <1>1 DEF DInv, LastIsClose, IsClose
<1>2. ASSUME NEW c \in Call, Refuse(c) \/ Admit(c) \/ Close(c)
      PROVE  LastIsClose(status, queue, active)'
  <2>1. PICK p \in Port : p = req[c].port
    BY <1>0, RequestAssumption
  <2>2. CASE /\ status[c] = "idle" /\ status' = [status EXCEPT ![c] = "none"]
             /\ UNCHANGED <<req, queue, active>>
    <3>1. \A d \in Call : status'[d] = "queued" => status[d] = "queued"
      BY <1>0, <2>2
    <3> QED
      BY <2>2, <3>1 DEF DInv, LastIsClose, IsClose
  <2>3. CASE (Admit(c) \/ Close(c)) /\ status' = [status EXCEPT ![c] = "queued"]
    <3>1. /\ status[c] = "idle" /\ closing[p] = "open" /\ req' = req /\ active' = active
          /\ queue' = [queue EXCEPT ![p] = Append(@, c)]
      BY <1>0, <2>1, <2>3 DEF Admit, Close, Shut, Enqueue, Behind
    <3> QED
      BY <2>1, <2>3, <3>1, EnqueueLast
  <2> QED
    BY <1>2, <2>1, <2>2, <2>3 DEF Refuse, Refused, Admit, Close, Enqueue
<1>3. ASSUME NEW c \in Call, Watched(c)
      PROVE  LastIsClose(status, queue, active)'
  <2>1. PICK p \in Port : p = req[c].port
    BY <1>0, RequestAssumption
  <2>2. PICK rdy : rdy = ready \cup {c}
    OBVIOUS
  <2>3. PumpAfter(p, status, queue[p], rdy, active[p], shared) /\ req' = req
    BY <1>3, <2>1, <2>2 DEF Watched
  <2> QED
    BY <2>3, PumpQueueLast
<1>4. ASSUME NEW c \in Call, WatchFailed(c) \/ Cancel(c)
      PROVE  LastIsClose(status, queue, active)'
  BY <1>1, <1>4, UnqueueLast DEF WatchFailed, Cancel
<1>5. ASSUME NEW p \in Port, Run(p) \/ Dispose(p) \/ Closed(p)
      PROVE  LastIsClose(status, queue, active)'
  BY <1>1, <1>5 DEF Run, Dispose, Closed, hostVars
<1>6. ASSUME NEW p \in Port, Receive(p)
      PROVE  LastIsClose(status, queue, active)'
  BY <1>6, ReceiveLast
<1>7. ASSUME NEW p \in Port, ReceiveInvalid(p)
      PROVE  LastIsClose(status, queue, active)'
  <2>1. PICK st : st = [status EXCEPT ![reply[p].call] = reply[p].completion]
    OBVIOUS
  <2>2. CrashFrom(st) /\ st \in [Call -> Stage]
    BY <1>0, <1>7, <2>1 DEF ReceiveInvalid, IInv, TypeOK, Stage, Settlement
  <2> QED
    BY <2>2, CrashLast
<1>8. CASE Wake
  BY <1>1, <1>8, PumpQueueLast DEF Wake
<1>9. CASE Crash
  BY <1>0, <1>9, CrashLast DEF Crash
<1>10. CASE Quiet \/ UNCHANGED vars
  BY <1>1, <1>10 DEF Quiet, vars, hostVars
<1> QED
  BY <1>2, <1>3, <1>4, <1>5, <1>6, <1>7, <1>8, <1>9, <1>10 DEF Next, PortStep

\* A port that a close has shut does not open again.
LEMMA ShutStep ==
    ASSUME IInv, DInv, [Next]_vars
    PROVE  ShutByClose'
<1> SUFFICES ASSUME NEW c \in Call, IsClose(c)', status'[c] # "idle"
             PROVE  closing'[req'[c].port] # "open"
  BY DEF ShutByClose
<1>0. /\ status \in [Call -> Stage] /\ req \in [Call -> Request]
      /\ closing \in [Port -> {"open", "closing", "closed"}]
  BY Types DEF IInv, TypeOK
<1>1. req' = req
  BY DEF Next, Refuse, Refused, Admit, Close, Watched, WatchFailed, Cancel, Unqueue, PortStep,
         Run, Receive, ReceiveInvalid, Dispose, Closed, Wake, Crash, CrashFrom, Quiet, vars
<1>2. req' = req /\ req[c].port \in Port
  BY <1>0, <1>1, RequestAssumption
<1>3. IsClose(c)
  BY <1>2 DEF IsClose
<1>4. CASE status[c] # "idle"
  <2>1. closing[req[c].port] # "open"
    BY <1>3, <1>4 DEF DInv, ShutByClose
  <2>2. ASSUME closing' = closing \/ \E p \in Port : \/ closing' = [closing EXCEPT ![p] = "closing"]
                                                      \/ closing' = [closing EXCEPT ![p] = "closed"]
        PROVE  closing'[req'[c].port] # "open"
    BY <1>0, <1>2, <2>1, <2>2
  <2>3. ASSUME NEW d \in Call,
               Refuse(d) \/ Admit(d) \/ Close(d) \/ Watched(d) \/ WatchFailed(d) \/ Cancel(d)
        PROVE  closing'[req'[c].port] # "open"
    <3>1. req[d].port \in Port
      BY <1>0, RequestAssumption
    <3>2. closing' = closing \/ closing' = [closing EXCEPT ![req[d].port] = "closing"]
      BY <2>3 DEF Refuse, Refused, Admit, Close, Watched, WatchFailed, Cancel, Unqueue
    <3> QED
      BY <2>2, <3>1, <3>2
  <2>4. ASSUME NEW p \in Port, PortStep(p)
        PROVE  closing'[req'[c].port] # "open"
    <3>1. closing' = closing \/ closing' = [closing EXCEPT ![p] = "closed"]
      BY <2>4 DEF PortStep, Run, Receive, ReceiveInvalid, Dispose, Closed, CrashFrom, hostVars
    <3> QED
      BY <2>2, <3>1
  <2>5. CASE Wake \/ Crash \/ Quiet \/ UNCHANGED vars
    <3>1. closing' = closing
      BY <2>5 DEF Wake, Crash, CrashFrom, Quiet, vars, hostVars
    <3> QED
      BY <2>2, <3>1
  <2> QED
    BY <2>3, <2>4, <2>5 DEF Next
<1>5. CASE status[c] = "idle"
  <2>1. ~Moves /\ status' # status
    BY <1>5 DEF Moves
  <2>2. PICK d \in Call : Refuse(d) \/ Admit(d) \/ Close(d)
    BY <2>1, WatchedMoves, WithdrawMoves, PortMoves, WakeMoves, LossMoves
       DEF Next, PortStep, Run, Quiet, vars, hostVars
  <2>3. status' = [status EXCEPT ![d] = "none"] \/ status' = [status EXCEPT ![d] = "queued"]
    BY <2>2 DEF Refuse, Refused, Admit, Close, Enqueue
  <2>4. d = c
    BY <1>0, <1>5, <2>3
  <2>5. closing' = [closing EXCEPT ![req[c].port] = "closing"]
    BY <1>3, <2>2, <2>4 DEF Refuse, Admit, Close, IsClose
  <2> QED
    BY <1>0, <1>2, <2>5
<1> QED
  BY <1>4, <1>5

-----------------------------------------------------------------------------
\* Nothing reaches the wire of a port on which nothing is outstanding.
LEMMA StaysDrained ==
    ASSUME IInv, DInv, [Next]_vars, NEW d \in Call, IsClose(d), status[d] = "ok"
    PROVE  (OnPort(req[d].port) = {} /\ wire[req[d].port] = NoCall)'
<1>0. /\ status \in [Call -> Stage] /\ req \in [Call -> Request]
      /\ wire \in [Port -> Call \cup {NoCall}]
  BY Types DEF IInv, TypeOK
<1>1. PICK p \in Port : p = req[d].port
  BY <1>0, RequestAssumption
<1>2. OnPort(p) = {} /\ wire[p] = NoCall /\ closing[p] # "open"
  BY <1>1 DEF DInv, CloseDrains, ShutByClose, IsClose
<1>3. ASSUME Moves
      PROVE  OnPort(p)' = {} /\ wire'[p] = NoCall /\ req' = req
  BY <1>2, <1>3 DEF Moves, OnPort, Outstanding
<1>4. ASSUME NEW c \in Call, Refuse(c) \/ Admit(c) \/ Close(c)
      PROVE  OnPort(p)' = {} /\ wire'[p] = NoCall /\ req' = req
  <2>1. wire' = wire /\ req' = req
    BY <1>4 DEF Refuse, Refused, Admit, Close, workerVars
  <2>2. \/ status' = [status EXCEPT ![c] = "none"]
        \/ req[c].port # p /\ status' = [status EXCEPT ![c] = "queued"]
    BY <1>2, <1>4 DEF Refuse, Refused, Admit, Close, Shut, Enqueue
  <2>3. OnPort(p)' = {}
    BY <1>0, <1>2, <2>1, <2>2 DEF OnPort, Outstanding
  <2> QED
    BY <1>2, <2>1, <2>3
<1>5. ASSUME NEW r \in Port, Run(r)
      PROVE  OnPort(p)' = {} /\ wire'[p] = NoCall /\ req' = req
  BY <1>0, <1>2, <1>5 DEF Run, hostVars, OnPort, Outstanding
<1>6. ASSUME Quiet \/ UNCHANGED vars
      PROVE  OnPort(p)' = {} /\ wire'[p] = NoCall /\ req' = req
  BY <1>2, <1>6 DEF Quiet, vars, hostVars, workerVars, OnPort, Outstanding
<1> QED
  BY <1>1, <1>3, <1>4, <1>5, <1>6, WatchedMoves, WithdrawMoves, PortMoves, WakeMoves, LossMoves
     DEF Next, PortStep

\* A close succeeds only by its answer.
LEMMA SucceedsByAnswer ==
    ASSUME IInv, [Next]_vars, NEW d \in Call, status[d] # "ok", status'[d] = "ok"
    PROVE  \E p \in Port : Receive(p) /\ reply[p].call = d
<1>0. status \in [Call -> Stage]
  BY Types
<1>1. ASSUME NEW p, NEW st, NEW q, NEW rdy, NEW act, NEW budget,
             PumpAfter(p, st, q, rdy, act, budget), st \in [Call -> Stage], st[d] # "ok"
      PROVE  FALSE
  BY <1>1 DEF PumpAfter
<1>2. ASSUME NEW st, CrashFrom(st), st[d] # "ok"
      PROVE  FALSE
  BY <1>2 DEF CrashFrom, Crashed
<1>3. ASSUME NEW c \in Call, Refuse(c) \/ Admit(c) \/ Close(c)
      PROVE  FALSE
  BY <1>0, <1>3 DEF Refuse, Refused, Admit, Close, Enqueue
<1>4. ASSUME NEW c \in Call, Unqueue(c)
      PROVE  FALSE
  <2>1. PICK st : st = [status EXCEPT ![c] = "none"]
    OBVIOUS
  <2>2. st \in [Call -> Stage] /\ st[d] # "ok"
    BY <1>0, <2>1 DEF Stage, Settlement
  <2>3. PICK q, p, act, budget : PumpAfter(p, st, q, ready, act, budget)
    BY <1>4, <2>1 DEF Unqueue
  <2> QED
    BY <1>1, <2>2, <2>3
<1>5. ASSUME NEW c \in Call, Watched(c) \/ WatchFailed(c) \/ Cancel(c)
      PROVE  FALSE
  <2>1. CASE Watched(c)
    <3>1. PICK st, q, rdy, p, act, budget : st = status /\ PumpAfter(p, st, q, rdy, act, budget)
      BY <2>1 DEF Watched
    <3> QED
      BY <1>0, <1>1, <3>1
  <2> QED
    BY <1>4, <1>5, <2>1 DEF WatchFailed, Cancel
<1>6. CASE Wake
  <2>1. CASE status' = status
    BY <2>1
  <2>2. CASE \E p \in Port : PumpAfter(p, status, queue[p], ready, active[p], shared)
    <3>1. PICK st, q, rdy, p, act, budget : st = status /\ PumpAfter(p, st, q, rdy, act, budget)
      BY <2>2
    <3> QED
      BY <1>0, <1>1, <3>1
  <2> QED
    BY <1>6, <2>1, <2>2 DEF Wake
<1>7. ASSUME NEW p \in Port, ReceiveInvalid(p)
      PROVE  FALSE
  <2>1. PICK st : st = [status EXCEPT ![reply[p].call] = reply[p].completion]
    OBVIOUS
  <2>2. CrashFrom(st) /\ st[d] # "ok"
    BY <1>0, <1>7, <2>1 DEF ReceiveInvalid, IInv, TypeOK
  <2> QED
    BY <1>2, <2>2
<1>8. ASSUME NEW p \in Port, Receive(p), reply[p].call # d
      PROVE  FALSE
  <2>1. PICK st, q, act, budget : /\ st = [status EXCEPT ![reply[p].call] = Told(reply[p])]
                                   /\ PumpAfter(p, st, q, ready, act, budget)
    BY <1>8 DEF Receive
  <2>2. Told(reply[p]) \in Settlement
    BY DEF IInv, TypeOK, Told, Settlement
  <2>3. st \in [Call -> Stage] /\ st[d] # "ok"
    BY <1>0, <1>8, <2>1, <2>2 DEF Stage
  <2> QED
    BY <1>1, <2>1, <2>3
<1>9. CASE Crash
  BY <1>2, <1>9 DEF Crash
<1>10. ASSUME NEW p \in Port, Run(p) \/ Dispose(p) \/ Closed(p)
       PROVE  FALSE
  BY <1>10 DEF Run, Dispose, Closed, hostVars
<1>11. CASE Quiet \/ UNCHANGED vars
  BY <1>11 DEF Quiet, vars, hostVars
<1> QED
  BY <1>3, <1>5, <1>6, <1>7, <1>8, <1>9, <1>10, <1>11 DEF Next, PortStep

LEMMA DrainStep ==
    ASSUME IInv, IInv', DInv, LastIsClose(status, queue, active)', [Next]_vars
    PROVE  CloseDrains'
<1> SUFFICES ASSUME NEW d \in Call, (IsClose(d) /\ status[d] = "ok")'
             PROVE  (OnPort(req[d].port) = {} /\ wire[req[d].port] = NoCall)'
  BY DEF CloseDrains, IsClose
<1>0. /\ status \in [Call -> Stage] /\ req \in [Call -> Request]
      /\ queue \in [Port -> Seq(Call)] /\ active \in [Port -> Call \cup {NoCall}]
  BY Types DEF IInv, TypeOK
<1>1. req' = req /\ IsClose(d)
  BY DEF Next, Refuse, Refused, Admit, Close, Watched, WatchFailed, Cancel, Unqueue, PortStep,
         Run, Receive, ReceiveInvalid, Dispose, Closed, Wake, Crash, CrashFrom, Quiet, vars,
         IsClose
<1>2. CASE status[d] = "ok"
  BY <1>1, <1>2, StaysDrained
<1>3. CASE status[d] # "ok"
  <2>1. PICK p \in Port : Receive(p) /\ reply[p].call = d
    BY <1>3, SucceedsByAnswer
  <2>2. d = active[p] /\ d # NoCall /\ p \notin stopped
    BY <2>1 DEF Receive
  <2>3. req[d].port = p /\ queue[p] = <<>> /\ wire[p] = NoCall
    BY <1>1, <2>1, <2>2 DEF IInv, HInv, Sched, ActiveOK, ReplyOK, DInv, LastIsClose
  <2>4. queue'[p] = <<>> /\ active'[p] = NoCall /\ wire' = wire
    BY <1>0, <2>1, <2>3 DEF Receive, PumpAfter, CanPost
  <2>5. ASSUME NEW c \in Call, req[c].port = p
        PROVE  status'[c] \notin {"queued", "active"}
    <3>1. status'[c] = "queued" => \E i \in DOMAIN queue'[p] : queue'[p][i] = c
      BY <1>1, <2>5 DEF LastIsClose
    <3>2. status'[c] # "queued"
      BY <2>4, <3>1
    <3>3. status'[c] = "active" => active'[p] = c
      BY <1>1, <2>5 DEF IInv, HInv, Sched, ActiveOK
    <3>4. c # NoCall
      BY CallAssumption
    <3> QED
      BY <2>4, <3>2, <3>3, <3>4
  <2> QED
    BY <1>1, <2>3, <2>4, <2>5 DEF OnPort, Outstanding
<1> QED
  BY <1>2, <1>3

\* close() drains its port: when it succeeds, every call admitted there has settled and
\* nothing of that port reaches the engine any more, however many calls, ports and aborts
\* (close, pump, cancel).
THEOREM Drained == Spec => []CloseDrains
<1>1. Init => DInv
  BY DEF Init, DInv, LastIsClose, ShutByClose, CloseDrains
<1>2. IInv /\ IInv' /\ DInv /\ [Next]_vars => DInv'
  BY LastStep, ShutStep, DrainStep DEF DInv
<1>3. DInv => CloseDrains
  BY DEF DInv
<1> QED
  BY <1>1, <1>2, <1>3, Invariance, PTL DEF Spec

-----------------------------------------------------------------------------
(***************************************************************************)
(* Sums of sizes.  Size is a fold, a function that is recursive over the   *)
(* subsets of the set it sums.  That this function exists, and does not    *)
(* depend on the order in which it takes the elements, is proved from the  *)
(* well-foundedness of the strict subset relation: a least set for which   *)
(* it failed would have an element, and the rest of it would be smaller.   *)
(***************************************************************************)
Element(s) == CHOOSE c \in s : TRUE
Weigh(r, T, g) ==
    [s \in SUBSET T |-> IF s = {} THEN 0 ELSE r[Element(s)].size + g[s \ {Element(s)}]]
Sums(r, T, g) == g = Weigh(r, T, g)
Total(r, T) == (CHOOSE g : Sums(r, T, g))[T]

\* What the host's sum of sizes is: a value of that function.
LEMMA SizeIsTotal == ASSUME NEW S PROVE Size(S) = Total(req, S)
BY DEF Size, MapThenSumSet, MapThenFoldSet, Total, Sums, Weigh, Element

\* The element a nonempty set is split at.
LEMMA ElementOf == ASSUME NEW s, s # {} PROVE Element(s) \in s
BY DEF Element

\* What is true of a finite set as soon as it is true of its strict subsets is true of it.
LEMMA LeastCounterexample ==
    ASSUME NEW S, IsFiniteSet(S), NEW B \in SUBSET (SUBSET S), B # {}
    PROVE  \E m \in B : \A s \in SUBSET m : s # m => s \notin B
<1>1. B \subseteq FiniteSubsetsOf(S)
  BY FS_Subset DEF FiniteSubsetsOf
<1>2. PICK m \in B : \A s \in B : <<s, m>> \notin StrictSubsetOrdering(S)
  BY <1>1, WFMin, FS_StrictSubsetOrderingWellFounded
<1>3. ASSUME NEW s \in SUBSET m, s # m, s \in B PROVE FALSE
  <2>1. <<s, m>> \in StrictSubsetOrdering(S)
    BY <1>1, <1>3 DEF StrictSubsetOrdering
  <2> QED
    BY <1>2, <1>3, <2>1
<1> QED
  BY <1>3

\* A value of the recursion.
LEMMA SumsAt ==
    ASSUME NEW r, NEW T, NEW g, Sums(r, T, g), NEW s \in SUBSET T
    PROVE  g[s] = IF s = {} THEN 0 ELSE r[Element(s)].size + g[s \ {Element(s)}]
BY DEF Sums, Weigh

\* Two functions that satisfy the recursion agree where both are defined.
LEMMA SumsAgree ==
    ASSUME NEW r, NEW T, NEW U, NEW g, NEW h, Sums(r, T, g), Sums(r, U, h),
           NEW X, X \subseteq T, X \subseteq U, IsFiniteSet(X)
    PROVE  g[X] = h[X]
<1> DEFINE B == {s \in SUBSET X : g[s] # h[s]}
<1> SUFFICES ASSUME B # {} PROVE FALSE
  OBVIOUS
<1>1. PICK m \in B : \A s \in SUBSET m : s # m => s \notin B
  <2>1. B \in SUBSET (SUBSET X) /\ B # {}
    OBVIOUS
  <2> HIDE DEF B
  <2> QED
    BY <2>1, LeastCounterexample
<1>2. m \in SUBSET T /\ m \in SUBSET U /\ m \in SUBSET X /\ g[m] # h[m]
  OBVIOUS
<1>3. m # {}
  BY <1>2, SumsAt
<1> DEFINE rest == m \ {Element(m)}
<1>4. rest \in SUBSET m /\ rest # m
  BY <1>3, ElementOf
<1>5. g[rest] = h[rest]
  BY <1>1, <1>2, <1>4
<1>6. g[m] = r[Element(m)].size + g[rest] /\ h[m] = r[Element(m)].size + h[rest]
  BY <1>2, <1>3, SumsAt
<1> QED
  BY <1>2, <1>5, <1>6

\* The recursion has a solution over any finite set.
LEMMA SumsExist ==
    ASSUME NEW r, NEW S, IsFiniteSet(S)
    PROVE  \E g : Sums(r, S, g)
<1> DEFINE B == {T \in SUBSET S : ~\E g : Sums(r, T, g)}
<1> SUFFICES ASSUME B # {} PROVE FALSE
  OBVIOUS
<1>1. PICK T \in B : \A s \in SUBSET T : s # T => s \notin B
  <2>1. B \in SUBSET (SUBSET S) /\ B # {}
    OBVIOUS
  <2> HIDE DEF B
  <2> QED
    BY <2>1, LeastCounterexample
<1> DEFINE G(U) == CHOOSE h : Sums(r, U, h)
           part(s) == G(s \ {Element(s)})[s \ {Element(s)}]
           g == [s \in SUBSET T |-> IF s = {} THEN 0 ELSE r[Element(s)].size + part(s)]
<1>2. T \in SUBSET S /\ ~\E h : Sums(r, T, h)
  OBVIOUS
<1>3. ASSUME NEW U \in SUBSET T, U # T PROVE Sums(r, U, G(U))
  <2>1. \E h : Sums(r, U, h)
    BY <1>1, <1>2, <1>3
  <2> QED
    BY <2>1
<1>4. ASSUME NEW U \in SUBSET T, U # T PROVE g[U] = G(U)[U]
  <2>1. Sums(r, U, G(U))
    BY <1>3, <1>4
  <2>2. G(U)[U] = IF U = {} THEN 0 ELSE r[Element(U)].size + G(U)[U \ {Element(U)}]
    <3>1. U \in SUBSET U
      OBVIOUS
    <3> HIDE DEF G
    <3> QED
      BY <2>1, <3>1, SumsAt
  <2>3. CASE U = {}
    BY <2>2, <2>3
  <2>4. CASE U # {}
    <3> DEFINE V == U \ {Element(U)}
    <3>1. V \in SUBSET T /\ V # T /\ V \subseteq U
      BY <2>4, ElementOf
    <3>2. Sums(r, V, G(V))
      BY <1>3, <3>1
    <3>3. IsFiniteSet(V)
      BY <1>2, <3>1, FS_Subset
    <3>4. G(V)[V] = G(U)[V]
      <4> HIDE DEF G, V
      <4> QED
        BY <2>1, <3>1, <3>2, <3>3, SumsAgree
    <3>5. g[U] = r[Element(U)].size + G(V)[V]
      BY <2>4
    <3> QED
      BY <2>2, <2>4, <3>4, <3>5
  <2> QED
    BY <2>3, <2>4
<1>5. Sums(r, T, g)
  <2>1. ASSUME NEW s \in SUBSET T, s # {} PROVE part(s) = g[s \ {Element(s)}]
    <3>1. s \ {Element(s)} \in SUBSET T /\ s \ {Element(s)} # T
      BY <2>1, ElementOf
    <3> HIDE DEF G, g
    <3> QED
      BY <1>4, <3>1
  <2>2. g = [s \in SUBSET T |-> IF s = {} THEN 0 ELSE r[Element(s)].size + g[s \ {Element(s)}]]
    <3>1. \A s \in SUBSET T : (IF s = {} THEN 0 ELSE r[Element(s)].size + part(s))
             = IF s = {} THEN 0 ELSE r[Element(s)].size + g[s \ {Element(s)}]
      <4> HIDE DEF part, g
      <4> QED
        BY <2>1
    <3> HIDE DEF part
    <3> QED
      BY <3>1
  <2> QED
    BY <2>2 DEF Sums, Weigh
<1> QED
  BY <1>2, <1>5

\* The total of a set is the size of one element and the total of the others.
LEMMA TotalRecursion ==
    ASSUME NEW r, NEW S, IsFiniteSet(S)
    PROVE  Total(r, S) = IF S = {} THEN 0
                         ELSE r[Element(S)].size + Total(r, S \ {Element(S)})
<1> DEFINE G(U) == CHOOSE h : Sums(r, U, h)
           rest == S \ {Element(S)}
<1>1. IsFiniteSet(rest)
  BY FS_Subset
<1>2. Sums(r, S, G(S)) /\ Sums(r, rest, G(rest))
  BY <1>1, SumsExist
<1>3. Total(r, S) = G(S)[S] /\ Total(r, rest) = G(rest)[rest]
  BY DEF Total
<1>4. G(S)[S] = IF S = {} THEN 0 ELSE r[Element(S)].size + G(S)[rest]
  <2>1. S \in SUBSET S
    OBVIOUS
  <2> HIDE DEF G
  <2> QED
    BY <1>2, <2>1, SumsAt
<1>5. G(S)[rest] = G(rest)[rest]
  <2>1. rest \subseteq S /\ rest \subseteq rest
    OBVIOUS
  <2> HIDE DEF G, rest
  <2> QED
    BY <1>1, <1>2, <2>1, SumsAgree
<1> QED
  BY <1>3, <1>4, <1>5

\* It is a number.
LEMMA TotalType ==
    ASSUME NEW r, NEW S, IsFiniteSet(S), \A c \in S : r[c].size \in Nat
    PROVE  Total(r, S) \in Nat
<1> DEFINE B == {s \in SUBSET S : Total(r, s) \notin Nat}
<1> SUFFICES ASSUME B # {} PROVE FALSE
  OBVIOUS
<1>1. PICK m \in B : \A s \in SUBSET m : s # m => s \notin B
  <2>1. B \in SUBSET (SUBSET S) /\ B # {}
    OBVIOUS
  <2> HIDE DEF B
  <2> QED
    BY <2>1, LeastCounterexample
<1>2. m \in SUBSET S /\ IsFiniteSet(m) /\ Total(r, m) \notin Nat
  BY FS_Subset
<1>3. m # {}
  <2>1. m = {} => Total(r, m) = 0
    BY <1>2, TotalRecursion
  <2> QED
    BY <1>2, <2>1
<1> DEFINE rest == m \ {Element(m)}
<1>4. rest \in SUBSET m /\ rest # m /\ Element(m) \in S
  BY <1>2, <1>3, ElementOf
<1>5. Total(r, rest) \in Nat
  BY <1>1, <1>2, <1>4
<1>6. Total(r, m) = r[Element(m)].size + Total(r, rest)
  BY <1>2, <1>3, TotalRecursion
<1>7. r[Element(m)].size \in Nat
  BY <1>4
<1> QED
  BY <1>2, <1>5, <1>6, <1>7

\* Any element may be the one the total is split at.
LEMMA TotalWithout ==
    ASSUME NEW r, NEW S, IsFiniteSet(S), \A c \in S : r[c].size \in Nat, NEW x \in S
    PROVE  Total(r, S) = r[x].size + Total(r, S \ {x})
<1> DEFINE Each(s) == \A y \in s : Total(r, s) = r[y].size + Total(r, s \ {y})
           B == {s \in SUBSET S : ~Each(s)}
<1> SUFFICES ASSUME B # {} PROVE FALSE
  <2>1. S \in SUBSET S
    OBVIOUS
  <2> QED
    BY <2>1
<1>1. PICK m \in B : \A s \in SUBSET m : s # m => s \notin B
  <2>1. B \in SUBSET (SUBSET S) /\ B # {}
    OBVIOUS
  <2> HIDE DEF B
  <2> QED
    BY <2>1, LeastCounterexample
<1>2. m \in SUBSET S /\ IsFiniteSet(m) /\ ~Each(m)
  BY FS_Subset
<1>3. PICK y \in m : Total(r, m) # r[y].size + Total(r, m \ {y})
  BY <1>2
<1> DEFINE c == Element(m)
<1>4. c \in m /\ Total(r, m) = r[c].size + Total(r, m \ {c})
  BY <1>2, <1>3, ElementOf, TotalRecursion
<1>5. y # c
  BY <1>3, <1>4
<1> HIDE DEF c
<1>6. Each(m \ {c}) /\ Each(m \ {y})
  <2>1. m \ {c} \in SUBSET m /\ m \ {c} # m /\ m \ {y} \in SUBSET m /\ m \ {y} # m
    BY <1>3, <1>4
  <2>2. m \ {c} \in SUBSET S /\ m \ {y} \in SUBSET S
    BY <1>2
  <2> HIDE DEF Each
  <2> QED
    BY <1>1, <2>1, <2>2
<1>7. /\ Total(r, m \ {c}) = r[y].size + Total(r, (m \ {c}) \ {y})
      /\ Total(r, m \ {y}) = r[c].size + Total(r, (m \ {y}) \ {c})
  BY <1>3, <1>4, <1>5, <1>6
<1>8. (m \ {c}) \ {y} = (m \ {y}) \ {c}
  OBVIOUS
<1>9. r[y].size \in Nat /\ r[c].size \in Nat /\ Total(r, (m \ {c}) \ {y}) \in Nat
  <2>1. IsFiniteSet((m \ {c}) \ {y}) /\ (m \ {c}) \ {y} \subseteq S
    BY <1>2, FS_Subset
  <2>2. Total(r, (m \ {c}) \ {y}) \in Nat
    BY <2>1, TotalType
  <2> QED
    BY <1>2, <1>3, <1>4, <2>2
<1> QED
  BY <1>3, <1>4, <1>7, <1>8, <1>9

(***************************************************************************)
(* The bytes.  A step leaves the reservations alone, gives one job back,   *)
(* admits one call, or gives everything back in a crash, and the sums      *)
(* follow.  A release is admitted beyond the limit, but only one for every *)
(* token, so what may exceed the limit is bounded by the tokens.           *)
(***************************************************************************)
BytesOK ==
    /\ bytes \in [Port -> Nat]
    /\ shared.bytes = Total(req, Counted)
    /\ \A p \in Port : bytes[p] = Total(req, OnPort(p))

Work == {c \in Counted : req[c].kind # "release"}
Reserved ==
    /\ Cardinality(Work) <= MaxQueuedJobs
    /\ Cardinality(Releases) <= Cardinality(tokens)

\* The jobs of an owner and of a port are finite sets of calls with sizes.
LEMMA JobsAreFinite ==
    ASSUME TypeOK, NEW S, S \subseteq Call
    PROVE  IsFiniteSet(S) /\ \A c \in S : req[c].size \in Nat
BY CallAssumption, RequestType, FS_Subset DEF TypeOK

\* The empty set weighs nothing.
LEMMA TotalOfNone == \A r : Total(r, {}) = 0
BY FS_EmptySet, TotalRecursion

\* Nothing changes for the budget.
LEMMA BytesKept ==
    ASSUME BytesOK, Outstanding' = Outstanding, shared'.bytes = shared.bytes,
           bytes' = bytes, req' = req
    PROVE  BytesOK'
<1>1. Counted' = Counted /\ \A p \in Port : OnPort(p)' = OnPort(p)
  BY DEF Counted, OnPort
<1> QED
  BY <1>1 DEF BytesOK

\* One job leaves; a close control had reserved nothing with the owner.
LEMMA BytesFreed ==
    ASSUME TypeOK, BytesOK, NEW c \in Call, Frees(c), req' = req,
           bytes' = [bytes EXCEPT ![req[c].port] = @ - req[c].size]
    PROVE  BytesOK'
<1>1. /\ req[c].port \in Port /\ req[c].size \in Nat
      /\ c \in Outstanding /\ Outstanding' = Outstanding \ {c}
      /\ shared'.bytes = IF req[c].kind = "close" THEN shared.bytes ELSE shared.bytes - req[c].size
  BY RequestType DEF TypeOK, Frees, Released
<1>2. Counted' = Counted \ {c} /\ \A p \in Port : OnPort(p)' = OnPort(p) \ {c}
  BY <1>1 DEF Counted, OnPort
<1>3. Counted \subseteq Call /\ \A p \in Port : OnPort(p) \subseteq Call
  BY DEF Counted, OnPort, Outstanding
<1>4. shared'.bytes = Total(req, Counted \ {c})
  <2>1. CASE req[c].kind = "close"
    <3>1. Counted \ {c} = Counted
      BY <2>1 DEF Counted
    <3> QED
      BY <1>1, <2>1, <3>1 DEF BytesOK
  <2>2. CASE req[c].kind # "close"
    <3>1. c \in Counted /\ IsFiniteSet(Counted) /\ \A d \in Counted : req[d].size \in Nat
      BY <1>1, <1>3, <2>2, JobsAreFinite DEF Counted
    <3>2. IsFiniteSet(Counted \ {c}) /\ \A d \in Counted \ {c} : req[d].size \in Nat
      BY <3>1, FS_Subset
    <3>3. Total(req, Counted) = req[c].size + Total(req, Counted \ {c})
      BY <3>1, TotalWithout
    <3>4. Total(req, Counted \ {c}) \in Nat
      BY <3>2, TotalType
    <3> QED
      BY <1>1, <2>2, <3>3, <3>4 DEF BytesOK
  <2> QED
    BY <2>1, <2>2
<1>5. ASSUME NEW p \in Port
      PROVE  bytes'[p] \in Nat /\ bytes'[p] = Total(req, OnPort(p) \ {c})
  <2>0. IsFiniteSet(OnPort(p)) /\ \A d \in OnPort(p) : req[d].size \in Nat
    BY <1>3, JobsAreFinite
  <2>1. IsFiniteSet(OnPort(p) \ {c}) /\ \A d \in OnPort(p) \ {c} : req[d].size \in Nat
    BY <2>0, FS_Subset
  <2>2. Total(req, OnPort(p) \ {c}) \in Nat
    BY <2>1, TotalType
  <2>3. CASE req[c].port = p
    <3>1. c \in OnPort(p)
      BY <1>1, <2>3 DEF OnPort
    <3>2. Total(req, OnPort(p)) = req[c].size + Total(req, OnPort(p) \ {c})
      BY <2>0, <3>1, TotalWithout
    <3>3. bytes'[p] = bytes[p] - req[c].size /\ bytes[p] = Total(req, OnPort(p))
      BY <2>3 DEF BytesOK
    <3> QED
      BY <1>1, <2>2, <3>2, <3>3
  <2>4. CASE req[c].port # p
    <3>1. OnPort(p) \ {c} = OnPort(p)
      BY <2>4 DEF OnPort
    <3>2. bytes'[p] = bytes[p] /\ bytes[p] = Total(req, OnPort(p))
      BY <2>4 DEF BytesOK
    <3> QED
      BY <2>2, <3>1, <3>2
  <2> QED
    BY <2>3, <2>4
<1>6. bytes' \in [Port -> Nat]
  <2>1. DOMAIN bytes' = Port /\ bytes' = [p \in Port |-> bytes'[p]]
    BY DEF BytesOK
  <2> QED
    BY <1>5, <2>1
<1> QED
  BY <1>2, <1>4, <1>5, <1>6 DEF BytesOK

\* A call is admitted with its bytes, or the close control, which has none.
LEMMA BytesAdmitted ==
    ASSUME TypeOK, BytesOK, NEW c \in Call, c \notin Outstanding,
           Outstanding' = Outstanding \cup {c}, req' = req,
           bytes' = [bytes EXCEPT ![req[c].port] = @ + req[c].size],
           shared'.bytes = IF req[c].kind = "close" THEN shared.bytes
                                                     ELSE shared.bytes + req[c].size
    PROVE  BytesOK'
<1>1. req[c].port \in Port /\ req[c].size \in Nat
  BY RequestType DEF TypeOK
<1>3. /\ Counted \cup {c} \subseteq Call /\ Counted \subseteq Call
      /\ \A p \in Port : OnPort(p) \cup {c} \subseteq Call /\ OnPort(p) \subseteq Call
      /\ c \notin Counted /\ \A p \in Port : c \notin OnPort(p)
  BY DEF Counted, OnPort, Outstanding
<1>4. shared'.bytes = Total(req, Counted')
  <2>1. CASE req[c].kind = "close"
    <3>1. Counted' = Counted
      BY <2>1 DEF Counted
    <3> QED
      BY <2>1, <3>1 DEF BytesOK
  <2>2. CASE req[c].kind # "close"
    <3>1. Counted' = Counted \cup {c}
      BY <2>2 DEF Counted
    <3>2. /\ IsFiniteSet(Counted \cup {c}) /\ \A d \in Counted \cup {c} : req[d].size \in Nat
          /\ IsFiniteSet(Counted) /\ \A d \in Counted : req[d].size \in Nat
      BY <1>3, JobsAreFinite
    <3>3. c \in Counted \cup {c} /\ (Counted \cup {c}) \ {c} = Counted
      BY <1>3
    <3>4. Total(req, Counted \cup {c}) = req[c].size + Total(req, (Counted \cup {c}) \ {c})
      BY <3>2, <3>3, TotalWithout
    <3>5. Total(req, Counted) \in Nat
      BY <3>2, TotalType
    <3>6. Total(req, Counted \cup {c}) = req[c].size + Total(req, Counted)
      BY <3>3, <3>4
    <3>7. shared'.bytes = Total(req, Counted) + req[c].size
      BY <2>2 DEF BytesOK
    <3>8. shared'.bytes = Total(req, Counted \cup {c})
      BY <1>1, <3>5, <3>6, <3>7
    <3> QED
      BY <3>1, <3>8
  <2> QED
    BY <2>1, <2>2
<1>5. ASSUME NEW p \in Port
      PROVE  bytes'[p] \in Nat /\ bytes'[p] = Total(req, OnPort(p)')
  <2>1. /\ IsFiniteSet(OnPort(p) \cup {c}) /\ \A d \in OnPort(p) \cup {c} : req[d].size \in Nat
        /\ IsFiniteSet(OnPort(p)) /\ \A d \in OnPort(p) : req[d].size \in Nat
    BY <1>3, JobsAreFinite
  <2>2. Total(req, OnPort(p)) \in Nat
    BY <2>1, TotalType
  <2>3. CASE req[c].port = p
    <3>1. OnPort(p)' = OnPort(p) \cup {c}
      BY <2>3 DEF OnPort
    <3>2. c \in OnPort(p) \cup {c} /\ (OnPort(p) \cup {c}) \ {c} = OnPort(p)
      BY <1>3
    <3>3. Total(req, OnPort(p) \cup {c}) = req[c].size + Total(req, (OnPort(p) \cup {c}) \ {c})
      BY <2>1, <3>2, TotalWithout
    <3>4. bytes'[p] = bytes[p] + req[c].size /\ bytes[p] = Total(req, OnPort(p))
      BY <2>3 DEF BytesOK
    <3>5. Total(req, OnPort(p) \cup {c}) = req[c].size + Total(req, OnPort(p))
      BY <3>2, <3>3
    <3>6. /\ bytes'[p] = Total(req, OnPort(p) \cup {c})
          /\ bytes'[p] \in Nat
      BY <1>1, <2>2, <3>4, <3>5
    <3> QED
      BY <3>1, <3>6
  <2>4. CASE req[c].port # p
    <3>1. OnPort(p)' = OnPort(p)
      BY <2>4 DEF OnPort
    <3>2. bytes'[p] = bytes[p] /\ bytes[p] = Total(req, OnPort(p))
      BY <2>4 DEF BytesOK
    <3> QED
      BY <2>2, <3>1, <3>2
  <2> QED
    BY <2>3, <2>4
<1>6. bytes' \in [Port -> Nat]
  <2>1. DOMAIN bytes' = Port /\ bytes' = [p \in Port |-> bytes'[p]]
    BY DEF BytesOK
  <2> QED
    BY <1>5, <2>1
<1> QED
  BY <1>4, <1>5, <1>6 DEF BytesOK

\* A crash gives every job of the owner back.
LEMMA BytesEmptied ==
    ASSUME BytesOK, Outstanding' = {}, req' = req,
           bytes' = [p \in Port |-> bytes[p] - Size(OnPort(p))],
           shared'.bytes = shared.bytes - Size(Counted), TypeOK
    PROVE  BytesOK'
<1>1. Counted' = {} /\ \A p \in Port : OnPort(p)' = {}
  BY DEF Counted, OnPort
<1>2. /\ IsFiniteSet(Counted) /\ \A d \in Counted : req[d].size \in Nat
      /\ \A p \in Port : IsFiniteSet(OnPort(p)) /\ \A d \in OnPort(p) : req[d].size \in Nat
  <2>1. Counted \subseteq Call /\ \A p \in Port : OnPort(p) \subseteq Call
    BY DEF Counted, OnPort, Outstanding
  <2> QED
    BY <2>1, JobsAreFinite
<1>3. shared.bytes = Size(Counted) /\ \A p \in Port : bytes[p] = Size(OnPort(p))
  BY SizeIsTotal DEF BytesOK
<1>4. Size(Counted) \in Nat /\ \A p \in Port : Size(OnPort(p)) \in Nat
  BY <1>2, SizeIsTotal, TotalType
<1>5. shared'.bytes = 0 /\ \A p \in Port : bytes'[p] = 0
  BY <1>3, <1>4
<1>6. shared'.bytes = Total(req', Counted')
  BY <1>1, <1>5, TotalOfNone
<1>7. \A p \in Port : bytes'[p] = Total(req', OnPort(p)')
  BY <1>1, <1>5, TotalOfNone
<1>8. bytes' \in [Port -> Nat]
  BY <1>4, <1>5
<1> QED
  BY <1>6, <1>7, <1>8 DEF BytesOK

\* The sets that Reserved counts are finite.
LEMMA ReservedFinite ==
    ASSUME TypeOK
    PROVE  IsFiniteSet(Work) /\ IsFiniteSet(Releases) /\ IsFiniteSet(tokens)
<1>1. Work \subseteq Call /\ Releases \subseteq Call /\ tokens \subseteq Call
  BY DEF Work, Counted, Outstanding, Releases, TypeOK
<1> QED
  BY <1>1, CallAssumption, FS_Subset

\* No call is made: what is reserved does not grow, and tokens are never given up.
LEMMA ReservedKept ==
    ASSUME TypeOK, TypeOK', Reserved, req' = req, Made' = Made,
           Outstanding' \subseteq Outstanding, tokens \subseteq tokens'
    PROVE  Reserved'
<1>1. Work' \subseteq Work /\ Releases' = Releases
  BY DEF Work, Counted, Releases, Made
<1>2. IsFiniteSet(Work) /\ IsFiniteSet(tokens')
  <2>1. tokens' \subseteq Call
    BY DEF TypeOK
  <2> QED
    BY <2>1, ReservedFinite, CallAssumption, FS_Subset
<1>3. Cardinality(Work') <= Cardinality(Work) /\ Cardinality(tokens) <= Cardinality(tokens')
  BY <1>1, <1>2, FS_Subset
<1>4. /\ Cardinality(Work) \in Nat /\ Cardinality(Work') \in Nat
      /\ Cardinality(Releases) \in Nat
      /\ Cardinality(tokens) \in Nat /\ Cardinality(tokens') \in Nat
  <2>1. IsFiniteSet(Work')
    BY <1>1, <1>2, FS_Subset
  <2> QED
    BY <1>2, <2>1, ReservedFinite, FS_CardinalityType
<1>5. Cardinality(Work') <= MaxQueuedJobs
  BY <1>3, <1>4, LimitAssumption DEF Reserved
<1>6. Cardinality(Releases') <= Cardinality(tokens')
  BY <1>1, <1>3, <1>4 DEF Reserved
<1> QED
  BY <1>5, <1>6 DEF Reserved

\* A call is made: work only while there is room, a release only for a token.
LEMMA ReservedTaken ==
    ASSUME TypeOK, Reserved, NEW c \in Call, c \notin Made, ReleaseAllowed(c),
           Made' = Made \cup {c}, req' = req, tokens' = tokens,
           \/ Work' = Work
           \/ Work' = Work \cup {c} /\ Cardinality(Work) < MaxQueuedJobs
    PROVE  Reserved'
<1>1. /\ IsFiniteSet(Work) /\ IsFiniteSet(Releases)
      /\ Cardinality(Work) \in Nat /\ Cardinality(Releases) \in Nat
      /\ Cardinality(tokens) \in Nat
  BY ReservedFinite, FS_CardinalityType
<1>2. Cardinality(Work') <= MaxQueuedJobs
  <2>1. CASE Work' = Work
    BY <2>1 DEF Reserved
  <2>2. CASE Work' = Work \cup {c} /\ Cardinality(Work) < MaxQueuedJobs
    <3>1. Cardinality(Work \cup {c}) \in {Cardinality(Work), Cardinality(Work) + 1}
      BY <1>1, FS_AddElement
    <3> QED
      BY <1>1, <2>2, <3>1, LimitAssumption
  <2> QED
    BY <2>1, <2>2
<1>3. Cardinality(Releases') <= Cardinality(tokens)
  <2>1. CASE req[c].kind = "release"
    <3>1. Releases' = Releases \cup {c} /\ Cardinality(Releases) < Cardinality(tokens)
      BY <2>1 DEF Releases, Made, ReleaseAllowed
    <3>2. Cardinality(Releases \cup {c}) \in {Cardinality(Releases), Cardinality(Releases) + 1}
      BY <1>1, FS_AddElement
    <3> QED
      BY <1>1, <3>1, <3>2
  <2>2. CASE req[c].kind # "release"
    <3>1. Releases' = Releases
      BY <2>2 DEF Releases, Made
    <3> QED
      BY <3>1 DEF Reserved
  <2> QED
    BY <2>1, <2>2
<1> QED
  BY <1>2, <1>3 DEF Reserved

Budget == IInv /\ BytesOK /\ Reserved

\* A step that moves no job.
LEMMA BudgetKept ==
    ASSUME Budget, IInv', Keeps, req' = req, bytes' = bytes, tokens' = tokens
    PROVE  Budget'
<1>1. BytesOK'
  BY BytesKept DEF Budget, Keeps
<1>2. Reserved'
  <2>1. Outstanding' \subseteq Outstanding
    BY DEF Keeps
  <2> QED
    BY <2>1, ReservedKept DEF Budget, IInv, Keeps
<1> QED
  BY <1>1, <1>2 DEF Budget

\* A step that gives one job back.
LEMMA BudgetFreed ==
    ASSUME Budget, IInv', NEW c \in Call, Frees(c), req' = req, tokens \subseteq tokens',
           bytes' = [bytes EXCEPT ![req[c].port] = @ - req[c].size]
    PROVE  Budget'
<1>1. BytesOK'
  BY BytesFreed DEF Budget, IInv
<1>2. Reserved'
  <2>1. Outstanding' \subseteq Outstanding
    BY DEF Frees
  <2> QED
    BY <2>1, ReservedKept DEF Budget, IInv, Frees
<1> QED
  BY <1>1, <1>2 DEF Budget

\* release() of a queued job.
LEMMA UnqueueBudget ==
    ASSUME Budget, NEW c \in Call, Unqueue(c), cancelled' \subseteq Call
    PROVE  Budget'
<1>1. IInv' /\ Frees(c)
  BY UnqueueStep DEF Budget
<1>2. /\ req' = req /\ tokens' = tokens
      /\ bytes' = [bytes EXCEPT ![req[c].port] = @ - req[c].size]
  BY DEF Unqueue
<1> QED
  BY <1>1, <1>2, BudgetFreed

\* The answer to the active job.
LEMMA ReceiveBudget ==
    ASSUME Budget, NEW p \in Port, Receive(p)
    PROVE  Budget'
<1>1. PICK c : c = reply[p].call
  OBVIOUS
<1>2. IInv' /\ Frees(c)
  BY <1>1, ReceiveStep DEF Budget
<1>3. /\ c # NoCall /\ active[p] = c /\ req' = req /\ tokens \subseteq tokens'
      /\ bytes' = [bytes EXCEPT ![p] = @ - req[c].size]
  BY <1>1 DEF Receive
<1>4. c \in Call /\ req[c].port = p
  BY <1>3 DEF Budget, IInv, TypeOK, HInv, Sched, ActiveOK
<1> QED
  BY <1>2, <1>3, <1>4, BudgetFreed

\* A crash, from the status of a handler that has made no call.
LEMMA CrashBudget ==
    ASSUME Budget, IInv', NEW st, st \in [Call -> Stage], CrashFrom(st),
           \A c \in Call : st[c] = "idle" <=> status[c] = "idle"
    PROVE  Budget'
<1>1. /\ req' = req /\ tokens' = tokens
      /\ bytes' = [p \in Port |-> bytes[p] - Size(OnPort(p))]
      /\ shared'.bytes = shared.bytes - Size(Counted)
      /\ status' = [c \in Call |-> Crashed(st[c])]
  BY DEF CrashFrom
<1>2. \A c \in Call : /\ status'[c] \notin {"queued", "active"}
                      /\ status'[c] = "idle" <=> status[c] = "idle"
  BY <1>1 DEF Crashed, Stage, Settlement
<1>3. Outstanding' = {} /\ Made' = Made
  BY <1>2 DEF Outstanding, Made
<1>4. BytesOK'
  BY <1>1, <1>3, BytesEmptied DEF Budget, IInv
<1>5. Reserved'
  <2>1. Outstanding' \subseteq Outstanding
    BY <1>3
  <2> QED
    BY <1>1, <1>3, <2>1, ReservedKept DEF Budget, IInv
<1> QED
  BY <1>4, <1>5 DEF Budget

\* The loss of the worker.
LEMMA LossBudget ==
    ASSUME Budget, Crash
    PROVE  Budget'
<1>1. PICK st : st = status /\ CrashFrom(st)
  BY DEF Crash
<1>2. st \in [Call -> Stage] /\ \A c \in Call : st[c] = "idle" <=> status[c] = "idle"
  BY <1>1 DEF Budget, IInv, TypeOK, Stage
<1> QED
  BY <1>1, <1>2, LossStep, CrashBudget DEF Budget

\* An answer with an unusable engine, which settles its call before the crash.
LEMMA ReceiveInvalidBudget ==
    ASSUME Budget, NEW p \in Port, ReceiveInvalid(p)
    PROVE  Budget'
<1>1. PICK c, st : /\ c = reply[p].call
                   /\ st = [status EXCEPT ![c] = reply[p].completion]
                   /\ CrashFrom(st)
  BY DEF ReceiveInvalid
<1>2. c # NoCall /\ active[p] = c
  BY <1>1 DEF ReceiveInvalid
<1>3. /\ c \in Call /\ status[c] = "active" /\ status \in [Call -> Stage]
      /\ reply[p].completion \in {"none", "committed", "unknown"}
  BY <1>1, <1>2 DEF Budget, IInv, TypeOK, HInv, Sched, ActiveOK, Stage
<1>4. st \in [Call -> Stage] /\ \A d \in Call : st[d] = "idle" <=> status[d] = "idle"
  BY <1>1, <1>3 DEF Stage, Settlement
<1> QED
  BY <1>1, <1>4, ReceiveInvalidStep, CrashBudget DEF Budget

\* A refused call reserves nothing, and a refused release too was made for a token.
LEMMA RefuseBudget ==
    ASSUME Budget, NEW c \in Call, Refuse(c)
    PROVE  Budget'
<1>1. /\ status[c] = "idle" /\ status' = [status EXCEPT ![c] = "none"]
      /\ ReleaseAllowed(c)
      /\ UNCHANGED <<req, bytes, shared, tokens>>
  BY DEF Refuse, Refused
<1>2. Outstanding' = Outstanding /\ Made' = Made \cup {c} /\ c \notin Made
  BY <1>1 DEF Outstanding, Made, Budget, IInv, TypeOK
<1>3. BytesOK'
  BY <1>1, <1>2, BytesKept DEF Budget
<1>4. Reserved'
  <2>1. Work' = Work
    BY <1>1, <1>2 DEF Work, Counted
  <2> QED
    BY <1>1, <1>2, <2>1, ReservedTaken DEF Budget, IInv
<1> QED
  BY <1>3, <1>4, RefuseStep DEF Budget

\* An admitted call: OverLimit has left room for work, and a release has a token.
LEMMA AdmitBudget ==
    ASSUME Budget, NEW c \in Call, Admit(c)
    PROVE  Budget'
<1>1. /\ status[c] = "idle" /\ status' = [status EXCEPT ![c] = "queued"]
      /\ req[c].kind # "close" /\ ReleaseAllowed(c) /\ ~OverLimit(c)
      /\ bytes' = [bytes EXCEPT ![req[c].port] = @ + req[c].size]
      /\ shared' = [shared EXCEPT !.jobs = @ + 1, !.bytes = @ + req[c].size]
      /\ UNCHANGED <<req, tokens>>
  BY DEF Admit, Enqueue
<1>2. /\ Outstanding' = Outstanding \cup {c} /\ c \notin Outstanding
      /\ Made' = Made \cup {c} /\ c \notin Made
  BY <1>1 DEF Outstanding, Made, Budget, IInv, TypeOK
<1>3. shared'.bytes = IF req[c].kind = "close" THEN shared.bytes
                                               ELSE shared.bytes + req[c].size
  BY <1>1 DEF Budget, IInv, TypeOK
<1>4. BytesOK'
  BY <1>1, <1>2, <1>3, BytesAdmitted DEF Budget, IInv
<1>5. \/ Work' = Work
      \/ Work' = Work \cup {c} /\ Cardinality(Work) < MaxQueuedJobs
  <2>1. CASE req[c].kind = "release"
    BY <1>1, <1>2, <2>1 DEF Work, Counted
  <2>2. CASE req[c].kind # "release"
    <3>1. Work' = Work \cup {c}
      BY <1>1, <1>2, <2>2 DEF Work, Counted
    <3>2. shared.jobs < MaxQueuedJobs /\ shared.jobs = Cardinality(Counted)
      <4>1. ~(shared.jobs >= MaxQueuedJobs)
        BY <1>1, <2>2, Zenon DEF OverLimit
      <4>2. shared.jobs \in Nat /\ shared.jobs = Cardinality(Counted)
        BY DEF Budget, IInv, TypeOK, JobsOK
      <4> QED
        BY <4>1, <4>2, LimitAssumption
    <3>3. /\ Cardinality(Work) <= Cardinality(Counted)
          /\ Cardinality(Work) \in Nat /\ Cardinality(Counted) \in Nat
      <4>1. Work \subseteq Counted
        BY DEF Work
      <4> QED
        BY <4>1, CountedFinite, FS_Subset, FS_CardinalityType
    <3> QED
      BY <3>1, <3>2, <3>3, LimitAssumption
  <2> QED
    BY <2>1, <2>2
<1>6. Reserved'
  BY <1>1, <1>2, <1>5, ReservedTaken DEF Budget, IInv
<1> QED
  BY <1>4, <1>6, AdmitStep DEF Budget

\* The close control, which takes no place in the budget.
LEMMA CloseBudget ==
    ASSUME Budget, NEW c \in Call, Close(c)
    PROVE  Budget'
<1>1. /\ status[c] = "idle" /\ req[c].kind = "close"
      /\ UNCHANGED <<req, bytes, shared, tokens>>
  BY DEF Close
<1>2. c \notin Outstanding /\ c \notin Made /\ ReleaseAllowed(c)
  BY <1>1 DEF Outstanding, Made, ReleaseAllowed
<1>3. req[c].size = 0
  BY <1>1, RequestAssumption DEF Budget, IInv, TypeOK
<1>4. CASE status' = [status EXCEPT ![c] = "none"]
  <2>1. Outstanding' = Outstanding /\ Made' = Made \cup {c}
    BY <1>1, <1>4 DEF Outstanding, Made, Budget, IInv, TypeOK
  <2>2. BytesOK'
    BY <1>1, <2>1, BytesKept DEF Budget
  <2>3. Work' = Work
    BY <1>1, <2>1 DEF Work, Counted
  <2>4. Reserved'
    BY <1>1, <1>2, <2>1, <2>3, ReservedTaken DEF Budget, IInv
  <2> QED
    BY <2>2, <2>4, CloseStep DEF Budget
<1>5. CASE status' = [status EXCEPT ![c] = "queued"]
  <2>1. Outstanding' = Outstanding \cup {c} /\ Made' = Made \cup {c}
    BY <1>1, <1>5 DEF Outstanding, Made, Budget, IInv, TypeOK
  <2>2. bytes' = [bytes EXCEPT ![req[c].port] = @ + req[c].size]
    <3>1. bytes \in [Port -> Nat] /\ bytes' = bytes
      BY <1>1 DEF Budget, BytesOK
    <3> QED
      BY <1>3, <3>1
  <2>3. shared'.bytes = IF req[c].kind = "close" THEN shared.bytes
                                                 ELSE shared.bytes + req[c].size
    BY <1>1
  <2>4. BytesOK'
    BY <1>1, <1>2, <2>1, <2>2, <2>3, BytesAdmitted DEF Budget, IInv
  <2>5. Work' = Work
    BY <1>1, <2>1 DEF Work, Counted
  <2>6. Reserved'
    BY <1>1, <1>2, <2>1, <2>5, ReservedTaken DEF Budget, IInv
  <2> QED
    BY <2>4, <2>6, CloseStep DEF Budget
<1> QED
  BY <1>4, <1>5 DEF Close, Enqueue

\* An abort of a queued job gives it back, any other abort moves nothing.
LEMMA CancelBudget ==
    ASSUME Budget, NEW c \in Call, Cancel(c)
    PROVE  Budget'
<1>1. CASE Unqueue(c)
  <2>1. cancelled' \subseteq Call
    BY DEF Cancel, Budget, IInv, TypeOK
  <2> QED
    BY <1>1, <2>1, UnqueueBudget
<1>2. CASE UNCHANGED <<req, status, queue, ready, active, id, nextId, bytes,
                       shared, wake, tokens, closing, stopped, destroyed, workerVars>>
  <2>1. Keeps
    BY <1>2 DEF Keeps, Made, Outstanding
  <2> QED
    BY <1>2, <2>1, CancelStep, BudgetKept DEF Budget
<1> QED
  BY <1>1, <1>2 DEF Cancel

\* The steps that neither the status of a call nor the budget feels.
LEMMA StillBudget ==
    ASSUME Budget, NEW p \in Port, Run(p) \/ Dispose(p) \/ Closed(p) \/ UNCHANGED vars
    PROVE  Budget'
<1>1. UNCHANGED <<req, status, bytes, shared, tokens>>
  BY DEF Run, Dispose, Closed, vars, hostVars
<1>2. Keeps
  BY <1>1 DEF Keeps, Made, Outstanding
<1>3. IInv'
  BY RunStep, QuietSteps DEF Budget
<1> QED
  BY <1>1, <1>2, <1>3, BudgetKept

\* Every step keeps the budget exact.
LEMMA NextBudget == Budget /\ [Next]_vars => Budget'
<1> SUFFICES ASSUME Budget, [Next]_vars PROVE Budget'
  OBVIOUS
<1>1. ASSUME NEW c \in Call, Watched(c) PROVE Budget'
  <2>1. IInv' /\ Keeps
    BY <1>1, WatchedStep DEF Budget
  <2>2. req' = req /\ bytes' = bytes /\ tokens' = tokens
    BY <1>1 DEF Watched
  <2> QED
    BY <2>1, <2>2, BudgetKept
<1>2. ASSUME NEW c \in Call, WatchFailed(c) PROVE Budget'
  <2>1. Unqueue(c) /\ cancelled' \subseteq Call
    BY <1>2 DEF WatchFailed, Budget, IInv, TypeOK
  <2> QED
    BY <2>1, UnqueueBudget
<1>3. ASSUME NEW p \in Port, PortStep(p) PROVE Budget'
  BY <1>3, ReceiveBudget, ReceiveInvalidBudget, StillBudget DEF PortStep
<1>4. ASSUME Wake PROVE Budget'
  <2>1. IInv' /\ Keeps
    BY <1>4, WakeStep DEF Budget
  <2>2. req' = req /\ bytes' = bytes /\ tokens' = tokens
    BY <1>4 DEF Wake
  <2> QED
    BY <2>1, <2>2, BudgetKept
<1>5. CASE UNCHANGED vars
  <2>1. Keeps /\ req' = req /\ bytes' = bytes /\ tokens' = tokens
    BY <1>5 DEF Keeps, Made, Outstanding, vars, hostVars
  <2>2. IInv'
    BY <1>5, NextIInv DEF Budget
  <2> QED
    BY <2>1, <2>2, BudgetKept
<1> QED
  BY <1>1, <1>2, <1>3, <1>4, <1>5, RefuseBudget, AdmitBudget, CloseBudget, CancelBudget,
     LossBudget DEF Next, Quiet

\* A fresh owner has reserved nothing.
LEMMA InitBudget == Init => Budget
<1> SUFFICES ASSUME Init PROVE Budget
  OBVIOUS
<1>1. /\ Counted = {} /\ \A p \in Port : OnPort(p) = {}
      /\ Work = {} /\ Releases = {} /\ tokens = {}
  BY DEF Init, Counted, OnPort, Outstanding, Work, Releases
<1>2. bytes \in [Port -> Nat] /\ shared.bytes = 0 /\ \A p \in Port : bytes[p] = 0
  BY DEF Init
<1>3. BytesOK
  BY <1>1, <1>2, TotalOfNone DEF BytesOK
<1>4. Reserved
  BY <1>1, FS_EmptySet, LimitAssumption DEF Reserved
<1> QED
  BY <1>3, <1>4, InitIInv DEF Budget

\* The counters are the sums, and only reserved releases exceed the limit.
LEMMA BudgetGives == Budget => BudgetExact
<1> SUFFICES ASSUME Budget PROVE BudgetExact
  OBVIOUS
<1>1. shared.bytes = Size(Counted) /\ \A p \in Port : bytes[p] = Size(OnPort(p))
  BY SizeIsTotal DEF Budget, BytesOK
<1> DEFINE freeing == {c \in Counted : req[c].kind = "release"}
<1>2. Cardinality(freeing) <= Cardinality(tokens)
  <2>1. freeing \subseteq Releases
    BY DEF Counted, Outstanding, Releases
  <2>2. /\ Cardinality(freeing) <= Cardinality(Releases)
        /\ Cardinality(freeing) \in Nat
        /\ Cardinality(Releases) \in Nat /\ Cardinality(tokens) \in Nat
    BY <2>1, ReservedFinite, FS_Subset, FS_CardinalityType DEF Budget, IInv
  <2> QED
    BY <2>2 DEF Budget, Reserved
<1>3. Cardinality(Counted) <= MaxQueuedJobs + Cardinality(tokens)
  <2>1. Counted = Work \cup freeing /\ Work \cap freeing = {}
    BY DEF Work
  <2>2. IsFiniteSet(Work) /\ IsFiniteSet(freeing)
    BY CountedFinite, FS_Subset DEF Work
  <2> HIDE DEF freeing
  <2>3. Cardinality(Counted) = Cardinality(Work) + Cardinality(freeing) - 0
    BY <2>1, <2>2, FS_Union, FS_EmptySet
  <2>4. /\ Cardinality(Work) \in Nat /\ Cardinality(freeing) \in Nat
        /\ Cardinality(tokens) \in Nat
    BY <2>2, ReservedFinite, FS_CardinalityType DEF Budget, IInv
  <2> QED
    BY <1>2, <2>3, <2>4, LimitAssumption DEF Budget, Reserved
<1> QED
  BY <1>1, <1>3 DEF Budget, IInv, JobsOK, Reserved, Work, BudgetExact

\* The budget never drifts: through refusals, aborts, answers, closes and crashes
\* the owner's and the ports' counters are the jobs and the bytes outstanding, and
\* work stays within the limit that only reserved releases may exceed.
THEOREM BudgetIsExact == Spec => []BudgetExact
<1>1. Spec => []Budget
  BY InitBudget, NextBudget, PTL DEF Spec
<1> QED
  BY <1>1, BudgetGives, PTL
=============================================================================
