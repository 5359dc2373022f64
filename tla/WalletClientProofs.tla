------------------------- MODULE WalletClientProofs -------------------------
(***************************************************************************)
(* What a call of the wallet client holds, and what it leaves behind, for  *)
(* any number of calls, signers and failures.                              *)
(*                                                                         *)
(* A call knows what it holds from the step it is at: its command in the   *)
(* queue (QueueOK), the proof slot (SlotOK), the place of the attachment   *)
(* (AttachOK), the native token it was issued (TokensOK).  A binding is    *)
(* published behind every unbind of an earlier one (BindingOK), and a plan *)
(* that will finalize without looking again has the slot (Once).           *)
(***************************************************************************)
EXTENDS WalletClient, TLAPS

-----------------------------------------------------------------------------
(* The inductive invariant *)

\* The steps that await the disposal of a binding, those of an attachment behind it, and
\* those of the methods that neither attach nor create.
Replacing == {"replace", "waiting", "replaced", "refused"}
Binding == {"bind", "account", "check"}
Plain == Replacing \cup SlotHeld
            \cup {"state", "ask", "build", "restore", "authorize", "import", "finalized",
                  "report", "remove"}
StepName == Plain \cup Binding \cup {"issue", "describe", "unwind", "release"}

\* The commands that finalize the operation, and those that look whether it is finalized.
Final == {"fused", "finalize"}
Look == {"state", "finalized"}

\* Before a plan finalizes it looks, and has the proof slot from there on; nothing is
\* behind it.
Looks(p) ==
    \A i, j \in DOMAIN p :
        p[i] \notin SlotHeld /\ p[j] \in Final /\ i <= j =>
            \E k \in DOMAIN p : i <= k /\ k < j /\ p[k] \in Look
Last(p) == \A i \in DOMAIN p : p[i] \in Final => i = Len(p)

AttachPlan(s) ==
    IF s \in Memory
      THEN {<<r, "bind">> : r \in Replacing} \cup {<<"bind">>, <<"unwind">>}
      ELSE {<<r, "account", "ask", "check">> : r \in Replacing}
             \cup {<<"account", "ask", "check">>, <<"ask", "check">>, <<"check">>}
CreatePlan == {<<"issue", "describe">>, <<"describe">>, <<"release">>}

PlanOK(k) ==
    k.plan # <<>> =>
        \/ k.does = "attach" /\ k.signer \in Signer /\ k.plan \in AttachPlan(k.signer)
        \/ k.does = "create" /\ k.plan \in CreatePlan
        \/ /\ k.does \notin {"nothing", "attach", "create"}
           /\ k.plan \in Seq(Plain) /\ Looks(k.plan) /\ Last(k.plan)

Method == {"nothing", "create", "attach", "detach", "remove", "send", "prove", "sign", "finalize"}
CallRec == [does : Method, signer : Signer \cup {None}, plan : Seq(StepName), cut : BOOLEAN]
BindingRec == [signer : Signer, unbind : {"no", "asked", "failed"}]
Entry == [by : Call \cup {None}, op : Command \cup {"unbind", "close"}]

Types ==
    /\ call \in [Call -> CallRec] /\ \A c \in Call : PlanOK(call[c])
    /\ attaching \in Call \cup {None} /\ slot \in Call \cup {None}
    /\ binding \in BindingRec \cup {None}
    /\ queue \in Seq(Entry)
    /\ engine \in {"open", "crashed", "closed"}
    /\ tokens \subseteq Call /\ given \subseteq Call /\ bound \subseteq Memory
    /\ finalized \in Nat
    /\ assets \in [memory : SUBSET Asset, asset : 0..2, phase : {"idle", "ask", "hash"},
                   life : {"open", "closing", "closed"}]
    /\ closing \in {"open", "drain", "unbind", "close", "dispose", "closed"}

\* A command in the queue is what its call awaits, and a call awaits one.
QueueOK ==
    /\ \A i \in DOMAIN queue :
         IF queue[i].by = None THEN queue[i].op \in {"unbind", "close"}
         ELSE queue[i].op \in Command /\ At(queue[i].by, queue[i].op)
    /\ \A i, j \in DOMAIN queue : queue[i].by # None /\ queue[i].by = queue[j].by => i = j
    /\ engine = "crashed" => queue = <<>>

\* The slot, and the place of the attachment, belong to the call that is at a step of it.
SlotOK ==
    /\ slot # None => AtAny(slot, SlotHeld)
    /\ \A c \in Call : AtAny(c, SlotHeld) => slot = c

Attaches(c) == call[c].does = "attach" /\ Live(c) /\ ~At(c, "unwind")
AttachOK ==
    /\ attaching # None => Attaches(attaching)
    /\ \A c \in Call : Attaches(c) => attaching = c

AssetsOK ==
    /\ assets.phase # "idle" => slot # None /\ At(slot, "load")
    /\ assets.phase = "idle" => assets.asset \in 0..1
    /\ assets.phase # "idle" => assets.asset \in Asset
    /\ assets.life = "closed" => assets.memory = {} /\ engine # "open"

Ending ==
    /\ closing \in {"unbind", "close", "dispose", "closed"} => \A c \in Call : ~Live(c)
    /\ closing \in {"close", "dispose", "closed"} => binding = None
    /\ closing = "closed" => assets.life = "closed"
    /\ engine = "closed" => closing \in {"dispose", "closed"}

\* A plan that finalizes without looking again.
Committed(c) ==
    /\ \E i \in DOMAIN call[c].plan : call[c].plan[i] \in Final
    /\ \A i \in DOMAIN call[c].plan : call[c].plan[i] \notin Look
Once == finalized <= 1 /\ \A c \in Call : Committed(c) => finalized = 0

TokensOK ==
    engine = "open" =>
        \A c \in tokens \ given :
            call[c].does = "create" /\ call[c].plan \in {<<"describe">>, <<"release">>}

\* An attachment is published over no other, and behind every unbind of an earlier one.
Asks(c) == call[c].does = "attach" /\ At(c, "ask")
BindingOK ==
    /\ \A c \in Call : call[c].does = "attach" /\ AtAny(c, Binding \cup {"ask", "replaced"}) =>
                          binding = None
    /\ (binding # None \/ \E c \in Call : Asks(c)) => \A j \in DOMAIN queue : queue[j].op # "unwind"
    /\ \A i, j \in DOMAIN queue : queue[i].op \in Binding /\ queue[j].op = "unwind" => j < i
    /\ engine = "open" =>
         \A i, j \in DOMAIN queue :
            queue[i].op = "unbind" =>
                /\ binding # None /\ binding.unbind = "asked"
                /\ queue[j].op = "unbind" => i = j

SignersOK ==
    engine = "open" =>
        /\ closing \in {"open", "drain", "unbind"} =>
             \A s \in bound :
                \/ binding # None /\ binding.signer = s
                \/ s \in stray
                \/ \E c \in Call : call[c].signer = s /\ At(c, "unwind")
        /\ binding # None /\ binding.signer \in Memory => binding.signer \in bound

IInv == /\ Types /\ QueueOK /\ SlotOK /\ AttachOK /\ AssetsOK /\ Ending /\ Once
        /\ TokensOK /\ BindingOK /\ SignersOK

-----------------------------------------------------------------------------
(* Plans *)

\* What Fails(), Goes() and Told() make of a call's plan.
FailPlan(c, p) ==
    IF engine # "open" THEN <<>>
    ELSE CASE call[c].does = "attach" /\ p = <<"bind">> -> <<"unwind">>
           [] call[c].does = "create" /\ p = <<"describe">> -> <<"release">>
           [] call[c].does = "send" -> <<"report">>
           [] OTHER -> <<>>
GoPlan(c, p) ==
    IF p # <<>> /\ (~SlotFree(c, p) \/ call[c].cut \/ engine # "open") THEN FailPlan(c, p) ELSE p

\* The plans that a step of the engine or of the application leaves a call with.
Adv(c, n) ==
    /\ n # <<>> => engine = "open"
    /\ \/ n = <<>>
       \/ n = Tail(call[c].plan) /\ (n # <<>> => SlotFree(c, n))
       \/ /\ n = <<"unwind">>
          /\ Attaches(c) /\ call[c].signer \in Memory
       \/ n = <<"release">> /\ call[c].does = "create"
       \/ n = <<"report">> /\ call[c].does = "send"

\* What is left of a plan of the methods that neither attach nor create.
LEMMA PlainTail ==
    ASSUME NEW p, p \in Seq(Plain), p # <<>>, Looks(p), Last(p)
    PROVE  Tail(p) \in Seq(Plain) /\ Looks(Tail(p)) /\ Last(Tail(p))
<1> DEFINE t == Tail(p)
<1>1. /\ t \in Seq(Plain) /\ Len(t) = Len(p) - 1 /\ Len(p) \in Nat
      /\ \A i \in DOMAIN t : i + 1 \in DOMAIN p /\ t[i] = p[i + 1]
  OBVIOUS
<1>2. Looks(t)
  <2> SUFFICES ASSUME NEW i \in DOMAIN t, NEW j \in DOMAIN t,
                      t[i] \notin SlotHeld, t[j] \in Final, i <= j
               PROVE  \E k \in DOMAIN t : i <= k /\ k < j /\ t[k] \in Look
    BY DEF Looks
  <2>1. i \in 1..Len(t) /\ j \in 1..Len(t)
    BY <1>1
  <2>2. PICK k \in DOMAIN p : i + 1 <= k /\ k < j + 1 /\ p[k] \in Look
    BY <1>1, <2>1 DEF Looks
  <2>3. k - 1 \in DOMAIN t /\ t[k - 1] = p[k]
    BY <1>1, <2>1, <2>2
  <2> QED
    BY <2>1, <2>2, <2>3, <1>1
<1>3. Last(t)
  BY <1>1 DEF Last
<1> QED
  BY <1>1, <1>2, <1>3

LEMMA AttachTails ==
    ASSUME NEW s, NEW p \in AttachPlan(s)
    PROVE  /\ p \in Seq(StepName) /\ p # <<>> /\ Tail(p) \in Seq(StepName)
           /\ Tail(p) # <<>> => Tail(p) \in AttachPlan(s)
           /\ Head(p) = "unwind" => Tail(p) = <<>>
           /\ Tail(p) # <<>> => Head(Tail(p)) # "unwind"
           /\ Head(p) \notin SlotHeld /\ (Tail(p) # <<>> => Head(Tail(p)) \notin SlotHeld)
<1>1. CASE s \in Memory
  <2>1. CASE \E r \in Replacing : p = <<r, "bind">>
    BY <1>1, <2>1 DEF AttachPlan, StepName, Plain, Binding, SlotHeld, Replacing
  <2>2. CASE p = <<"bind">> \/ p = <<"unwind">>
    BY <1>1, <2>2 DEF AttachPlan, StepName, Plain, Binding, SlotHeld, Replacing
  <2> QED
    BY <1>1, <2>1, <2>2 DEF AttachPlan
<1>2. CASE s \notin Memory
  <2>1. CASE \E r \in Replacing : p = <<r, "account", "ask", "check">>
    BY <1>2, <2>1 DEF AttachPlan, StepName, Plain, Binding, SlotHeld, Replacing
  <2>2. CASE p = <<"account", "ask", "check">>
    BY <1>2, <2>2 DEF AttachPlan, StepName, Plain, Binding, SlotHeld, Replacing
  <2>3. CASE p = <<"ask", "check">>
    BY <1>2, <2>3 DEF AttachPlan, StepName, Plain, Binding, SlotHeld, Replacing
  <2>4. CASE p = <<"check">>
    BY <1>2, <2>4 DEF AttachPlan, StepName, Plain, Binding, SlotHeld, Replacing
  <2> QED
    BY <1>2, <2>1, <2>2, <2>3, <2>4 DEF AttachPlan
<1> QED
  BY <1>1, <1>2

LEMMA CreateTails ==
    ASSUME NEW p \in CreatePlan
    PROVE  /\ p \in Seq(StepName) /\ p # <<>> /\ Tail(p) \in Seq(StepName)
           /\ Tail(p) # <<>> => Tail(p) \in CreatePlan
           /\ Head(p) \notin SlotHeld /\ (Tail(p) # <<>> => Head(Tail(p)) \notin SlotHeld)
<1>1. CASE p = <<"issue", "describe">>
  BY <1>1 DEF CreatePlan, StepName, Plain, Binding, SlotHeld, Replacing
<1>2. CASE p = <<"describe">>
  BY <1>2 DEF CreatePlan, StepName, Plain, Binding, SlotHeld, Replacing
<1>3. CASE p = <<"release">>
  BY <1>3 DEF CreatePlan, StepName, Plain, Binding, SlotHeld, Replacing
<1> QED
  BY <1>1, <1>2, <1>3 DEF CreatePlan

\* Whatever a call goes on with is the rest of a plan of its method.
LEMMA AdvPlan ==
    ASSUME NEW k \in CallRec, k.plan # <<>>, PlanOK(k), NEW n,
           \/ n = <<>> \/ n = Tail(k.plan)
           \/ n = <<"unwind">> /\ k.does = "attach" /\ k.signer \in Memory
           \/ n = <<"release">> /\ k.does = "create"
           \/ n = <<"report">> /\ k.does = "send"
    PROVE  LET e == [k EXCEPT !.plan = n]
           IN  e \in CallRec /\ PlanOK(e)
<1> DEFINE e == [k EXCEPT !.plan = n]
<1>1. /\ e.plan = n /\ e.does = k.does /\ e.signer = k.signer
      /\ n \in Seq(StepName) => e \in CallRec
  BY DEF CallRec
<1> SUFFICES e \in CallRec /\ PlanOK(e)
  OBVIOUS
<1> HIDE DEF e
<1>2. CASE n = <<>>
  <2>1. n \in Seq(StepName)
    BY <1>2
  <2> QED
    BY <1>1, <1>2, <2>1 DEF PlanOK
<1>3. CASE n # <<>> /\ k.does = "attach"
  <2>1. k.plan \in AttachPlan(k.signer) /\ k.signer \in Signer
    BY <1>3 DEF PlanOK
  <2>2. CASE n = Tail(k.plan)
    BY <1>1, <1>3, <2>1, <2>2, AttachTails DEF PlanOK
  <2>3. CASE n = <<"unwind">> /\ k.signer \in Memory
    <3>1. n \in AttachPlan(k.signer)
      BY <2>3 DEF AttachPlan
    <3> QED
      BY <1>1, <1>3, <2>1, <3>1, AttachTails DEF PlanOK
  <2> QED
    BY <1>3, <2>2, <2>3
<1>4. CASE n # <<>> /\ k.does = "create"
  <2>1. k.plan \in CreatePlan
    BY <1>4 DEF PlanOK
  <2>2. CASE n = Tail(k.plan)
    BY <1>1, <1>4, <2>1, <2>2, CreateTails DEF PlanOK
  <2>3. CASE n = <<"release">>
    <3>1. n \in CreatePlan
      BY <2>3 DEF CreatePlan
    <3> QED
      BY <1>1, <1>4, <3>1, CreateTails DEF PlanOK
  <2> QED
    BY <1>4, <2>2, <2>3
<1>5. CASE n # <<>> /\ k.does \notin {"attach", "create"}
  <2>1. /\ k.does # "nothing"
        /\ k.plan \in Seq(Plain) /\ Looks(k.plan) /\ Last(k.plan)
    BY <1>5 DEF PlanOK
  <2>2. n \in Seq(Plain) /\ Looks(n) /\ Last(n)
    <3>1. CASE n = Tail(k.plan)
      BY <2>1, <3>1, PlainTail
    <3>2. CASE n = <<"report">>
      <4>1. n \in Seq(Plain) /\ DOMAIN n = {1} /\ n[1] \notin Final
        BY <3>2 DEF Plain, Final
      <4> QED
        BY <4>1 DEF Looks, Last
    <3> QED
      BY <1>5, <3>1, <3>2
  <2>3. n \in Seq(StepName)
    BY <2>2 DEF StepName
  <2> QED
    BY <1>1, <1>5, <2>1, <2>2, <2>3 DEF PlanOK
<1> QED
  BY <1>2, <1>3, <1>4, <1>5

-----------------------------------------------------------------------------
(* The plans a call begins with *)

Unfinal == Plain \ Final

\* A plan that looks before its end, behind steps that do not finalize.
LEMMA Joined ==
    ASSUME NEW a \in Seq(Unfinal), NEW q \in Seq(Plain), Looks(q), Last(q),
           q # <<>>, q[1] \in Look
    PROVE  LET p == a \o q
           IN  /\ p \in Seq(Plain) /\ Looks(p) /\ Last(p) /\ p # <<>>
               /\ \E i \in DOMAIN p : p[i] \in Look
<1> DEFINE p == a \o q
           n == Len(a)
<1>1. /\ n \in Nat /\ Len(q) \in Nat \ {0} /\ p \in Seq(Plain) /\ Len(p) = n + Len(q)
      /\ DOMAIN p = 1..(n + Len(q)) /\ DOMAIN a = 1..n /\ DOMAIN q = 1..Len(q)
  BY DEF Unfinal
<1>2. /\ \A i \in 1..n : p[i] = a[i] /\ p[i] \notin Final
      /\ \A i \in 1..Len(q) : p[n + i] = q[i]
  BY <1>1 DEF Unfinal
<1>3. ASSUME NEW i \in DOMAIN p, i \notin 1..n
      PROVE  i - n \in 1..Len(q) /\ p[i] = q[i - n]
  <2>1. i - n \in 1..Len(q) /\ n + (i - n) = i
    BY <1>1, <1>3
  <2> QED
    BY <1>2, <2>1
<1>4. n + 1 \in DOMAIN p /\ p[n + 1] \in Look /\ q[1] \notin Final
  BY <1>1, <1>2 DEF Look, Final
<1> HIDE DEF p, n
<1>5. Looks(p)
  <2> SUFFICES ASSUME NEW i \in DOMAIN p, NEW j \in DOMAIN p,
                      p[i] \notin SlotHeld, p[j] \in Final, i <= j
               PROVE  \E k \in DOMAIN p : i <= k /\ k < j /\ p[k] \in Look
    BY DEF Looks
  <2>1. j \notin 1..n /\ j - n \in 1..Len(q) /\ p[j] = q[j - n]
    BY <1>2, <1>3
  <2>2. CASE i \in 1..n
    <3>1. j - n # 1
      BY <1>4, <2>1
    <3>2. i <= n + 1 /\ n + 1 < j
      BY <1>1, <2>1, <2>2, <3>1
    <3> QED
      BY <1>4, <3>2
  <2>3. CASE i \notin 1..n
    <3>1. i - n \in 1..Len(q) /\ p[i] = q[i - n] /\ i - n <= j - n
      BY <1>1, <1>3, <2>3
    <3>2. PICK k \in 1..Len(q) : i - n <= k /\ k < j - n /\ q[k] \in Look
      BY <1>1, <2>1, <3>1 DEF Looks
    <3>3. n + k \in DOMAIN p /\ p[n + k] = q[k]
      BY <1>1, <1>2
    <3> QED
      BY <1>1, <2>1, <3>1, <3>2, <3>3, SMTT(30)
  <2> QED
    BY <2>2, <2>3
<1>6. Last(p)
  <2> SUFFICES ASSUME NEW i \in DOMAIN p, p[i] \in Final
               PROVE  i = Len(p)
    BY DEF Last
  <2>1. i \notin 1..n /\ i - n \in 1..Len(q) /\ p[i] = q[i - n]
    BY <1>2, <1>3
  <2>2. i - n = Len(q)
    BY <1>1, <2>1 DEF Last
  <2> QED
    BY <1>1, <2>1, <2>2
<1> QED
  BY <1>1, <1>4, <1>5, <1>6 DEF p

Loads == {<<>>, <<"load">>}

LEMMA Parts ==
    ASSUME NEW l \in Loads
    PROVE  /\ Proving(l) \in Seq(Unfinal) /\ Signing \in Seq(Unfinal)
           /\ Finalizing(l) \in Seq(Plain) /\ Looks(Finalizing(l)) /\ Last(Finalizing(l))
           /\ Finalizing(l) # <<>> /\ Finalizing(l)[1] \in Look
           /\ Proving(l) # <<>> /\ Signing # <<>>
<1>1. /\ <<"retained">> \in Seq(Unfinal) /\ <<"prove">> \in Seq(Unfinal) /\ l \in Seq(Unfinal)
      /\ <<"restore", "authorize", "import">> \in Seq(Unfinal)
  <2>1. {"retained", "prove", "load", "restore", "authorize", "import"} \subseteq Unfinal
    BY DEF Unfinal, Plain, Final, SlotHeld
  <2>2. \A u \in Unfinal : <<u>> \in Seq(Unfinal)
    OBVIOUS
  <2>3. \A u, v, w \in Unfinal : <<u, v, w>> \in Seq(Unfinal)
    OBVIOUS
  <2>4. l \in Seq(Unfinal)
    <3>1. <<>> \in Seq(Unfinal) /\ <<"load">> \in Seq(Unfinal)
      BY <2>1, <2>2
    <3> QED
      BY <3>1 DEF Loads
  <2>5. <<"restore", "authorize", "import">> \in Seq(Unfinal)
    BY <2>1, <2>3
  <2> QED
    BY <2>1, <2>2, <2>4, <2>5
<1>2. Proving(l) \in Seq(Unfinal) /\ Proving(l) # <<>> /\ Signing \in Seq(Unfinal) /\ Signing # <<>>
  BY <1>1 DEF Proving, Signing
<1> DEFINE f == Finalizing(l)
<1>3. CASE l = <<>>
  <2>1. /\ f \in Seq(Plain) /\ Len(f) = 3
        /\ f[1] = "finalized" /\ f[2] = "retained" /\ f[3] = "finalize"
    BY <1>3 DEF Finalizing, Plain, SlotHeld
  <2> HIDE DEF f
  <2>2. Looks(f) /\ Last(f) /\ f # <<>> /\ f[1] \in Look
    BY <2>1, SMTT(30) DEF Looks, Last, Final, Look, SlotHeld
  <2> QED
    BY <1>2, <2>1, <2>2 DEF f
<1>4. CASE l = <<"load">>
  <2>1. /\ f \in Seq(Plain) /\ Len(f) = 4
        /\ f[1] = "finalized" /\ f[2] = "retained" /\ f[3] = "load" /\ f[4] = "finalize"
    BY <1>4 DEF Finalizing, Plain, SlotHeld
  <2> HIDE DEF f
  <2>2. Looks(f) /\ Last(f) /\ f # <<>> /\ f[1] \in Look
    BY <2>1 DEF Looks, Last, Final, Look, SlotHeld
  <2> QED
    BY <1>2, <2>1, <2>2 DEF f
<1> QED
  BY <1>3, <1>4 DEF Loads


LEMMA Begun ==
    ASSUME NEW does \in Work, NEW s \in Choice(does), NEW p \in Plans(does, s)
    PROVE  /\ p # <<>> /\ does # "nothing"
           /\ [does |-> does, signer |-> s, plan |-> p, cut |-> FALSE] \in CallRec
           /\ PlanOK([does |-> does, signer |-> s, plan |-> p, cut |-> FALSE])
           /\ \/ \E i \in DOMAIN p : p[i] \in Look
              \/ \A i \in DOMAIN p : p[i] \notin Final
           /\ does = "attach" => Head(p) = "replace"
<1> DEFINE k == [does |-> does, signer |-> s, plan |-> p, cut |-> FALSE]
<1>1. /\ s \in Signer \cup {None} /\ does \in Method /\ does # "nothing"
      /\ does = "attach" => s \in Signer
      /\ k.does = does /\ k.signer = s /\ k.plan = p
      /\ p \in Seq(StepName) => k \in CallRec
  <2>1. does \in Method /\ does # "nothing"
    BY WorkAssumption DEF Method
  <2>2. s \in Signer \cup {None} /\ (does = "attach" => s \in Signer)
    BY DEF Choice
  <2> QED
    BY <2>1, <2>2 DEF CallRec
<1> SUFFICES /\ p # <<>> /\ p \in Seq(StepName) /\ PlanOK(k)
             /\ \/ \E i \in DOMAIN p : p[i] \in Look
                \/ \A i \in DOMAIN p : p[i] \notin Final
             /\ does = "attach" => Head(p) = "replace"
  BY <1>1
<1> HIDE DEF k
<1>2. CASE does = "attach"
  <2>1. CASE s \in Memory
    <3>1. p = <<"replace", "bind">>
      BY <1>2, <2>1 DEF Plans
    <3>2. p \in AttachPlan(s) /\ \A i \in DOMAIN p : p[i] \notin Final
      BY <2>1, <3>1 DEF AttachPlan, Replacing, Final
    <3> QED
      BY <1>1, <1>2, <3>1, <3>2, AttachTails DEF PlanOK
  <2>2. CASE s \notin Memory
    <3>1. p = <<"replace", "account", "ask", "check">>
      BY <1>2, <2>2 DEF Plans
    <3>2. p \in AttachPlan(s)
      BY <2>2, <3>1 DEF AttachPlan, Replacing
    <3>3. \A i \in DOMAIN p : p[i] \notin Final
      BY <3>1 DEF Final
    <3>4. Head(p) = "replace"
      BY <3>1
    <3> QED
      BY <1>1, <1>2, <3>2, <3>3, <3>4, AttachTails DEF PlanOK
  <2> QED
    BY <2>1, <2>2
<1>3. CASE does = "create"
  <2>1. p = <<"issue", "describe">>
    BY <1>3 DEF Plans
  <2>2. p \in CreatePlan /\ \A i \in DOMAIN p : p[i] \notin Final
    BY <2>1 DEF CreatePlan, Final
  <2> QED
    BY <1>1, <1>3, <2>1, <2>2, CreateTails DEF PlanOK
<1> DEFINE Goal == /\ p \in Seq(Plain) /\ p # <<>> /\ Looks(p) /\ Last(p)
                   /\ \/ \E i \in DOMAIN p : p[i] \in Look
                      \/ \A i \in DOMAIN p : p[i] \notin Final
<1>4. ASSUME p \in Seq(Unfinal), p # <<>>
      PROVE  Goal
  BY <1>4 DEF Unfinal, Looks, Last
<1>5. ASSUME does \in {"detach", "remove"} PROVE Goal
  <2>1. p = <<"replace">> \/ p = <<"remove", "replace">>
    BY <1>5 DEF Plans
  <2>2. /\ <<"replace">> \in Seq(Unfinal) /\ <<"replace">> # <<>>
        /\ <<"remove", "replace">> \in Seq(Unfinal) /\ <<"remove", "replace">> # <<>>
    <3>1. {"remove", "replace"} \subseteq Unfinal
      BY DEF Unfinal, Plain, Replacing, Final
    <3>2. \A u, v \in Unfinal : <<u>> \in Seq(Unfinal) /\ <<u, v>> \in Seq(Unfinal)
      OBVIOUS
    <3> QED
      BY <3>1, <3>2
  <2> QED
    BY <1>4, <2>1, <2>2
<1>6. ASSUME does = "send" /\ s \in Memory PROVE Goal
  <2>1. p = <<"state", "load", "fused">>
    BY <1>6 DEF Plans
  <2>2. p \in Seq(Plain) /\ Len(p) = 3 /\ p[1] = "state" /\ p[2] = "load" /\ p[3] = "fused"
    BY <2>1 DEF Plain, SlotHeld
  <2>3. DOMAIN p = 1..3 /\ 1 \in DOMAIN p
    BY <2>2
  <2>4. Looks(p) /\ Last(p)
    BY <2>2, <2>3 DEF Looks, Last, Look, Final, SlotHeld
  <2>5. p[1] \in Look /\ p # <<>>
    BY <2>2, <2>3 DEF Look
  <2> QED
    BY <2>2, <2>3, <2>4, <2>5
<1>7. ASSUME does = "send" /\ s \notin Memory PROVE Goal
  <2>1. PICK l \in Loads :
          \/ p = <<"state", "ask", "build">> \o Proving(l) \o Signing \o Finalizing(l)
          \/ p = <<"state", "ask", "build">> \o Signing \o Proving(l) \o Finalizing(l)
    BY <1>7 DEF Plans, Loads
  <2>2. <<"state", "ask", "build">> \in Seq(Unfinal)
    <3>1. {"state", "ask", "build"} \subseteq Unfinal
      BY DEF Unfinal, Plain, Final
    <3>2. \A u, v, w \in Unfinal : <<u, v, w>> \in Seq(Unfinal)
      OBVIOUS
    <3> QED
      BY <3>1, <3>2
  <2>3. PICK a \in Seq(Unfinal) : p = a \o Finalizing(l)
    <3> DEFINE P == Proving(l)
               S == Signing
               I == <<"state", "ask", "build">>
    <3>1. P \in Seq(Unfinal) /\ S \in Seq(Unfinal) /\ I \in Seq(Unfinal)
      BY <2>2, Parts
    <3>2. p = ((I \o P) \o S) \o Finalizing(l) \/ p = ((I \o S) \o P) \o Finalizing(l)
      BY <2>1
    <3> HIDE DEF P, S, I
    <3>3. (I \o P) \o S \in Seq(Unfinal) /\ (I \o S) \o P \in Seq(Unfinal)
      BY <3>1
    <3> QED
      BY <3>2, <3>3
  <2> QED
    BY <2>3, Joined, Parts
<1>8. ASSUME does = "prove" PROVE Goal
  <2>1. PICK l \in Loads : p = Proving(l)
    BY <1>8 DEF Plans, Loads
  <2> QED
    BY <1>4, <2>1, Parts
<1>9. ASSUME does = "sign" PROVE Goal
  BY <1>4, <1>9, Parts DEF Plans, Loads
<1>10. ASSUME does = "finalize" PROVE Goal
  <2>1. PICK l \in Loads : p = Finalizing(l)
    BY <1>10 DEF Plans, Loads
  <2>2. 1 \in DOMAIN p
    BY <2>1, Parts
  <2> QED
    BY <2>1, <2>2, Parts
<1>11. ASSUME Goal, does \notin {"attach", "create"}
       PROVE  p \in Seq(StepName) /\ PlanOK(k)
  BY <1>1, <1>11 DEF PlanOK, StepName
<1> QED
  BY <1>2, <1>3, <1>5, <1>6, <1>7, <1>8, <1>9, <1>10, <1>11, WorkAssumption


-----------------------------------------------------------------------------
(* One call goes on *)

LEMMA Failing ==
    ASSUME Types, NEW c \in Call, Live(c), NEW p \in {call[c].plan, Tail(call[c].plan)}
    PROVE  /\ Adv(c, FailPlan(c, p))
           /\ \/ FailPlan(c, p) = <<>>
              \/ FailPlan(c, p) = <<"unwind">> /\ call[c].does = "attach" /\ p = <<"bind">>
              \/ FailPlan(c, p) = <<"release">> /\ call[c].does = "create"
              \/ FailPlan(c, p) = <<"report">> /\ call[c].does = "send"
           /\ \A q : Fails(c, p, q) <=> Moves(c, FailPlan(c, p), q)
<1>1. \A q : Fails(c, p, q) <=> Moves(c, FailPlan(c, p), q)
  BY DEF Fails, FailPlan
<1>2. ASSUME call[c].does = "attach", p = <<"bind">>
      PROVE  Attaches(c) /\ call[c].signer \in Memory
  <2>1. call[c].plan \in AttachPlan(call[c].signer)
    BY <1>2 DEF Types, PlanOK, Live
  <2>2. Head(call[c].plan) # "unwind"
    BY <1>2, <2>1, AttachTails
  <2>3. p \in AttachPlan(call[c].signer)
    <3>1. p # <<>>
      BY <1>2
    <3> QED
      BY <2>1, <3>1, AttachTails
  <2>4. call[c].signer \in Memory
    <3>1. Head(<<"bind">>) = "bind"
      OBVIOUS
    <3>2. \A r : Head(<<r, "account", "ask", "check">>) = r
      OBVIOUS
    <3>3. Head(<<"account", "ask", "check">>) = "account" /\ Head(<<"ask", "check">>) = "ask"
          /\ Head(<<"check">>) = "check"
      OBVIOUS
    <3> QED
      BY <1>2, <2>3, <3>1, <3>2, <3>3 DEF AttachPlan, Replacing
  <2> QED
    BY <1>2, <2>2, <2>4 DEF Attaches, At, Live
<1>3. engine # "open" => FailPlan(c, p) = <<>>
  BY DEF FailPlan
<1>4. \/ FailPlan(c, p) = <<>>
      \/ FailPlan(c, p) = <<"unwind">> /\ call[c].does = "attach" /\ p = <<"bind">>
      \/ FailPlan(c, p) = <<"release">> /\ call[c].does = "create"
      \/ FailPlan(c, p) = <<"report">> /\ call[c].does = "send"
  BY DEF FailPlan
<1> QED
  BY <1>1, <1>2, <1>3, <1>4 DEF Adv

LEMMA Going ==
    ASSUME Types, NEW c \in Call, Live(c)
    PROVE  LET p == Tail(call[c].plan)
           IN  /\ Adv(c, GoPlan(c, p))
               /\ GoPlan(c, p) = p \/ GoPlan(c, p) = FailPlan(c, p)
               /\ \A q : Goes(c, p, q) <=> Moves(c, GoPlan(c, p), q)
<1> DEFINE p == Tail(call[c].plan)
<1>1. Adv(c, FailPlan(c, p)) /\ \A q : Fails(c, p, q) <=> Moves(c, FailPlan(c, p), q)
  BY Failing
<1>2. GoPlan(c, p) = p => Adv(c, p)
  <2>1. CASE p = <<>>
    BY <2>1 DEF Adv
  <2>2. CASE p # <<>> /\ SlotFree(c, p) /\ engine = "open"
    BY <2>2 DEF Adv
  <2>3. CASE p # <<>> /\ (~SlotFree(c, p) \/ engine # "open")
    BY <1>1, <2>3 DEF GoPlan
  <2> QED
    BY <2>1, <2>2, <2>3
<1>3. GoPlan(c, p) = p \/ GoPlan(c, p) = FailPlan(c, p)
  BY DEF GoPlan
<1>4. \A q : Goes(c, p, q) <=> Moves(c, GoPlan(c, p), q)
  BY <1>1 DEF Goes, GoPlan
<1> QED
  BY <1>1, <1>2, <1>3, <1>4

\* q is what is left of the queue without the command of c, in its order.
Kept(q, c) ==
    /\ q \in Seq(Entry)
    /\ \E f \in [DOMAIN q -> DOMAIN queue] :
          /\ \A i \in DOMAIN q : q[i] = queue[f[i]] /\ q[i].by # c
          /\ \A i, j \in DOMAIN q : i < j => f[i] < f[j]

LEMMA KeptAll ==
    ASSUME Types, QueueOK, NEW c \in Call, ~AtAny(c, Command) \/ engine = "crashed"
    PROVE  Kept(queue, c)
<1>1. \A i \in DOMAIN queue : queue[i].by # c
  BY CallAssumption DEF QueueOK, At, AtAny
<1>2. [i \in DOMAIN queue |-> i] \in [DOMAIN queue -> DOMAIN queue]
  OBVIOUS
<1> QED
  BY <1>1, <1>2 DEF Kept, Types

LEMMA KeptTail ==
    ASSUME Types, QueueOK, NEW c \in Call, queue # <<>>, Head(queue).by = c
    PROVE  Kept(Tail(queue), c)
<1> DEFINE q == Tail(queue)
           f == [i \in DOMAIN q |-> i + 1]
<1>1. /\ q \in Seq(Entry) /\ Len(queue) \in Nat \ {0}
      /\ DOMAIN queue = 1..Len(queue) /\ DOMAIN q = 1..(Len(queue) - 1)
      /\ \A i \in DOMAIN q : q[i] = queue[i + 1]
      /\ queue[1].by = c
  BY DEF Types
<1>2. f \in [DOMAIN q -> DOMAIN queue]
  BY <1>1
<1>3. \A i \in DOMAIN q : q[i].by # c
  BY <1>1, CallAssumption DEF QueueOK
<1>4. \A i, j \in DOMAIN q : i < j => f[i] < f[j]
  BY <1>1
<1>5. \A i \in DOMAIN q : q[i] = queue[f[i]]
  BY <1>1
<1> HIDE DEF q, f
<1>6. Kept(q, c)
  BY <1>1, <1>2, <1>3, <1>4, <1>5 DEF Kept
<1> QED
  BY <1>6 DEF q

LEMMA KeptCut ==
    ASSUME Types, QueueOK, NEW c \in Call, NEW i \in DOMAIN queue, queue[i].by = c
    PROVE  Kept(SubSeq(queue, 1, i - 1) \o SubSeq(queue, i + 1, Len(queue)), c)
<1> DEFINE a == SubSeq(queue, 1, i - 1)
           b == SubSeq(queue, i + 1, Len(queue))
           q == a \o b
           f == [j \in DOMAIN q |-> IF j < i THEN j ELSE j + 1]
           n == Len(queue)
<1>1. n \in Nat /\ i \in 1..n /\ DOMAIN queue = 1..n /\ queue \in Seq(Entry)
  BY DEF Types
<1>2. /\ a \in Seq(Entry) /\ Len(a) = i - 1 /\ \A j \in 1..(i - 1) : a[j] = queue[j]
      /\ b \in Seq(Entry) /\ Len(b) = n - i /\ \A j \in 1..(n - i) : b[j] = queue[j + i]
  <2>1. n \in Nat /\ i - 1 \in 0..n /\ i + 1 \in 1..n + 1 /\ DOMAIN queue = 1..n
        /\ queue \in Seq(Entry) /\ n = Len(queue)
    BY <1>1
  <2> HIDE DEF n
  <2>2. a \in Seq(Entry) /\ Len(a) = i - 1 /\ \A j \in 1..(i - 1) : a[j] = queue[j]
    BY <2>1
  <2>3. b \in Seq(Entry) /\ Len(b) = n - i
    BY <1>1, <2>1
  <2>4. \A j \in 1..(n - i) : b[j] = queue[j + i]
    BY <1>1, <2>1
  <2> QED
    BY <2>2, <2>3, <2>4
<1> HIDE DEF a, b
<1>3. q \in Seq(Entry) /\ DOMAIN q = 1..(n - 1)
  <2>1. q \in Seq(Entry)
    BY <1>2
  <2>2. Len(q) = Len(a) + Len(b)
    <3>1. a \in Seq(Entry) /\ b \in Seq(Entry)
      BY <1>2
    <3> QED
      BY <3>1
  <2> QED
    <3>1. Len(a) = i - 1 /\ Len(b) = n - i /\ n \in Nat /\ i \in 1..n
      BY <1>1, <1>2
    <3>2. Len(q) = n - 1
      BY <2>2, <3>1
    <3> QED
      BY <2>1, <3>2
<1>4. \A j \in 1..(n - 1) : q[j] = queue[IF j < i THEN j ELSE j + 1]
  <2> TAKE j \in 1..(n - 1)
  <2>1. CASE j < i
    BY <1>1, <1>2, <2>1
  <2>2. CASE ~(j < i)
    <3>1. j - (i - 1) \in 1..(n - i) /\ (j - (i - 1)) + i = j + 1
      BY <1>1, <2>2
    <3>2. q[j] = b[j - (i - 1)]
      BY <1>1, <1>2, <2>2, <3>1
    <3> QED
      BY <1>2, <2>2, <3>1, <3>2
  <2> QED
    BY <2>1, <2>2
<1> HIDE DEF q, n
<1>5. f \in [DOMAIN q -> DOMAIN queue]
  BY <1>1, <1>3
<1>6. \A j \in DOMAIN q : q[j] = queue[f[j]] /\ f[j] # i
  BY <1>1, <1>3, <1>4
<1>7. \A j \in DOMAIN q : q[j].by # c
  BY <1>5, <1>6, CallAssumption DEF QueueOK
<1>8. \A j, k \in DOMAIN q : j < k => f[j] < f[k]
  BY <1>1, <1>3
<1> HIDE DEF f
<1>9. Kept(q, c)
  BY <1>3, <1>5, <1>6, <1>7, <1>8 DEF Kept
<1> QED
  BY <1>9 DEF q, a, b


\* The call c goes on with plan n, q being what is left of the queue.
Moving(c, n, q) ==
    /\ Live(c) /\ Adv(c, n) /\ Kept(q, c) /\ Moves(c, n, q)
    /\ engine' = engine

\* What Moves() does to the plans.
LEMMA MovedCalls ==
    ASSUME Types, NEW c \in Call, NEW n, NEW q, Moving(c, n, q)
    PROVE  /\ call' \in [Call -> CallRec] /\ \A d \in Call : PlanOK(call'[d])
           /\ call'[c].plan = n /\ call'[c].does = call[c].does
           /\ call'[c].signer = call[c].signer /\ call'[c].cut = call[c].cut
           /\ \A d \in Call : d # c => call'[d] = call[d]
           /\ n \in Seq(StepName)
<1> DEFINE e == [call[c] EXCEPT !.plan = n]
<1>1. call[c] \in CallRec /\ PlanOK(call[c]) /\ call[c].plan # <<>>
  BY DEF Types, Moving, Live
<1>2. \/ n = <<>> \/ n = Tail(call[c].plan)
      \/ n = <<"unwind">> /\ call[c].does = "attach" /\ call[c].signer \in Memory
      \/ n = <<"release">> /\ call[c].does = "create"
      \/ n = <<"report">> /\ call[c].does = "send"
  BY DEF Moving, Adv, Attaches
<1>3. e \in CallRec /\ PlanOK(e)
  BY <1>1, <1>2, AdvPlan
<1>4. call' = [call EXCEPT ![c] = e]
  BY <1>1 DEF Moving, Moves, Types
<1>5. /\ e.plan = n /\ e.does = call[c].does /\ e.signer = call[c].signer /\ e.cut = call[c].cut
      /\ e.plan \in Seq(StepName)
  BY <1>1, <1>3 DEF CallRec
<1> HIDE DEF e
<1> QED
  BY <1>3, <1>4, <1>5 DEF Types

LEMMA MovedQueue ==
    ASSUME Types, QueueOK, NEW c \in Call, NEW n, NEW q, Moving(c, n, q)
    PROVE  queue' \in Seq(Entry) /\ QueueOK'
<1> DEFINE NextAt(d, s) == call'[d].plan # <<>> /\ Head(call'[d].plan) = s
<1>1. PICK f \in [DOMAIN q -> DOMAIN queue] :
         /\ \A i \in DOMAIN q : q[i] = queue[f[i]] /\ q[i].by # c
         /\ \A i, j \in DOMAIN q : i < j => f[i] < f[j]
  BY DEF Moving, Kept
<1>2. /\ q \in Seq(Entry) /\ Len(q) \in Nat /\ DOMAIN q = 1..Len(q)
      /\ DOMAIN queue = 1..Len(queue) /\ Len(queue) \in Nat
      /\ queue \in Seq(Entry)
  BY DEF Moving, Kept, Types
<1>3. ASSUME NEW i \in DOMAIN q
      PROVE  /\ q[i].by = None => q[i].op \in {"unbind", "close"}
             /\ q[i].by # None => q[i].op \in Command /\ NextAt(q[i].by, q[i].op)
  <2>1. f[i] \in DOMAIN queue /\ q[i] = queue[f[i]] /\ q[i].by # c /\ q[i].by \in Call \cup {None}
    <3>1. q[i] \in Entry
      BY <1>2
    <3>2. q[i].by \in Call \cup {None}
      BY <3>1 DEF Entry
    <3> QED
      BY <1>1, <3>2
  <2>2. q[i].by # None => call'[q[i].by] = call[q[i].by]
    BY <2>1, MovedCalls
  <2> QED
    BY <2>1, <2>2 DEF QueueOK, At
<1>4. ASSUME NEW i \in DOMAIN q, NEW j \in DOMAIN q, q[i].by # None, q[i].by = q[j].by
      PROVE  i = j
  <2>1. f[i] = f[j] /\ f[i] \in DOMAIN queue
    BY <1>1, <1>4 DEF QueueOK
  <2> QED
    BY <1>1, <1>2, <2>1
<1>5. engine = "crashed" => q = <<>> /\ n = <<>>
  <2>1. engine = "crashed" => DOMAIN queue = {}
    BY DEF QueueOK
  <2>2. engine = "crashed" => Len(q) = 0
    BY <1>1, <1>2, <2>1
  <2> QED
    BY <1>2, <2>2 DEF Moving, Adv
<1>6. CASE queue' = q
  BY <1>2, <1>3, <1>4, <1>5, <1>6 DEF QueueOK, Moving, At
<1>7. CASE n # <<>> /\ Head(n) \in Command /\ queue' = Append(q, [by |-> c, op |-> Head(n)])
  <2> DEFINE e == [by |-> c, op |-> Head(n)]
             m == Len(q) + 1
  <2>1. e \in Entry /\ e.by = c /\ e.op = Head(n)
    BY <1>7 DEF Entry
  <2> HIDE DEF e
  <2>2. /\ queue' \in Seq(Entry) /\ DOMAIN queue' = 1..m /\ queue'[m] = e
        /\ \A i \in 1..m : i # m => i \in DOMAIN q /\ queue'[i] = q[i]
    BY <1>2, <1>7, <2>1 DEF e
  <2>3. NextAt(c, Head(n))
    BY <1>7, MovedCalls
  <2>4. c # None
    BY CallAssumption
  <2> HIDE DEF m
  <2>5. \A i \in DOMAIN queue' :
          IF queue'[i].by = None THEN queue'[i].op \in {"unbind", "close"}
          ELSE queue'[i].op \in Command /\ NextAt(queue'[i].by, queue'[i].op)
    <3> TAKE i \in DOMAIN queue'
    <3>1. CASE i = m
      BY <1>7, <2>1, <2>2, <2>3, <2>4, <3>1
    <3>2. CASE i # m
      <4>1. i \in DOMAIN q /\ queue'[i] = q[i]
        BY <2>2, <3>2
      <4> QED
        BY <1>3, <4>1
    <3> QED
      BY <3>1, <3>2
  <2>6. \A i, j \in DOMAIN queue' :
          queue'[i].by # None /\ queue'[i].by = queue'[j].by => i = j
    BY <1>1, <1>4, <2>1, <2>2
  <2>7. engine' # "crashed"
    BY <1>5, <1>7 DEF Moving
  <2> QED
    BY <2>2, <2>5, <2>6, <2>7 DEF QueueOK, At
<1> QED
  BY <1>6, <1>7 DEF Moving, Moves

LEMMA MovedSlot ==
    ASSUME Types, SlotOK, AttachOK, NEW c \in Call, NEW n, NEW q, Moving(c, n, q)
    PROVE  /\ slot' \in Call \cup {None} /\ SlotOK'
           /\ attaching' \in Call \cup {None} /\ AttachOK'
           /\ \A d \in Call : d # c /\ slot = d => slot' = d
<1>1. /\ slot' = (IF n # <<>> /\ Head(n) \in SlotHeld THEN c ELSE IF slot = c THEN None ELSE slot)
      /\ attaching' = (IF attaching = c /\ (n = <<>> \/ Head(n) = "unwind") THEN None
                       ELSE attaching)
  BY DEF Moving, Moves
<1>2. n # <<>> /\ Head(n) \in SlotHeld => slot \in {None, c}
  BY DEF Moving, Adv, SlotFree, SlotHeld
<1>3. /\ \A d \in Call : d # c => call'[d] = call[d]
      /\ call'[c].plan = n /\ call'[c].does = call[c].does
  BY MovedCalls
<1>4. SlotOK'
  BY <1>1, <1>2, <1>3, CallAssumption DEF SlotOK, AtAny, Types
<1>5. Attaches(c)' => Attaches(c)
  <2> SUFFICES ASSUME call[c].does = "attach", n # <<>>, Head(n) # "unwind"
               PROVE  Attaches(c)
    BY <1>3 DEF Attaches, Live, At
  <2>1. n = Tail(call[c].plan)
    BY DEF Moving, Adv
  <2>2. call[c].plan \in AttachPlan(call[c].signer)
    BY DEF Moving, Live, Types, PlanOK
  <2>3. Head(call[c].plan) # "unwind"
    BY <2>1, <2>2, AttachTails
  <2> QED
    BY <2>3 DEF Attaches, At, Moving
<1>6. \A d \in Call : d # c => (Attaches(d)' <=> Attaches(d))
  BY <1>3 DEF Attaches, Live, At
<1>7. n # <<>> /\ Head(n) # "unwind" /\ attaching = c => Attaches(c)'
  BY <1>3, CallAssumption DEF Attaches, Live, At, AttachOK
<1>8. n = <<>> \/ Head(n) = "unwind" => ~Attaches(c)'
  BY <1>3 DEF Attaches, Live, At
<1>9. AttachOK'
  BY <1>1, <1>5, <1>6, <1>7, <1>8, CallAssumption DEF AttachOK, Types
<1> QED
  BY <1>1, <1>2, <1>4, <1>9, CallAssumption DEF Types


LEMMA MovedOnce ==
    ASSUME Types, Once, NEW c \in Call, NEW n, NEW q, Moving(c, n, q),
           finalized' = finalized,
           AtAny(c, Look) /\ n = Tail(call[c].plan) /\ n \notin {<<>>, <<"report">>} =>
               finalized = 0
    PROVE  Once'
<1>1. \A d \in Call : d # c => (Committed(d)' <=> Committed(d))
  BY MovedCalls DEF Committed
<1>2. Committed(c)' => finalized = 0
  <2> SUFFICES ASSUME Committed(c)' PROVE finalized = 0
    OBVIOUS
  <2>1. /\ \E i \in DOMAIN n : n[i] \in Final
        /\ \A i \in DOMAIN n : n[i] \notin Look
    BY MovedCalls DEF Committed
  <2>2. n # <<>> /\ n # <<"unwind">> /\ n # <<"release">> /\ n # <<"report">>
    BY <2>1 DEF Final
  <2>3. n = Tail(call[c].plan)
    BY <2>2 DEF Moving, Adv
  <2>4. CASE AtAny(c, Look)
    BY <2>2, <2>3, <2>4
  <2>5. CASE ~AtAny(c, Look)
    <3> DEFINE p == call[c].plan
    <3>1. p \in Seq(StepName) /\ p # <<>>
      BY DEF Types, CallRec, Moving, Live
    <3>2. /\ Head(p) \notin Look /\ p[1] = Head(p)
      BY <2>5, <3>1 DEF AtAny
    <3> HIDE DEF p
    <3>3. /\ \A i \in DOMAIN n : i + 1 \in DOMAIN p /\ n[i] = p[i + 1]
          /\ \A i \in DOMAIN p : i # 1 => i - 1 \in DOMAIN n /\ p[i] = n[i - 1]
      BY <2>3, <3>1 DEF p
    <3>4. \A i \in DOMAIN p : p[i] \notin Look
      BY <2>1, <3>2, <3>3
    <3>5. \E i \in DOMAIN p : p[i] \in Final
      BY <2>1, <3>3
    <3> QED
      BY <3>4, <3>5 DEF Once, Committed, p
  <2> QED
    BY <2>4, <2>5
<1> QED
  BY <1>1, <1>2 DEF Once

\* Only an attachment sends the commands of one, and only a creation those of one.
LEMMA WhoseStep ==
    ASSUME Types, NEW c \in Call, Live(c)
    PROVE  /\ AtAny(c, Binding \cup {"unwind"}) => call[c].does = "attach"
           /\ AtAny(c, {"issue", "describe", "release"}) => call[c].does = "create"
           /\ AtAny(c, Look \cup Final \cup {"load"}) => call[c].does \notin {"attach", "create"}
<1> DEFINE p == call[c].plan
<1>1. PlanOK(call[c]) /\ p # <<>>
  BY DEF Types, Live
<1>2. CASE call[c].does = "attach"
  <2>1. p \in AttachPlan(call[c].signer)
    BY <1>1, <1>2 DEF PlanOK
  <2>2. /\ \A r : Head(<<r, "bind">>) = r /\ Head(<<r, "account", "ask", "check">>) = r
        /\ Head(<<"account", "ask", "check">>) = "account" /\ Head(<<"ask", "check">>) = "ask"
        /\ Head(<<"check">>) = "check" /\ Head(<<"bind">>) = "bind" /\ Head(<<"unwind">>) = "unwind"
    OBVIOUS
  <2>3. Head(p) \in Replacing \cup Binding \cup {"ask", "unwind"}
    BY <2>1, <2>2 DEF AttachPlan, Binding
  <2> QED
    BY <1>2, <2>3 DEF AtAny, Look, Final, Replacing, Binding
<1>3. CASE call[c].does = "create"
  <2>1. p \in CreatePlan
    BY <1>1, <1>3 DEF PlanOK
  <2>2. /\ Head(<<"issue", "describe">>) = "issue" /\ Head(<<"describe">>) = "describe"
        /\ Head(<<"release">>) = "release"
    OBVIOUS
  <2>3. Head(p) \in {"issue", "describe", "release"}
    BY <2>1, <2>2 DEF CreatePlan
  <2> QED
    BY <1>3, <2>3 DEF AtAny, Look, Final, Replacing, Binding
<1>4. CASE call[c].does \notin {"attach", "create"}
  <2>1. p \in Seq(Plain)
    BY <1>1, <1>4 DEF PlanOK
  <2>2. Head(p) \in Plain
    BY <1>1, <2>1
  <2> QED
    BY <1>4, <2>2 DEF AtAny, Plain, Replacing, SlotHeld, Binding
<1> QED
  BY <1>2, <1>3, <1>4

\* What an attachment goes on to.
LEMMA AttachSteps ==
    ASSUME Types, NEW c \in Call, Live(c), call[c].does = "attach",
           NEW n, n = Tail(call[c].plan), n # <<>>
    PROVE  /\ AtAny(c, Replacing \cup Binding \cup {"ask"})
           /\ Head(n) \in Binding \cup {"ask"}
           /\ Head(n) = "ask" => At(c, "account")
           /\ AtAny(c, Binding) => At(c, "account")
           /\ At(c, "account") => Head(n) = "ask"
<1> DEFINE p == call[c].plan
<1>1. p \in AttachPlan(call[c].signer) /\ p # <<>>
  BY DEF Types, PlanOK, Live
<1>2. CASE \E r \in Replacing : p = <<r, "bind">> \/ p = <<r, "account", "ask", "check">>
  <2>1. PICK r \in Replacing : p = <<r, "bind">> \/ p = <<r, "account", "ask", "check">>
    BY <1>2
  <2>2. Head(p) = r /\ Head(n) \in {"bind", "account"}
    BY <2>1
  <2> QED
    BY <1>1, <2>2 DEF AtAny, At, Binding, Replacing
<1>3. CASE p = <<"account", "ask", "check">>
  BY <1>3 DEF AtAny, At, Binding, Replacing
<1>4. CASE p = <<"ask", "check">>
  BY <1>4 DEF AtAny, At, Binding, Replacing
<1>5. Tail(<<"check">>) = <<>> /\ Tail(<<"bind">>) = <<>> /\ Tail(<<"unwind">>) = <<>>
  OBVIOUS
<1> QED
  BY <1>1, <1>2, <1>3, <1>4, <1>5 DEF AttachPlan


\* The attachment c is published, when no earlier one is being undone.
Publishes(c, n, q) ==
    /\ Attaches(c) /\ AtAny(c, Binding) /\ n = <<>>
    /\ \A j \in DOMAIN q : q[j].op # "unwind"

LEMMA MovedBinding ==
    ASSUME Types, QueueOK, AttachOK, BindingOK, NEW c \in Call, NEW n, NEW q, Moving(c, n, q),
           binding' = binding \/ Publishes(c, n, q),
           call[c].does = "attach" /\ n # <<>> /\ n = Tail(call[c].plan) /\ AtAny(c, Replacing) =>
               binding' = None,
           n = <<"unwind">> => binding' = None,
           At(c, "account") /\ n # <<>> => \A j \in DOMAIN q : q[j].op # "unwind"
    PROVE  BindingOK'
<1>1. /\ \A d \in Call : d # c => call'[d] = call[d]
      /\ call'[c].plan = n /\ call'[c].does = call[c].does
  BY MovedCalls
<1>2. PICK f \in [DOMAIN q -> DOMAIN queue] :
         /\ \A i \in DOMAIN q : q[i] = queue[f[i]] /\ q[i].by # c
         /\ \A i, j \in DOMAIN q : i < j => f[i] < f[j]
  BY DEF Moving, Kept
<1>3. /\ q \in Seq(Entry) /\ Len(q) \in Nat /\ DOMAIN q = 1..Len(q)
      /\ DOMAIN queue = 1..Len(queue) /\ Len(queue) \in Nat /\ queue \in Seq(Entry)
  BY DEF Moving, Kept, Types
<1> DEFINE m == Len(q) + 1
<1>4. \/ queue' = q
      \/ /\ n # <<>> /\ Head(n) \in Command
         /\ queue' \in Seq(Entry) /\ DOMAIN queue' = 1..m /\ queue'[m].op = Head(n)
         /\ \A i \in 1..m : i # m => i \in DOMAIN q /\ queue'[i] = q[i]
  <2> DEFINE e == [by |-> c, op |-> Head(n)]
  <2>1. e.op = Head(n) /\ (Head(n) \in Command => e \in Entry)
    BY DEF Entry
  <2> HIDE DEF e
  <2>2. queue' = q \/ (n # <<>> /\ Head(n) \in Command /\ queue' = Append(q, e))
    BY DEF Moving, Moves, e
  <2>3. CASE queue' = q
    BY <2>3
  <2>4. CASE n # <<>> /\ Head(n) \in Command /\ queue' = Append(q, e)
    <3>1. queue' \in Seq(Entry) /\ Len(queue') = m /\ DOMAIN queue' = 1..m
      BY <1>3, <2>1, <2>4
    <3>2. queue'[m] = e /\ \A i \in 1..m : i # m => i \in DOMAIN q /\ queue'[i] = q[i]
      BY <1>3, <2>4
    <3> QED
      BY <2>1, <2>4, <3>1, <3>2
  <2> QED
    BY <2>2, <2>3, <2>4
<1> HIDE DEF m
\* A new entry is what the call is at now; only an attachment enters one of these.
<1>5. n # <<>> /\ Head(n) \in Binding \cup {"ask", "replaced"} /\ call[c].does = "attach" =>
         n = Tail(call[c].plan) /\ Head(n) # "replaced"
  <2> SUFFICES ASSUME n # <<>>, Head(n) \in Binding \cup {"ask", "replaced"},
                      call[c].does = "attach"
               PROVE  n = Tail(call[c].plan) /\ Head(n) # "replaced"
    OBVIOUS
  <2>1. n = Tail(call[c].plan)
    <3>1. Head(<<"unwind">>) = "unwind"
      OBVIOUS
    <3> QED
      BY <3>1 DEF Moving, Adv, Binding
  <2>2. Head(n) \in Binding \cup {"ask"}
    BY <2>1, AttachSteps DEF Moving
  <2> QED
    BY <2>1, <2>2 DEF Binding
<1>6. n # <<>> /\ Head(n) \in Binding \cup {"unwind"} => Attaches(c)
  <2> SUFFICES ASSUME n # <<>>, Head(n) \in Binding \cup {"unwind"} PROVE Attaches(c)
    OBVIOUS
  <2>1. \A d \in Call : PlanOK(call'[d])
    BY MovedCalls
  <2>2. call[c].does = "attach"
    <3>1. CASE n = Tail(call[c].plan)
      <4>1. CASE call[c].does = "create"
        <5>1. call[c].plan \in CreatePlan
          BY <4>1 DEF Types, PlanOK, Moving, Live
        <5>2. Tail(call[c].plan) = <<"describe">> \/ Tail(call[c].plan) = <<>>
          <6>1. /\ Tail(<<"issue", "describe">>) = <<"describe">>
                /\ Tail(<<"describe">>) = <<>> /\ Tail(<<"release">>) = <<>>
            OBVIOUS
          <6> QED
            BY <5>1, <6>1 DEF CreatePlan
        <5>3. Head(<<"describe">>) = "describe"
          OBVIOUS
        <5> QED
          BY <3>1, <5>2, <5>3 DEF Binding
      <4>2. CASE call[c].does \notin {"attach", "create"}
        <5>1. n \in Seq(Plain)
          BY <1>1, <2>1, <4>2 DEF PlanOK
        <5>2. Head(n) \in Plain
          BY <5>1
        <5> QED
          BY <5>2 DEF Plain, Replacing, SlotHeld, Binding
      <4> QED
        BY <4>1, <4>2
    <3>2. CASE n # Tail(call[c].plan)
      <4>1. Head(<<"release">>) = "release" /\ Head(<<"report">>) = "report"
        OBVIOUS
      <4> QED
        BY <3>2, <4>1 DEF Moving, Adv, Attaches, Binding
    <3> QED
      BY <3>1, <3>2
  <2>3. call[c].plan \in AttachPlan(call[c].signer)
    BY <2>2 DEF Types, PlanOK, Moving, Live
  <2>4. n = Tail(call[c].plan) \/ Attaches(c)
    BY <2>2 DEF Moving, Adv
  <2>5. n = Tail(call[c].plan) => Head(call[c].plan) # "unwind"
    BY <2>3, AttachTails
  <2> QED
    BY <2>2, <2>4, <2>5 DEF Attaches, Moving, At
<1>7. Attaches(c) => \A d \in Call : Attaches(d) => d = c
  BY DEF AttachOK
<1>8. ASSUME NEW d \in Call, AtAny(d, Binding \cup {"ask", "replaced"}), call[d].does = "attach"
      PROVE  Attaches(d)
  BY <1>8 DEF AtAny, At, Attaches, Live, Binding
<1>9. ASSUME NEW i \in DOMAIN q, q[i].op \in Binding
      PROVE  ~Attaches(c)
  <2>1. q[i] \in Entry /\ f[i] \in DOMAIN queue
    BY <1>2, <1>3
  <2>2. q[i].by \in Call
    BY <1>2, <1>9, <2>1 DEF QueueOK, Entry, Binding
  <2> DEFINE d == q[i].by
  <2>3. At(d, q[i].op) /\ d # c
    BY <1>2, <2>1, <2>2, CallAssumption DEF QueueOK
  <2>4. AtAny(d, Binding) /\ Live(d)
    BY <1>9, <2>3 DEF At, AtAny, Live
  <2>5. call[d].does = "attach"
    BY <2>2, <2>4, WhoseStep DEF AtAny
  <2> HIDE DEF d
  <2>6. Attaches(d)
    BY <1>8, <2>2, <2>4, <2>5 DEF AtAny, d
  <2> QED
    BY <1>7, <2>2, <2>3, <2>6 DEF d
\* The places of an attachment behind its disposal.
<1>10. ASSUME NEW d \in Call, call'[d].does = "attach", AtAny(d, Binding \cup {"ask", "replaced"})'
       PROVE  binding' = None
  <2>1. CASE d = c
    <3>1. n # <<>> /\ Head(n) \in Binding \cup {"ask", "replaced"} /\ call[c].does = "attach"
      BY <1>1, <1>10, <2>1 DEF AtAny
    <3>2. n = Tail(call[c].plan)
      BY <1>5, <3>1
    <3>3. CASE AtAny(c, Replacing)
      BY <3>1, <3>2, <3>3
    <3>4. CASE ~AtAny(c, Replacing)
      <4>1. AtAny(c, Binding \cup {"ask"})
        BY <3>1, <3>2, <3>4, AttachSteps DEF AtAny, Moving
      <4>2. binding = None
        BY <3>1, <4>1 DEF BindingOK, AtAny
      <4> QED
        BY <3>1, <4>2 DEF Publishes
    <3> QED
      BY <3>3, <3>4
  <2>2. CASE d # c
    <3>1. call[d].does = "attach" /\ AtAny(d, Binding \cup {"ask", "replaced"})
      BY <1>1, <1>10, <2>2 DEF AtAny
    <3> QED
      BY <1>7, <1>8, <2>2, <3>1 DEF BindingOK, Publishes
  <2> QED
    BY <2>1, <2>2
\* No unbinding of an earlier attachment is behind a publication, or behind a question.
<1>11. ASSUME binding' # None \/ \E d \in Call : Asks(d)', NEW j \in DOMAIN queue'
       PROVE  queue'[j].op # "unwind"
  <2>1. \A i \in DOMAIN q : q[i].op # "unwind"
    <3>1. CASE binding' # None /\ binding' = binding
      BY <1>2, <3>1 DEF BindingOK
    <3>2. CASE Publishes(c, n, q)
      BY <3>2 DEF Publishes
    <3>3. ASSUME NEW d \in Call, Asks(d)'
          PROVE  \A i \in DOMAIN q : q[i].op # "unwind"
      <4>1. CASE d = c
        <5>1. n # <<>> /\ Head(n) = "ask" /\ call[c].does = "attach"
          BY <1>1, <3>3, <4>1 DEF Asks, At
        <5>2. At(c, "account")
          BY <1>5, <5>1, AttachSteps DEF Moving
        <5> QED
          BY <5>1, <5>2
      <4>2. CASE d # c
        <5>1. Asks(d)
          BY <1>1, <3>3, <4>2 DEF Asks, At
        <5> QED
          BY <1>2, <5>1 DEF BindingOK
      <4> QED
        BY <4>1, <4>2
    <3> QED
      BY <1>11, <3>1, <3>2, <3>3
  <2>2. ASSUME n # <<>>, Head(n) = "unwind"
        PROVE  FALSE
    <3>1. n = <<"unwind">>
      <4>1. Attaches(c)
        BY <1>6, <2>2
      <4>2. n = Tail(call[c].plan) => FALSE
        <5>1. call[c].plan \in AttachPlan(call[c].signer)
          BY <4>1 DEF Types, PlanOK, Moving, Live, Attaches
        <5> QED
          BY <2>2, <5>1, AttachTails
      <4> QED
        BY <2>2, <4>1, <4>2 DEF Moving, Adv, Attaches
    <3>2. binding' = None /\ Attaches(c)
      BY <1>6, <2>2, <3>1
    <3>3. PICK d \in Call : Asks(d)'
      BY <1>11, <3>2
    <3>4. d # c
      BY <1>1, <2>2, <3>3 DEF Asks, At
    <3>5. Asks(d)
      BY <1>1, <3>3, <3>4 DEF Asks, At
    <3>6. Attaches(d)
      BY <3>5 DEF Asks, At, Attaches, Live
    <3> QED
      BY <1>7, <3>2, <3>4, <3>6
  <2> QED
    BY <1>4, <2>1, <2>2
<1>12. ASSUME NEW i \in DOMAIN queue', NEW j \in DOMAIN queue',
              queue'[i].op \in Binding, queue'[j].op = "unwind"
       PROVE  j < i
  <2>1. ASSUME i \in DOMAIN q, j \in DOMAIN q, queue'[i] = q[i], queue'[j] = q[j]
        PROVE  j < i
    <3>1. f[j] < f[i] /\ f[i] \in DOMAIN queue /\ f[j] \in DOMAIN queue
      BY <1>2, <1>12, <2>1 DEF BindingOK
    <3>2. ~(f[i] < f[j]) /\ f[i] # f[j]
      BY <1>3, <3>1
    <3> QED
      BY <1>2, <1>3, <2>1, <3>2
  <2>2. CASE queue' = q
    BY <1>12, <2>1, <2>2
  <2>3. CASE queue' # q
    <3>1. /\ n # <<>> /\ DOMAIN queue' = 1..m /\ queue'[m].op = Head(n)
          /\ \A k \in 1..m : k # m => k \in DOMAIN q /\ queue'[k] = q[k]
      BY <1>4, <2>3
    <3>2. CASE j = m
      <4>1. Attaches(c)
        BY <1>6, <1>12, <3>1, <3>2
      <4>2. i # m
        BY <1>12, <3>2 DEF Binding
      <4> QED
        BY <1>9, <1>12, <3>1, <4>1, <4>2
    <3>3. CASE j # m /\ i = m
      BY <1>3, <3>1, <3>3 DEF m
    <3>4. CASE j # m /\ i # m
      BY <2>1, <3>1, <3>4
    <3> QED
      BY <3>2, <3>3, <3>4
  <2> QED
    BY <2>2, <2>3
<1>13. ASSUME engine' = "open", NEW i \in DOMAIN queue', queue'[i].op = "unbind"
       PROVE  /\ binding' # None /\ binding'.unbind = "asked"
              /\ \A j \in DOMAIN queue' : queue'[j].op = "unbind" => i = j
  <2>1. ASSUME NEW k \in DOMAIN queue', queue'[k].op = "unbind"
        PROVE  /\ k \in DOMAIN q /\ q[k].op = "unbind"
               /\ f[k] \in DOMAIN queue /\ queue[f[k]].op = "unbind"
    <3>1. "unbind" \notin Command
      BY DEF Command, Unsignalled
    <3>2. k \in DOMAIN q /\ q[k].op = "unbind"
      BY <1>4, <2>1, <3>1
    <3> QED
      BY <1>2, <3>2
  <2>2. binding # None /\ binding.unbind = "asked" /\ engine = "open"
    BY <1>13, <2>1 DEF BindingOK, Moving
  <2>3. binding' = binding
    BY <2>2 DEF Publishes, BindingOK, Attaches, AtAny
  <2>4. ASSUME NEW j \in DOMAIN queue', queue'[j].op = "unbind"
        PROVE  i = j
    <3>1. f[i] = f[j] /\ i \in DOMAIN q /\ j \in DOMAIN q /\ f[i] \in DOMAIN queue
      BY <1>13, <2>1, <2>2, <2>4 DEF BindingOK
    <3>2. ~(i < j) /\ ~(j < i)
      BY <1>2, <1>3, <3>1
    <3> QED
      BY <1>3, <3>1, <3>2
  <2> QED
    BY <2>2, <2>3, <2>4
<1> QED
  BY <1>10, <1>11, <1>12, <1>13 DEF BindingOK


\* A step that only takes the call c on: neither its binding nor the engine's signers, nor
\* what it loads, is left behind.
Quiet(c, n, q) ==
    /\ Moving(c, n, q)
    /\ UNCHANGED <<binding, closing, signers, finalized>>
    /\ AtAny(c, Look) /\ n = Tail(call[c].plan) /\ n \notin {<<>>, <<"report">>} => finalized = 0
    /\ call[c].does = "attach" /\ n # <<>> /\ n = Tail(call[c].plan) /\ AtAny(c, Replacing) =>
           binding = None
    /\ n = <<"unwind">> => binding = None
    /\ At(c, "account") /\ n # <<>> => \A j \in DOMAIN q : q[j].op # "unwind"
    /\ AtAny(c, {"unwind", "describe", "release"}) => engine # "open"

AssetsType ==
    assets \in [memory : SUBSET Asset, asset : 0..2, phase : {"idle", "ask", "hash"},
                life : {"open", "closing", "closed"}]

LEMMA QuietMoves ==
    ASSUME IInv, NEW c \in Call, NEW n, NEW q, Quiet(c, n, q),
           AssetsType', assets'.life = assets.life,
           \/ assets' = assets /\ ~At(c, "load")
           \/ /\ assets'.phase = "idle" /\ assets'.asset \in 0..1
              /\ assets.life = "closed" => assets'.memory = assets.memory
    PROVE  IInv'
<1>1. Moving(c, n, q) /\ Types /\ Live(c)
  BY DEF IInv, Quiet, Moving
<1>2. /\ \A d \in Call : d # c => call'[d] = call[d]
      /\ call'[c].plan = n /\ call'[c].does = call[c].does /\ call'[c].signer = call[c].signer
  BY <1>1, MovedCalls
<1>3. queue' \in Seq(Entry) /\ QueueOK'
  BY <1>1, MovedQueue DEF IInv
<1>4. /\ slot' \in Call \cup {None} /\ SlotOK'
      /\ attaching' \in Call \cup {None} /\ AttachOK'
      /\ \A d \in Call : d # c /\ slot = d => slot' = d
  BY <1>1, MovedSlot DEF IInv
<1>5. Types'
  <2>1. call' \in [Call -> CallRec] /\ \A d \in Call : PlanOK(call'[d])
    BY <1>1, MovedCalls
  <2>2. engine' = engine /\ UNCHANGED <<binding, closing, tokens, given, bound, finalized>>
    BY DEF Quiet, Moving, signers
  <2> QED
    BY <1>1, <1>3, <1>4, <2>1, <2>2 DEF Types, AssetsType
<1>6. AssetsOK'
  <2>1. CASE assets' = assets /\ ~At(c, "load")
    <3>1. ASSUME assets.phase # "idle"
          PROVE  slot' # None /\ At(slot, "load") /\ slot \in Call /\ slot' = slot /\ slot # c
      BY <1>1, <1>4, <2>1, <3>1, CallAssumption DEF IInv, AssetsOK, Types
    <3>2. assets.phase # "idle" => slot' # None /\ At(slot, "load")'
      BY <1>2, <3>1 DEF At
    <3> QED
      BY <2>1, <3>1, <3>2 DEF IInv, AssetsOK, Quiet, Moving, At
  <2>2. CASE /\ assets'.phase = "idle" /\ assets'.asset \in 0..1
             /\ assets.life = "closed" => assets'.memory = assets.memory
    BY <2>2 DEF IInv, AssetsOK, Quiet, Moving
  <2> QED
    BY <2>1, <2>2
<1>7. Ending'
  <2>1. closing \in {"open", "drain"} /\ engine # "closed"
    BY <1>1 DEF IInv, Ending, Types
  <2> QED
    BY <2>1 DEF Ending, Quiet, Moving
<1>8. Once'
  BY <1>1, MovedOnce DEF IInv, Quiet
<1>9. TokensOK'
  <2> SUFFICES ASSUME engine = "open", NEW d \in tokens \ given
               PROVE  call'[d].does = "create" /\ call'[d].plan \in {<<"describe">>, <<"release">>}
    BY DEF TokensOK, Quiet, Moving, signers
  <2>1. d \in Call /\ call[d].does = "create" /\ call[d].plan \in {<<"describe">>, <<"release">>}
    BY <1>1 DEF IInv, TokensOK, Types
  <2>2. AtAny(d, {"describe", "release"})
    BY <2>1 DEF AtAny
  <2>3. d # c
    BY <2>2 DEF Quiet, AtAny
  <2> QED
    BY <1>2, <2>1, <2>3
<1>10. BindingOK'
  <2>1. binding' = binding
    BY DEF Quiet
  <2> QED
    BY <1>1, <2>1, MovedBinding DEF IInv, Quiet
<1>11. SignersOK'
  <2>1. UNCHANGED <<binding, closing, bound, stray>> /\ engine' = engine
    BY DEF Quiet, Moving, signers
  <2>2. ASSUME engine = "open", NEW d \in Call, At(d, "unwind")
        PROVE  At(d, "unwind")' /\ call'[d].signer = call[d].signer
    BY <1>2, <2>2 DEF Quiet, At, AtAny
  <2> QED
    BY <2>1, <2>2 DEF IInv, SignersOK
<1> QED
  BY <1>3, <1>4, <1>5, <1>6, <1>7, <1>8, <1>9, <1>10, <1>11 DEF IInv


\* Nothing goes on to an unbind but by failing.
LEMMA TailIsNoUnwind ==
    ASSUME Types, NEW c \in Call, Live(c)
    PROVE  Tail(call[c].plan) # <<"unwind">>
<1> DEFINE p == call[c].plan
<1>1. PlanOK(call[c]) /\ p # <<>> /\ Head(<<"unwind">>) = "unwind" /\ <<"unwind">> # <<>>
  BY DEF Types, Live
<1>2. CASE call[c].does = "attach"
  BY <1>1, <1>2, AttachTails DEF PlanOK
<1>3. CASE call[c].does = "create"
  <2>1. p \in CreatePlan
    BY <1>1, <1>3 DEF PlanOK
  <2>2. Tail(p) = <<>> \/ Tail(p) \in CreatePlan
    BY <2>1, CreateTails
  <2>3. <<"unwind">> \notin CreatePlan
    BY DEF CreatePlan
  <2> QED
    BY <1>1, <2>2, <2>3
<1>4. CASE call[c].does \notin {"attach", "create"}
  <2>1. p \in Seq(Plain)
    BY <1>1, <1>4 DEF PlanOK
  <2>2. Tail(p) # <<>> => Head(Tail(p)) \in Plain
    BY <1>1, <2>1
  <2>3. "unwind" \notin Plain
    BY DEF Plain, Replacing, SlotHeld
  <2> QED
    BY <1>1, <2>2, <2>3
<1> QED
  BY <1>2, <1>3, <1>4

LEMMA FailQuiet ==
    ASSUME IInv, NEW c \in Call, Live(c), NEW p \in {call[c].plan, Tail(call[c].plan)},
           NEW q, Kept(q, c), Fails(c, p, q), engine' = engine,
           UNCHANGED <<binding, closing, signers, finalized>>,
           p # call[c].plan /\ call[c].does = "attach" /\ AtAny(c, Replacing) => binding = None,
           AtAny(c, {"unwind", "describe", "release"}) => engine # "open"
    PROVE  Quiet(c, FailPlan(c, p), q)
<1> DEFINE n == FailPlan(c, p)
           t == Tail(call[c].plan)
<1>1. Types /\ Adv(c, n) /\ Moves(c, n, q)
  BY Failing DEF IInv
<1>2. Moving(c, n, q)
  BY <1>1 DEF Moving
<1>3. \/ n = <<>>
      \/ n = <<"unwind">> /\ call[c].does = "attach" /\ p = <<"bind">>
      \/ n = <<"release">> /\ call[c].does = "create"
      \/ n = <<"report">> /\ call[c].does = "send"
  BY <1>1, Failing
<1> HIDE DEF n
<1>4. n = <<"unwind">> => binding = None /\ ~At(c, "account")
  <2> SUFFICES ASSUME n = <<"unwind">> PROVE binding = None /\ ~At(c, "account")
    OBVIOUS
  <2>1. call[c].does = "attach" /\ p = <<"bind">> /\ Head(<<"bind">>) = "bind" /\ <<"bind">> # <<>>
    BY <1>3
  <2>2. CASE p = call[c].plan
    <3>1. AtAny(c, Binding) /\ ~At(c, "account")
      BY <2>1, <2>2 DEF AtAny, At, Binding
    <3> QED
      BY <2>1, <3>1 DEF IInv, BindingOK, AtAny
  <2>3. CASE p = t /\ p # call[c].plan
    <3>1. /\ AtAny(c, Replacing \cup Binding \cup {"ask"})
          /\ At(c, "account") => Head(t) = "ask"
      BY <1>1, <2>1, <2>3, AttachSteps
    <3>2. ~At(c, "account")
      BY <2>1, <2>3, <3>1
    <3>3. binding = None
      BY <2>1, <2>3, <3>1 DEF IInv, BindingOK, AtAny
    <3> QED
      BY <3>2, <3>3
  <2> QED
    BY <2>2, <2>3
<1>5. n # <<>> /\ n = t /\ call[c].does = "attach" => FALSE
  BY <1>1, <1>3, TailIsNoUnwind
<1>6. AtAny(c, Look) /\ n = t => n \in {<<>>, <<"report">>}
  BY <1>1, <1>3, WhoseStep DEF AtAny
<1>7. At(c, "account") => n = <<>>
  <2>1. At(c, "account") => call[c].does = "attach"
    BY <1>1, WhoseStep DEF AtAny, At, Binding
  <2> QED
    BY <1>3, <1>4, <2>1
<1> QED
  BY <1>2, <1>4, <1>5, <1>6, <1>7 DEF Quiet, n

LEMMA GoQuiet ==
    ASSUME IInv, NEW c \in Call, Live(c), NEW q, Kept(q, c), Goes(c, Tail(call[c].plan), q),
           engine' = engine, UNCHANGED <<binding, closing, signers, finalized>>,
           AtAny(c, Look) => finalized = 0,
           call[c].does = "attach" /\ AtAny(c, Replacing) => binding = None,
           At(c, "account") => \A j \in DOMAIN q : q[j].op # "unwind",
           AtAny(c, {"unwind", "describe", "release"}) => engine # "open"
    PROVE  \E n : Quiet(c, n, q)
<1> DEFINE p == Tail(call[c].plan)
           n == GoPlan(c, p)
<1>1. Types /\ Adv(c, n) /\ Moves(c, n, q) /\ (n = p \/ n = FailPlan(c, p))
  BY Going DEF IInv
<1>2. CASE n = FailPlan(c, p)
  <2>1. Fails(c, p, q)
    BY <1>1, <1>2, Failing
  <2> QED
    BY <2>1, FailQuiet
<1>3. CASE n = p
  <2>1. p # <<"unwind">>
    BY <1>1, TailIsNoUnwind
  <2>2. Quiet(c, p, q)
    BY <1>1, <1>3, <2>1 DEF Quiet, Moving
  <2> QED
    BY <2>2
<1> QED
  BY <1>1, <1>2, <1>3


-----------------------------------------------------------------------------
(* The actions of one call *)

LEMMA Kinds ==
    /\ Asking \cap Command = {} /\ "load" \notin Command \cup Asking
    /\ Withdrawable \subseteq Command /\ Asking \cap Look = {}
    /\ (Asking \cup Withdrawable \cup Replacing \cup {"load"})
            \cap {"unwind", "describe", "release"} = {}
    /\ Replacing \cap (Command \cup Asking \cup Look \cup {"load"}) = {}
    /\ "account" \notin Asking \cup Replacing \cup {"load"} /\ "load" \notin Look
BY DEF Asking, Command, Withdrawable, Unsignalled, Look, Replacing

LEMMA InterruptedOK ==
    ASSUME IInv, NEW c \in Call, Interrupted(c)
    PROVE  IInv'
<1>1. /\ UNCHANGED <<binding, assets, closing, engine, signers, finalized, trouble>>
      /\ Types /\ QueueOK
  BY DEF Interrupted, IInv
<1>2. PICK q : /\ AtAny(c, Asking \cup Withdrawable)
               /\ Kept(q, c) /\ Fails(c, call[c].plan, q)
  <2>1. CASE AtAny(c, Raced) /\ Fails(c, call[c].plan, queue)
    <3>1. AtAny(c, Asking) /\ ~AtAny(c, Command)
      BY <2>1, Kinds DEF Raced, AtAny
    <3>2. Kept(queue, c)
      BY <1>1, <3>1, KeptAll
    <3> QED
      BY <2>1, <3>1, <3>2 DEF AtAny
  <2>2. ASSUME AtAny(c, Withdrawable), NEW i \in DOMAIN queue, queue[i].by = c,
               Fails(c, call[c].plan, SubSeq(queue, 1, i - 1) \o SubSeq(queue, i + 1, Len(queue)))
        PROVE  \E q : /\ AtAny(c, Asking \cup Withdrawable)
                      /\ Kept(q, c) /\ Fails(c, call[c].plan, q)
    BY <1>1, <2>2, KeptCut DEF AtAny
  <2> QED
    BY <2>1, <2>2 DEF Interrupted
<1>3. /\ Live(c) /\ ~At(c, "load") /\ ~AtAny(c, {"unwind", "describe", "release"})
  BY <1>2, Kinds DEF AtAny, At, Live
<1>4. Quiet(c, FailPlan(c, call[c].plan), q)
  BY <1>1, <1>2, <1>3, FailQuiet
<1> QED
  BY <1>1, <1>3, <1>4, QuietMoves DEF AssetsType, Types

LEMMA AnsweredOK ==
    ASSUME IInv, NEW c \in Call, Answered(c)
    PROVE  IInv'
<1>1. /\ UNCHANGED <<binding, assets, closing, engine, signers, finalized, trouble>>
      /\ Types /\ QueueOK /\ AtAny(c, Asking) /\ Live(c)
      /\ Goes(c, Tail(call[c].plan), queue) \/ Fails(c, call[c].plan, queue)
  BY DEF Answered, IInv, AtAny, Live
<1>2. /\ ~At(c, "load") /\ ~AtAny(c, {"unwind", "describe", "release"})
      /\ ~AtAny(c, Command \cup Look \cup Replacing) /\ ~At(c, "account")
  BY <1>1, Kinds DEF AtAny, At
<1>3. Kept(queue, c)
  BY <1>1, <1>2, KeptAll DEF AtAny
<1>4. \E n : Quiet(c, n, queue)
  <2>1. CASE Goes(c, Tail(call[c].plan), queue)
    BY <1>1, <1>2, <1>3, <2>1, GoQuiet DEF AtAny
  <2>2. CASE Fails(c, call[c].plan, queue)
    BY <1>1, <1>2, <1>3, <2>2, FailQuiet
  <2> QED
    BY <1>1, <2>1, <2>2
<1> QED
  BY <1>1, <1>2, <1>4, QuietMoves DEF AssetsType, Types

LEMMA RejectedOK ==
    ASSUME IInv, NEW c \in Call, Rejected(c)
    PROVE  IInv'
<1>1. /\ UNCHANGED <<binding, assets, closing, engine, signers, finalized, trouble>>
      /\ Types /\ QueueOK /\ AtAny(c, Command) /\ Live(c) /\ engine # "open"
      /\ Fails(c, call[c].plan, queue)
  BY DEF Rejected, IInv, AtAny, Live
<1>2. ~At(c, "load")
  BY <1>1, Kinds DEF AtAny, At
<1>3. engine = "crashed"
  BY <1>1 DEF IInv, Types, Ending
<1>4. Kept(queue, c)
  BY <1>1, <1>3, KeptAll
<1>5. Quiet(c, FailPlan(c, call[c].plan), queue)
  BY <1>1, <1>4, FailQuiet
<1> QED
  BY <1>1, <1>2, <1>5, QuietMoves DEF AssetsType, Types

LEMMA ReplacedOK ==
    ASSUME IInv, NEW c \in Call,
           \/ Replaced(c)
           \/ /\ At(c, "replace") /\ binding = None /\ Goes(c, Tail(call[c].plan), queue)
              /\ UNCHANGED <<binding, assets, closing, engine, signers, finalized>>
    PROVE  IInv'
<1>1. /\ UNCHANGED <<binding, assets, closing, engine, signers, finalized>>
      /\ Types /\ QueueOK /\ AtAny(c, Replacing) /\ Live(c)
      /\ \/ /\ Goes(c, Tail(call[c].plan), queue)
            /\ call[c].does = "attach" => binding = None
         \/ Fails(c, call[c].plan, queue)
  <2>1. At(c, "replaced") /\ call[c].does = "attach" => binding = None
    BY DEF IInv, BindingOK, AtAny, At
  <2> QED
    BY <2>1 DEF Replaced, IInv, AtAny, At, Live, Replacing
<1>2. /\ ~At(c, "load") /\ ~AtAny(c, {"unwind", "describe", "release"})
      /\ ~AtAny(c, Command) /\ ~AtAny(c, Look) /\ ~At(c, "account")
  BY <1>1, Kinds DEF AtAny, At
<1>3. Kept(queue, c)
  BY <1>1, <1>2, KeptAll
<1>4. \E n : Quiet(c, n, queue)
  <2>1. CASE /\ Goes(c, Tail(call[c].plan), queue)
             /\ call[c].does = "attach" => binding = None
    BY <1>1, <1>2, <1>3, <2>1, GoQuiet
  <2>2. CASE Fails(c, call[c].plan, queue)
    BY <1>1, <1>2, <1>3, <2>2, FailQuiet
  <2> QED
    BY <1>1, <2>1, <2>2
<1> QED
  BY <1>1, <1>2, <1>4, QuietMoves DEF AssetsType, Types

LEMMA AssetsFields ==
    ASSUME AssetsType, NEW m \in SUBSET Asset, NEW a \in 0..2, NEW p \in {"idle", "ask", "hash"}
    PROVE  LET e == [assets EXCEPT !.memory = m, !.asset = a, !.phase = p]
           IN  /\ e.life = assets.life /\ e.memory = m /\ e.asset = a /\ e.phase = p
               /\ e \in [memory : SUBSET Asset, asset : 0..2, phase : {"idle", "ask", "hash"},
                          life : {"open", "closing", "closed"}]
BY DEF AssetsType

\* The load goes on within the call, or ends with it.
LEMMA LoadsOK ==
    ASSUME IInv, NEW c \in Call, Load(c) \/ Loaded(c) \/ LoadStopped(c) \/ Hashed(c)
    PROVE  IInv'
<1>1. /\ UNCHANGED <<binding, closing, engine, signers, finalized, trouble>>
      /\ Types /\ QueueOK /\ SlotOK /\ At(c, "load") /\ Live(c) /\ assets \in
            [memory : SUBSET Asset, asset : 0..2, phase : {"idle", "ask", "hash"},
             life : {"open", "closing", "closed"}]
  BY DEF Load, Loaded, LoadStopped, Hashed, IInv, At, Live, Types
<1>2. /\ ~AtAny(c, {"unwind", "describe", "release"}) /\ ~AtAny(c, Command) /\ ~AtAny(c, Look)
      /\ ~AtAny(c, Replacing) /\ ~At(c, "account")
  BY <1>1, Kinds DEF AtAny, At
<1>3. Kept(queue, c) /\ slot = c /\ slot # None
  BY <1>1, <1>2, KeptAll, CallAssumption DEF SlotOK, AtAny, At, SlotHeld
<1>4. /\ assets.phase = "idle" => assets.asset \in 0..1
      /\ assets.phase # "idle" => assets.asset \in Asset
      /\ assets.memory \in SUBSET Asset /\ AssetsType
      /\ Asset = {1, 2}
  BY <1>1 DEF IInv, AssetsOK, AssetsType, Asset
<1>5. CASE LoadFails(c)
  <2>1. Quiet(c, FailPlan(c, call[c].plan), queue)
    BY <1>1, <1>2, <1>3, <1>5, FailQuiet DEF LoadFails
  <2>2. AssetsType' /\ assets'.life = assets.life /\ assets'.memory = assets.memory
        /\ assets'.phase = "idle" /\ assets'.asset \in 0..1
    <3>1. assets' = [assets EXCEPT !.memory = assets.memory, !.asset = 0, !.phase = "idle"]
      BY <1>1, <1>5 DEF LoadFails
    <3>2. 0 \in 0..2 /\ 0 \in 0..1 /\ assets.memory \in SUBSET Asset /\ AssetsType
      BY <1>4
    <3> QED
      BY <3>1, <3>2, AssetsFields DEF AssetsType
  <2> QED
    BY <2>1, <2>2, QuietMoves
<1>6. CASE /\ assets' = [assets EXCEPT !.memory = @ \cup {assets.asset}, !.asset = 0,
                                        !.phase = "idle"]
           /\ assets.asset \in Asset /\ assets.life = "open"
           /\ Goes(c, Tail(call[c].plan), queue)
  <2>1. PICK n : Quiet(c, n, queue)
    BY <1>1, <1>2, <1>3, <1>6, GoQuiet
  <2>2. AssetsType' /\ assets'.life = assets.life
        /\ assets'.phase = "idle" /\ assets'.asset \in 0..1
    <3>1. assets' = [assets EXCEPT !.memory = assets.memory \cup {assets.asset},
                                   !.asset = 0, !.phase = "idle"]
      BY <1>6
    <3>2. assets.memory \cup {assets.asset} \in SUBSET Asset
      BY <1>1, <1>6
    <3>3. 0 \in 0..2 /\ 0 \in 0..1
      OBVIOUS
    <3> QED
      BY <1>4, <3>1, <3>2, <3>3, AssetsFields DEF AssetsType
  <2> QED
    BY <1>6, <2>1, <2>2, QuietMoves
<1>7. CASE /\ UNCHANGED <<call, queue, slot, attaching>>
           /\ AssetsType' /\ AssetsOK'
  BY <1>1, <1>7 DEF IInv, Types, AssetsType, QueueOK, SlotOK, AttachOK, Attaches, Ending, Once,
     Committed, TokensOK, BindingOK, Asks, SignersOK, At, AtAny, Live, signers
<1>8. ASSUME UNCHANGED <<call, queue, slot, attaching>>,
             NEW m \in SUBSET Asset, NEW a \in 0..2, NEW p \in {"idle", "ask", "hash"},
             assets' = [assets EXCEPT !.memory = m, !.asset = a, !.phase = p],
             IF p = "idle" THEN a \in 0..1 ELSE a \in Asset,
             assets.life # "closed" \/ m = assets.memory
      PROVE  IInv'
  <2>1. /\ AssetsType' /\ assets'.life = assets.life /\ assets'.memory = m
        /\ assets'.asset = a /\ assets'.phase = p
    BY <1>4, <1>8, AssetsFields DEF AssetsType
  <2>2. At(slot, "load")' /\ slot' # None
    BY <1>1, <1>3, <1>8 DEF At
  <2>3. AssetsOK'
    BY <1>1, <1>8, <2>1, <2>2 DEF IInv, AssetsOK
  <2> QED
    BY <1>7, <1>8, <2>1, <2>3
<1>9. CASE Load(c) /\ ~LoadFails(c)
  <2>1. /\ assets.phase = "idle" /\ UNCHANGED <<call, queue, slot, attaching>>
        /\ assets' = [assets EXCEPT !.asset = @ + 1,
                        !.phase = IF assets.asset + 1 \in assets.memory THEN "hash" ELSE "ask"]
    BY <1>9 DEF Load
  <2> DEFINE p == IF assets.asset + 1 \in assets.memory THEN "hash" ELSE "ask"
  <2>2. /\ assets' = [assets EXCEPT !.memory = assets.memory, !.asset = assets.asset + 1,
                                     !.phase = p]
        /\ assets.asset + 1 \in 0..2 /\ assets.asset + 1 \in Asset
        /\ p \in {"idle", "ask", "hash"} /\ p # "idle"
    <3>1. assets.asset \in 0..1 /\ assets.asset + 1 \in 0..2 /\ assets.asset + 1 \in Asset
      BY <1>4, <2>1
    <3>2. p \in {"idle", "ask", "hash"} /\ p # "idle"
      OBVIOUS
    <3>3. assets' = [assets EXCEPT !.memory = assets.memory, !.asset = assets.asset + 1,
                                     !.phase = p]
      BY <1>1, <2>1
    <3> QED
      BY <3>1, <3>2, <3>3
  <2> HIDE DEF p
  <2> QED
    BY <1>4, <1>8, <2>1, <2>2, ZenonT(30)
<1>10. CASE Loaded(c) /\ ~LoadFails(c)
  <2>1. /\ assets.phase = "ask" /\ UNCHANGED <<call, queue, slot, attaching>>
        /\ assets' = [assets EXCEPT !.phase = "hash"]
    BY <1>10 DEF Loaded
  <2>2. /\ assets' = [assets EXCEPT !.memory = assets.memory, !.asset = assets.asset,
                                     !.phase = "hash"]
        /\ assets.asset \in 0..2 /\ assets.asset \in Asset
    BY <1>1, <1>4, <2>1
  <2> QED
    BY <1>4, <1>8, <2>1, <2>2
<1>11. CASE Hashed(c) /\ ~LoadFails(c)
  <2> DEFINE m == assets.memory \cup {assets.asset}
  <2>1. /\ assets.phase = "hash" /\ assets.life = "open"
        /\ assets' = [assets EXCEPT !.memory = @ \cup {assets.asset},
                        !.asset = IF @ + 1 \in Asset THEN @ ELSE 0, !.phase = "idle"]
        /\ IF assets.asset + 1 \in Asset THEN UNCHANGED <<call, queue, slot, attaching>>
           ELSE Goes(c, Tail(call[c].plan), queue)
    BY <1>11 DEF Hashed, Stopped
  <2>2. assets.asset \in Asset /\ m \in SUBSET Asset
    BY <1>4, <2>1
  <2>3. CASE assets.asset + 1 \in Asset
    <3>1. /\ assets' = [assets EXCEPT !.memory = m, !.asset = assets.asset, !.phase = "idle"]
          /\ assets.asset \in 0..2 /\ assets.asset \in 0..1
      BY <1>1, <1>4, <2>1, <2>2, <2>3
    <3> HIDE DEF m
    <3> QED
      BY <1>8, <2>1, <2>2, <2>3, <3>1
  <2>4. CASE assets.asset + 1 \notin Asset
    <3>1. assets' = [assets EXCEPT !.memory = @ \cup {assets.asset}, !.asset = 0, !.phase = "idle"]
      BY <1>1, <2>1, <2>4
    <3> QED
      BY <1>6, <2>1, <2>2, <2>4, <3>1
  <2> QED
    BY <2>3, <2>4
<1> QED
  BY <1>5, <1>9, <1>10, <1>11 DEF LoadStopped


-----------------------------------------------------------------------------
(* Steps that change no plan, or only how a disposal is awaited *)

Alike(d) ==
    /\ call'[d].does = call[d].does /\ call'[d].signer = call[d].signer
    /\ \/ call'[d].plan = call[d].plan
       \/ /\ AtAny(d, Replacing)
          /\ \E r \in Replacing : call'[d].plan = [call[d].plan EXCEPT ![1] = r]

LEMMA Relabelled ==
    ASSUME NEW k \in CallRec, PlanOK(k), k.plan # <<>>, Head(k.plan) \in Replacing,
           NEW r \in Replacing
    PROVE  LET p == [k.plan EXCEPT ![1] = r]
           IN  /\ p \in Seq(StepName) /\ p # <<>> /\ Head(p) = r
               /\ DOMAIN p = DOMAIN k.plan /\ \A i \in DOMAIN p : i # 1 => p[i] = k.plan[i]
               /\ k.plan[1] = Head(k.plan) /\ p[1] = r /\ 1 \in DOMAIN p
               /\ \A j : j.plan = p /\ j.does = k.does /\ j.signer = k.signer => PlanOK(j)
               /\ k.does # "create" /\ Tail(p) = Tail(k.plan)
<1> DEFINE o == k.plan
           p == [o EXCEPT ![1] = r]
<1>1. /\ o \in Seq(StepName) /\ o # <<>> /\ Len(o) \in Nat \ {0} /\ o[1] = Head(o) /\ 1 \in DOMAIN o
      /\ DOMAIN o = 1..Len(o)
  BY DEF CallRec
<1>2. r \in Plain /\ r \in StepName
  BY DEF StepName, Plain
<1>3. p \in Seq(StepName) /\ Len(p) = Len(o) /\ DOMAIN p = DOMAIN o
  BY <1>1, <1>2
<1>4. p[1] = r /\ \A i \in DOMAIN p : i # 1 => p[i] = o[i]
  BY <1>1, <1>3
<1>5. p # <<>> /\ Head(p) = r
  BY <1>1, <1>3, <1>4
<1>6. Tail(p) = Tail(o)
  BY <1>1, <1>3, <1>4
<1>7. k.does # "create"
  <2>1. ASSUME k.does = "create" PROVE FALSE
    <3>1. k.plan \in CreatePlan
      BY <2>1 DEF PlanOK
    <3>2. /\ Head(<<"issue", "describe">>) = "issue" /\ Head(<<"describe">>) = "describe"
          /\ Head(<<"release">>) = "release"
      OBVIOUS
    <3> QED
      BY <3>1, <3>2 DEF CreatePlan, Replacing
  <2> QED
    BY <2>1
<1>8. ASSUME k.does = "attach" PROVE k.signer \in Signer /\ p \in AttachPlan(k.signer)
  <2>1. o \in AttachPlan(k.signer) /\ k.signer \in Signer
    BY <1>8 DEF PlanOK
  <2>2. /\ Head(<<"bind">>) = "bind" /\ Head(<<"unwind">>) = "unwind"
        /\ Head(<<"account", "ask", "check">>) = "account" /\ Head(<<"ask", "check">>) = "ask"
        /\ Head(<<"check">>) = "check"
    OBVIOUS
  <2>3. CASE k.signer \in Memory
    <3>1. PICK u \in Replacing : o = <<u, "bind">>
      BY <2>1, <2>2, <2>3 DEF AttachPlan, Replacing
    <3>2. p = <<r, "bind">>
      BY <3>1
    <3> QED
      BY <2>1, <2>3, <3>2 DEF AttachPlan
  <2>4. CASE k.signer \notin Memory
    <3>1. PICK u \in Replacing : o = <<u, "account", "ask", "check">>
      BY <2>1, <2>2, <2>4 DEF AttachPlan, Replacing
    <3>2. p = <<r, "account", "ask", "check">>
      BY <3>1
    <3> QED
      BY <2>1, <2>4, <3>2 DEF AttachPlan
  <2> QED
    BY <2>3, <2>4
<1>9. ASSUME k.does \notin {"attach", "create"}
      PROVE  k.does # "nothing" /\ p \in Seq(Plain) /\ Looks(p) /\ Last(p)
  <2>1. k.does # "nothing" /\ o \in Seq(Plain) /\ Looks(o) /\ Last(o)
    BY <1>9 DEF PlanOK
  <2>2. p \in Seq(Plain)
    BY <1>2, <2>1
  <2>3. /\ o[1] \notin SlotHeld /\ r \notin SlotHeld
        /\ o[1] \notin Final /\ r \notin Final /\ o[1] \notin Look /\ r \notin Look
    BY <1>1 DEF Replacing, SlotHeld, Final, Look
  <2> HIDE DEF p, o
  <2>4. \A i \in DOMAIN p : /\ p[i] \in SlotHeld <=> o[i] \in SlotHeld
                            /\ p[i] \in Final <=> o[i] \in Final
                            /\ p[i] \in Look <=> o[i] \in Look
    BY <1>4, <2>3
  <2>5. Looks(p)
    BY <1>3, <2>1, <2>4 DEF Looks
  <2>6. Last(p)
    BY <1>3, <2>1, <2>4 DEF Last
  <2> QED
    BY <2>1, <2>2, <2>5, <2>6
<1>10. \A j : j.plan = p /\ j.does = k.does /\ j.signer = k.signer => PlanOK(j)
  BY <1>7, <1>8, <1>9 DEF PlanOK
<1> QED
  BY <1>1, <1>3, <1>4, <1>5, <1>6, <1>7, <1>10

LEMMA AlikeFacts ==
    ASSUME Types, NEW d \in Call, Alike(d), call'[d].cut \in BOOLEAN
    PROVE  /\ PlanOK(call'[d]) /\ call'[d].plan \in Seq(StepName)
           /\ Live(d)' <=> Live(d)
           /\ \A s : s \notin Replacing => (At(d, s)' <=> At(d, s))
           /\ AtAny(d, Replacing)' <=> AtAny(d, Replacing)
           /\ Committed(d)' <=> Committed(d)
           /\ call[d].does = "create" => call'[d].plan = call[d].plan
<1>1. call[d] \in CallRec /\ PlanOK(call[d])
  BY DEF Types
<1>2. CASE call'[d].plan = call[d].plan
  BY <1>1, <1>2 DEF Alike, PlanOK, Live, At, AtAny, Committed, CallRec
<1>3. CASE call'[d].plan # call[d].plan
  <2>1. PICK r \in Replacing : call'[d].plan = [call[d].plan EXCEPT ![1] = r]
    BY <1>3 DEF Alike
  <2>2. call[d].plan # <<>> /\ Head(call[d].plan) \in Replacing
    BY <1>3 DEF Alike, AtAny
  <2> DEFINE p == call'[d].plan
             o == call[d].plan
  <2>3. /\ p \in Seq(StepName) /\ p # <<>> /\ Head(p) = r
        /\ DOMAIN p = DOMAIN o /\ \A i \in DOMAIN p : i # 1 => p[i] = o[i]
        /\ o[1] = Head(o) /\ p[1] = r
        /\ call[d].does # "create"
    BY <1>1, <2>1, <2>2, Relabelled
  <2>4. PlanOK(call'[d])
    BY <1>1, <2>1, <2>2, Relabelled DEF Alike
  <2>5. Committed(d)' <=> Committed(d)
    <3>1. /\ o[1] \notin Final /\ p[1] \notin Final /\ o[1] \notin Look /\ p[1] \notin Look
      BY <2>2, <2>3 DEF Replacing, Final, Look
    <3> QED
      BY <2>3, <3>1 DEF Committed
  <2> QED
    BY <2>2, <2>3, <2>4, <2>5 DEF Live, At, AtAny
<1> QED
  BY <1>2, <1>3


\* call' is a record as before, of the same plans.
AllAlike ==
    /\ \A d \in Call : Alike(d)
    /\ call' \in [Call -> [does : Method, signer : Signer \cup {None}, plan : Seq(StepName),
                            cut : BOOLEAN]]

LEMMA AllAlikeFacts ==
    ASSUME Types, AllAlike, UNCHANGED <<slot, attaching>>
    PROVE  /\ call' \in [Call -> CallRec] /\ \A d \in Call : PlanOK(call'[d])
           /\ SlotOK => SlotOK'
           /\ AttachOK => AttachOK'
           /\ finalized' = finalized /\ Once => Once'
           /\ TokensOK /\ engine' = engine /\ UNCHANGED <<tokens, given>> => TokensOK'
           /\ AssetsOK /\ engine' = engine /\ assets' = assets => AssetsOK'
           /\ (\A d \in Call : ~Live(d)) => \A d \in Call : ~Live(d)'
<1>1. ASSUME NEW d \in Call
      PROVE  /\ PlanOK(call'[d])
             /\ Live(d)' <=> Live(d)
             /\ \A s : s \notin Replacing => (At(d, s)' <=> At(d, s))
             /\ Committed(d)' <=> Committed(d)
             /\ call[d].does = "create" => call'[d].plan = call[d].plan
             /\ call'[d].does = call[d].does
             /\ AtAny(d, SlotHeld)' <=> AtAny(d, SlotHeld)
             /\ Attaches(d)' <=> Attaches(d)
  <2>1. Alike(d) /\ call'[d].cut \in BOOLEAN
    BY DEF AllAlike
  <2>2. /\ PlanOK(call'[d]) /\ (Live(d)' <=> Live(d))
        /\ \A s : s \notin Replacing => (At(d, s)' <=> At(d, s))
        /\ Committed(d)' <=> Committed(d)
        /\ call[d].does = "create" => call'[d].plan = call[d].plan
    BY <2>1, AlikeFacts
  <2>3. SlotHeld \cap Replacing = {} /\ "unwind" \notin Replacing
    BY DEF SlotHeld, Replacing
  <2>4. AtAny(d, SlotHeld)' <=> AtAny(d, SlotHeld)
    BY <2>2, <2>3 DEF AtAny, At
  <2>5. Attaches(d)' <=> Attaches(d)
    BY <2>1, <2>2, <2>3 DEF Attaches, Alike
  <2> QED
    BY <2>1, <2>2, <2>4, <2>5 DEF Alike
<1>2. SlotOK => SlotOK'
  BY <1>1 DEF SlotOK, Types
<1>3. AttachOK => AttachOK'
  BY <1>1 DEF AttachOK, Types
<1>4. finalized' = finalized /\ Once => Once'
  BY <1>1 DEF Once
<1>5. TokensOK /\ engine' = engine /\ UNCHANGED <<tokens, given>> => TokensOK'
  BY <1>1 DEF TokensOK, Types
<1>6. AssetsOK /\ engine' = engine /\ assets' = assets => AssetsOK'
  <2>1. "load" \notin Replacing
    BY DEF Replacing
  <2>2. \A d \in Call : At(d, "load")' <=> At(d, "load")
    BY <1>1, <2>1
  <2> QED
    BY <2>2 DEF AssetsOK, Types
<1>7. call' \in [Call -> CallRec] /\ \A d \in Call : PlanOK(call'[d])
  BY <1>1 DEF AllAlike, CallRec
<1>8. (\A d \in Call : ~Live(d)) => \A d \in Call : ~Live(d)'
  BY <1>1
<1> QED
  BY <1>2, <1>3, <1>4, <1>5, <1>6, <1>7, <1>8

\* What is at the queue belongs to the calls as before.
LEMMA AlikeQueue ==
    ASSUME Types, AllAlike, QueueOK, engine' = engine, queue' = queue
    PROVE  QueueOK'
<1>1. ASSUME NEW i \in DOMAIN queue, queue[i].by # None
      PROVE  queue[i].op \in Command /\ call'[queue[i].by].plan # <<>>
             /\ Head(call'[queue[i].by].plan) = queue[i].op
  <2>1. queue[i].by \in Call
    <3>1. queue[i] \in Entry
      BY DEF Types
    <3> QED
      BY <1>1, <3>1 DEF Entry
  <2>2. queue[i].op \in Command /\ At(queue[i].by, queue[i].op)
    BY <1>1 DEF QueueOK
  <2>3. queue[i].op \notin Replacing
    BY <2>2, Kinds
  <2>4. Alike(queue[i].by) /\ call'[queue[i].by].cut \in BOOLEAN
    BY <2>1 DEF AllAlike
  <2> DEFINE d == queue[i].by
  <2>5. At(d, queue[i].op) <=> (call'[d].plan # <<>> /\ Head(call'[d].plan) = queue[i].op)
    <3>1. \A s : s \notin Replacing => (At(d, s)' <=> At(d, s))
      BY <2>1, <2>4, AlikeFacts
    <3> QED
      BY <2>3, <3>1 DEF At
  <2> QED
    BY <2>2, <2>5
<1> QED
  BY <1>1 DEF QueueOK, At

\* The parts about the binding, when the queue is as before.
LEMMA AlikeBinding ==
    ASSUME Types, AllAlike, BindingOK, engine' = engine, queue' = queue, binding' = binding,
           \A d \in Call : call[d].does = "attach" /\ At(d, "replaced")' => binding = None
    PROVE  BindingOK'
<1>1. ASSUME NEW d \in Call
      PROVE  /\ call'[d].does = call[d].does
             /\ AtAny(d, Binding \cup {"ask"})' <=> AtAny(d, Binding \cup {"ask"})
             /\ Asks(d)' <=> Asks(d)
  <2>1. Alike(d) /\ call'[d].cut \in BOOLEAN
    BY DEF AllAlike
  <2>2. \A s : s \notin Replacing => (At(d, s)' <=> At(d, s))
    BY <2>1, AlikeFacts
  <2>3. (Binding \cup {"ask"}) \cap Replacing = {}
    BY DEF Binding, Replacing
  <2> QED
    BY <2>1, <2>2, <2>3 DEF Alike, AtAny, At, Asks
<1>2. ASSUME NEW d \in Call, call'[d].does = "attach", AtAny(d, Binding \cup {"ask", "replaced"})'
      PROVE  binding = None
  BY <1>1, <1>2 DEF BindingOK, AtAny, At
<1>3. (\E c \in Call : Asks(c)') <=> \E c \in Call : Asks(c)
  BY <1>1
<1> QED
  BY <1>2, <1>3 DEF BindingOK

LEMMA AlikeSigners ==
    ASSUME Types, AllAlike, SignersOK, engine' = engine, UNCHANGED <<binding, bound, stray>>,
           closing' \in {"open", "drain", "unbind"} => closing \in {"open", "drain", "unbind"}
    PROVE  SignersOK'
<1>1. ASSUME NEW d \in Call
      PROVE  call'[d].signer = call[d].signer /\ (At(d, "unwind")' <=> At(d, "unwind"))
  <2>1. Alike(d) /\ call'[d].cut \in BOOLEAN
    BY DEF AllAlike
  <2>2. "unwind" \notin Replacing
    BY DEF Replacing
  <2> QED
    BY <2>1, <2>2, AlikeFacts DEF Alike
<1> QED
  BY <1>1 DEF SignersOK


-----------------------------------------------------------------------------
(* The binding *)

\* The disposal of the binding: it is gone, or the engine is asked to unbind it.
LEMMA DisposingQueue ==
    ASSUME IInv, Disposing, AllAlike, engine' = engine
    PROVE  /\ queue' \in Seq(Entry) /\ binding' \in BindingRec \cup {None} /\ QueueOK'
           /\ \A i \in DOMAIN queue' :
                 \/ i \in DOMAIN queue /\ queue'[i] = queue[i]
                 \/ /\ queue'[i].op = "unbind" /\ engine = "open"
                    /\ binding' # None /\ binding'.unbind = "asked"
           /\ \A i, j \in DOMAIN queue' :
                 /\ queue'[i].op = "unbind" /\ queue'[j].op = "unbind" /\ engine = "open" => i = j
                 /\ queue'[i].op = "unbind" /\ engine = "open" =>
                       binding' # None /\ binding'.unbind = "asked"
           /\ \/ binding' = None /\ (binding.signer \notin Memory \/ engine # "open")
              \/ binding' # None /\ binding'.signer = binding.signer
<1>1. /\ Types /\ QueueOK /\ BindingOK /\ binding \in BindingRec /\ binding # None
      /\ binding.unbind = "no" /\ queue \in Seq(Entry) /\ Len(queue) \in Nat
      /\ DOMAIN queue = 1..Len(queue)
  BY DEF Disposing, IInv, Types
<1>2. engine = "open" => \A i \in DOMAIN queue : queue[i].op # "unbind"
  BY <1>1 DEF BindingOK
<1>3. CASE binding' = None /\ queue' = queue /\ (binding.signer \notin Memory \/ engine # "open")
  <2>1. QueueOK'
    BY <1>1, <1>3, AlikeQueue
  <2> QED
    BY <1>1, <1>2, <1>3, <2>1
<1>4. CASE /\ engine = "open"
           /\ binding' = [binding EXCEPT !.unbind = "asked"]
           /\ queue' = Append(queue, [by |-> None, op |-> "unbind"])
  <2> DEFINE e == [by |-> None, op |-> "unbind"]
             m == Len(queue) + 1
  <2>1. e \in Entry /\ e.by = None /\ e.op = "unbind"
    BY DEF Entry
  <2>2. /\ binding' \in BindingRec /\ binding'.unbind = "asked" /\ binding'.signer = binding.signer
        /\ binding' # None
    BY <1>1, <1>4, NoneAssumption DEF BindingRec
  <2> HIDE DEF e
  <2>3. /\ queue' \in Seq(Entry) /\ DOMAIN queue' = 1..m
    BY <1>1, <1>4, <2>1 DEF e
  <2>4. /\ queue'[m] = e
        /\ \A i \in 1..m : i # m => i \in DOMAIN queue /\ queue'[i] = queue[i]
    BY <1>1, <1>4, <2>1 DEF e
  <2> HIDE DEF m
  <2>5. ASSUME NEW i \in DOMAIN queue, queue[i].by # None
        PROVE  queue[i].op \in Command /\ call'[queue[i].by].plan # <<>>
               /\ Head(call'[queue[i].by].plan) = queue[i].op
    <3>1. queue[i].by \in Call
      <4>1. queue[i] \in Entry
        BY <1>1
      <4> QED
        BY <2>5, <4>1 DEF Entry
    <3>2. queue[i].op \in Command /\ At(queue[i].by, queue[i].op)
      BY <1>1, <2>5 DEF QueueOK
    <3> PICK d \in Call : d = queue[i].by
      BY <3>1
    <3>3. Alike(d) /\ call'[d].cut \in BOOLEAN
      BY DEF AllAlike
    <3>4. \A s : s \notin Replacing => (At(d, s)' <=> At(d, s))
      BY <1>1, <3>3, AlikeFacts
    <3>5. queue[i].op \notin Replacing
      BY <3>2, Kinds
    <3> QED
      BY <3>2, <3>4, <3>5 DEF At
  <2>6. ASSUME NEW i \in DOMAIN queue'
        PROVE  IF queue'[i].by = None THEN queue'[i].op \in {"unbind", "close"}
               ELSE /\ queue'[i].op \in Command /\ call'[queue'[i].by].plan # <<>>
                    /\ Head(call'[queue'[i].by].plan) = queue'[i].op
    <3>1. CASE i = m
      BY <2>1, <2>4, <3>1
    <3>2. CASE i # m
      <4>1. i \in DOMAIN queue /\ queue'[i] = queue[i]
        BY <2>3, <2>4, <3>2
      <4>2. queue[i].by = None => queue[i].op \in {"unbind", "close"}
        BY <1>1, <4>1 DEF QueueOK
      <4> QED
        BY <2>5, <4>1, <4>2
    <3> QED
      BY <3>1, <3>2
  <2>7. \A i, j \in DOMAIN queue' :
          queue'[i].by # None /\ queue'[i].by = queue'[j].by => i = j
    <3>1. \A i, j \in DOMAIN queue : queue[i].by # None /\ queue[i].by = queue[j].by => i = j
      BY <1>1 DEF QueueOK
    <3> QED
      BY <2>1, <2>3, <2>4, <3>1
  <2>8. QueueOK'
    BY <1>4, <2>6, <2>7 DEF QueueOK, At
  <2>9. \A i \in DOMAIN queue' :
           \/ i \in DOMAIN queue /\ queue'[i] = queue[i]
           \/ queue'[i].op = "unbind" /\ i = m
    BY <2>1, <2>3, <2>4
  <2> QED
    BY <1>2, <1>4, <2>2, <2>3, <2>8, <2>9
<1> QED
  BY <1>1, <1>3, <1>4 DEF Disposing

LEMMA DisposingBinding ==
    ASSUME IInv, Disposing, AllAlike, engine' = engine, UNCHANGED <<bound, stray>>,
           \A d \in Call : call[d].does = "attach" /\ At(d, "replaced")' => binding' = None,
           closing' \in {"open", "drain", "unbind"} => closing \in {"open", "drain", "unbind"}
    PROVE  BindingOK' /\ SignersOK'
<1>1. Types /\ BindingOK /\ SignersOK /\ binding # None
  BY DEF IInv, Disposing
<1>2. ASSUME NEW d \in Call
      PROVE  /\ call'[d].does = call[d].does /\ call'[d].signer = call[d].signer
             /\ AtAny(d, Binding \cup {"ask"})' <=> AtAny(d, Binding \cup {"ask"})
             /\ Asks(d)' <=> Asks(d)
             /\ At(d, "unwind")' <=> At(d, "unwind")
  <2>1. Alike(d) /\ call'[d].cut \in BOOLEAN
    BY DEF AllAlike
  <2>2. \A s : s \notin Replacing => (At(d, s)' <=> At(d, s))
    BY <1>1, <2>1, AlikeFacts
  <2>3. (Binding \cup {"ask", "unwind"}) \cap Replacing = {}
    BY DEF Binding, Replacing
  <2> QED
    BY <2>1, <2>2, <2>3 DEF Alike, AtAny, At, Asks
<1>3. ASSUME NEW d \in Call, call'[d].does = "attach", AtAny(d, Binding \cup {"ask", "replaced"})'
      PROVE  binding' = None
  <2>1. ~AtAny(d, Binding \cup {"ask"})
    BY <1>1, <1>2, <1>3 DEF BindingOK, AtAny
  <2> QED
    BY <1>2, <1>3, <2>1 DEF AtAny, At
<1>4. \A i \in DOMAIN queue' :
         \/ i \in DOMAIN queue /\ queue'[i] = queue[i]
         \/ queue'[i].op = "unbind"
  BY DisposingQueue
<1>5. "unbind" \notin Binding
  BY DEF Binding
<1>6. \A j \in DOMAIN queue' : queue'[j].op # "unwind"
  BY <1>1, <1>4 DEF BindingOK
<1>7. engine' = "open" =>
        \A i, j \in DOMAIN queue' :
            queue'[i].op = "unbind" =>
                /\ binding' # None /\ binding'.unbind = "asked"
                /\ queue'[j].op = "unbind" => i = j
  BY DisposingQueue
<1>8. BindingOK'
  BY <1>3, <1>6, <1>7 DEF BindingOK
<1>9. SignersOK'
  <2> SUFFICES ASSUME engine = "open"
               PROVE  /\ closing' \in {"open", "drain", "unbind"} =>
                          \A s \in bound :
                             \/ binding' # None /\ binding'.signer = s
                             \/ s \in stray
                             \/ \E c \in Call : call'[c].signer = s /\ At(c, "unwind")'
                      /\ binding' # None /\ binding'.signer \in Memory => binding'.signer \in bound
    BY DEF SignersOK
  <2>1. \/ binding' = None /\ binding.signer \notin Memory
        \/ binding' # None /\ binding'.signer = binding.signer
    BY DisposingQueue
  <2>2. bound \subseteq Memory
    BY <1>1 DEF Types
  <2> QED
    BY <1>1, <1>2, <2>1, <2>2 DEF SignersOK
<1> QED
  BY <1>8, <1>9


\* A call that awaits the disposal, or finds it refused.
LEMMA ReplaceOK ==
    ASSUME IInv, NEW c \in Call, Replace(c), binding # None
    PROVE  IInv'
<1>1. /\ Types /\ At(c, "replace") /\ Live(c) /\ AtAny(c, Replacing)
      /\ Disposing \/ UNCHANGED <<binding, queue>>
      /\ UNCHANGED <<attaching, slot, assets, closing, engine, signers, finalized>>
  BY DEF Replace, IInv, At, Live, AtAny, Replacing
<1> DEFINE r == IF binding.unbind = "failed" THEN "refused"
                ELSE IF binding' = None THEN "replaced" ELSE "waiting"
           p == [call[c].plan EXCEPT ![1] = r]
<1>2. call' = [call EXCEPT ![c].plan[1] = r]
  BY DEF Replace
<1>3. /\ call[c] \in CallRec /\ PlanOK(call[c])
      /\ call[c].plan # <<>> /\ Head(call[c].plan) \in Replacing
  BY <1>1 DEF Types, Live, AtAny
<1>4. r \in Replacing /\ (r = "replaced" => binding' = None)
  BY DEF Replacing
<1> HIDE DEF r
<1>5. p \in Seq(StepName) /\ Head(p) = r
  BY <1>3, <1>4, Relabelled
<1>6. call' = [call EXCEPT ![c] = [call[c] EXCEPT !.plan = p]]
  BY <1>1, <1>2, <1>3 DEF Types, CallRec
<1> HIDE DEF p
<1>7. /\ call'[c].plan = p /\ call'[c].does = call[c].does /\ call'[c].signer = call[c].signer
      /\ \A d \in Call : d # c => call'[d] = call[d]
      /\ call' \in [Call -> CallRec]
  BY <1>1, <1>3, <1>5, <1>6 DEF Types, CallRec
<1>8. AllAlike
  <2>1. Alike(c)
    BY <1>1, <1>4, <1>7 DEF Alike, p
  <2> QED
    BY <1>7, <2>1 DEF AllAlike, Alike, CallRec
<1>9. \A d \in Call : call[d].does = "attach" /\ At(d, "replaced")' => binding' = None
  <2> TAKE d \in Call
  <2>1. CASE d = c
    BY <1>4, <1>5, <1>7, <2>1 DEF At
  <2>2. CASE d # c
    <3>1. call[d].does = "attach" /\ At(d, "replaced")' => binding = None
      BY <1>7, <2>2 DEF At, IInv, BindingOK, AtAny
    <3> QED
      BY <3>1
  <2> QED
    BY <2>1, <2>2
<1>10. /\ queue' \in Seq(Entry) /\ binding' \in BindingRec \cup {None}
       /\ QueueOK' /\ BindingOK' /\ SignersOK'
  <2>1. CASE Disposing
    BY <1>1, <1>8, <1>9, <2>1, DisposingQueue, DisposingBinding DEF signers
  <2>2. CASE UNCHANGED <<binding, queue>>
    BY <1>1, <1>8, <1>9, <2>2, AlikeQueue, AlikeBinding, AlikeSigners DEF signers, IInv, Types
  <2> QED
    BY <1>1, <2>1, <2>2
<1>11. call' \in [Call -> CallRec] /\ (\A d \in Call : PlanOK(call'[d]))
       /\ SlotOK' /\ AttachOK' /\ Once' /\ TokensOK' /\ AssetsOK'
  BY <1>1, <1>8, AllAlikeFacts DEF IInv, signers
<1>12. Types'
  BY <1>1, <1>10, <1>11 DEF Types, signers
<1>13. Ending'
  BY <1>1 DEF IInv, Ending
<1> QED
  BY <1>10, <1>11, <1>12, <1>13 DEF IInv

\* The application disposes of its binding.
LEMMA SameCalls ==
    ASSUME Types, call' = call
    PROVE  AllAlike
BY DEF Types, AllAlike, Alike, CallRec

LEMMA DisposeBindingOK ==
    ASSUME IInv, DisposeBinding
    PROVE  IInv'
<1>1. /\ Types /\ Disposing /\ binding # None
      /\ UNCHANGED <<call, attaching, slot, assets, closing, engine, signers, finalized>>
  BY DEF DisposeBinding, Disposing, IInv
<1>2. AllAlike
  BY <1>1, SameCalls
<1>3. \A d \in Call : call[d].does = "attach" /\ At(d, "replaced")' => binding' = None
  BY <1>1 DEF IInv, BindingOK, AtAny, At
<1>4. /\ queue' \in Seq(Entry) /\ binding' \in BindingRec \cup {None}
      /\ QueueOK' /\ BindingOK' /\ SignersOK'
  BY <1>1, <1>2, <1>3, DisposingQueue, DisposingBinding DEF signers
<1>5. call' \in [Call -> CallRec] /\ (\A d \in Call : PlanOK(call'[d]))
      /\ SlotOK' /\ AttachOK' /\ Once' /\ TokensOK' /\ AssetsOK'
  BY <1>1, <1>2, AllAlikeFacts DEF IInv, signers
<1>6. Types'
  BY <1>1, <1>4, <1>5 DEF Types, signers
<1>7. Ending'
  BY <1>1 DEF IInv, Ending, Live
<1> QED
  BY <1>4, <1>5, <1>6, <1>7 DEF IInv


LEMMA WaitersAlike ==
    ASSUME Types, NEW end \in Replacing, call' = Waiters(end)
    PROVE  /\ AllAlike
           /\ \A d \in Call : At(d, "replaced")' => At(d, "replaced") \/ end = "replaced"
<1>1. ASSUME NEW d \in Call
      PROVE  /\ Alike(d) /\ call'[d] \in CallRec
             /\ At(d, "replaced")' => At(d, "replaced") \/ end = "replaced"
  <2>1. call[d] \in CallRec /\ PlanOK(call[d])
    BY DEF Types
  <2>2. CASE At(d, "waiting")
    <3> DEFINE p == [call[d].plan EXCEPT ![1] = end]
    <3>1. call[d].plan # <<>> /\ Head(call[d].plan) \in Replacing /\ AtAny(d, Replacing)
      BY <2>2 DEF At, AtAny, Replacing
    <3>2. p \in Seq(StepName) /\ Head(p) = end
      BY <2>1, <3>1, Relabelled
    <3>3. call'[d] = [call[d] EXCEPT !.plan = p]
      BY <2>1, <2>2 DEF Waiters, CallRec
    <3> HIDE DEF p
    <3>4. /\ call'[d].plan = p /\ call'[d].does = call[d].does /\ call'[d].signer = call[d].signer
          /\ call'[d] \in CallRec
      BY <2>1, <3>2, <3>3 DEF CallRec
    <3>5. At(d, "replaced")' => end = "replaced"
      BY <3>2, <3>4 DEF At
    <3> QED
      BY <3>1, <3>4, <3>5 DEF Alike, p
  <2>3. CASE ~At(d, "waiting")
    BY <2>1, <2>3 DEF Waiters, Alike, At
  <2> QED
    BY <2>2, <2>3
<1>2. call' \in [Call -> CallRec]
  BY <1>1 DEF Waiters
<1> QED
  BY <1>1, <1>2 DEF AllAlike, CallRec

\* The entries behind the head stay what they are.
LEMMA AlikeTail ==
    ASSUME Types, AllAlike, QueueOK, engine # "crashed", engine' # "crashed", queue # <<>>,
           queue' = Tail(queue)
    PROVE  /\ queue' \in Seq(Entry) /\ QueueOK'
           /\ \A i \in DOMAIN queue' : i + 1 \in DOMAIN queue /\ queue'[i] = queue[i + 1]
           /\ 1 \in DOMAIN queue /\ Head(queue) = queue[1]
           /\ DOMAIN queue \subseteq Nat /\ DOMAIN queue' \subseteq Nat \ {0}
<1>1. /\ queue \in Seq(Entry) /\ Len(queue) \in Nat \ {0} /\ DOMAIN queue = 1..Len(queue)
      /\ queue' \in Seq(Entry) /\ DOMAIN queue' = 1..(Len(queue) - 1)
      /\ \A i \in DOMAIN queue' : queue'[i] = queue[i + 1]
      /\ Head(queue) = queue[1]
  BY DEF Types
<1>2. ASSUME NEW i \in DOMAIN queue'
      PROVE  i + 1 \in DOMAIN queue /\ queue'[i] = queue[i + 1] /\ i \in Nat \ {0}
  BY <1>1
<1>3. ASSUME NEW i \in DOMAIN queue, queue[i].by # None
      PROVE  queue[i].op \in Command /\ call'[queue[i].by].plan # <<>>
             /\ Head(call'[queue[i].by].plan) = queue[i].op
  <2>1. queue[i] \in Entry
    BY <1>1
  <2> PICK d \in Call : d = queue[i].by
    BY <1>3, <2>1 DEF Entry
  <2>2. queue[i].op \in Command /\ At(d, queue[i].op)
    BY <1>3 DEF QueueOK
  <2>3. Alike(d) /\ call'[d].cut \in BOOLEAN
    BY DEF AllAlike
  <2>4. \A s : s \notin Replacing => (At(d, s)' <=> At(d, s))
    BY <2>3, AlikeFacts
  <2>5. queue[i].op \notin Replacing
    BY <2>2, Kinds
  <2> QED
    BY <2>2, <2>4, <2>5 DEF At
<1>4. \A i \in DOMAIN queue' :
         IF queue'[i].by = None THEN queue'[i].op \in {"unbind", "close"}
         ELSE /\ queue'[i].op \in Command /\ call'[queue'[i].by].plan # <<>>
              /\ Head(call'[queue'[i].by].plan) = queue'[i].op
  <2> TAKE i \in DOMAIN queue'
  <2>1. i + 1 \in DOMAIN queue /\ queue'[i] = queue[i + 1]
    BY <1>2
  <2>2. queue[i + 1].by = None => queue[i + 1].op \in {"unbind", "close"}
    BY <2>1 DEF QueueOK
  <2> QED
    BY <1>3, <2>1, <2>2
<1>5. \A i, j \in DOMAIN queue' :
        queue'[i].by # None /\ queue'[i].by = queue'[j].by => i = j
  <2> SUFFICES ASSUME NEW i \in DOMAIN queue', NEW j \in DOMAIN queue',
                      queue'[i].by # None, queue'[i].by = queue'[j].by
               PROVE  i = j
    OBVIOUS
  <2>1. i + 1 = j + 1
    BY <1>2 DEF QueueOK
  <2> QED
    BY <1>2, <2>1
<1>6. QueueOK'
  BY <1>4, <1>5 DEF QueueOK, At
<1> QED
  BY <1>1, <1>2, <1>6

LEMMA UnbindOK ==
    ASSUME IInv, Unbind
    PROVE  IInv'
<1>1. /\ Types /\ QueueOK /\ BindingOK /\ SignersOK
      /\ engine = "open" /\ queue # <<>> /\ Head(queue).op = "unbind" /\ queue' = Tail(queue)
      /\ UNCHANGED <<attaching, slot, assets, closing, engine, tokens, given, stray, finalized>>
  BY DEF Unbind, IInv
<1>2. PICK end \in {"replaced", "refused"} :
         /\ call' = Waiters(end)
         /\ \/ end = "replaced" /\ binding' = None /\ bound' = bound \ {binding.signer}
            \/ end = "refused" /\ binding' = [binding EXCEPT !.unbind = "failed"] /\ bound' = bound
  BY DEF Unbind
<1>3. /\ AllAlike
      /\ \A d \in Call : At(d, "replaced")' => At(d, "replaced") \/ end = "replaced"
  BY <1>1, <1>2, WaitersAlike DEF Replacing
<1>4. /\ queue' \in Seq(Entry) /\ QueueOK'
      /\ \A i \in DOMAIN queue' : i + 1 \in DOMAIN queue /\ queue'[i] = queue[i + 1]
      /\ 1 \in DOMAIN queue /\ Head(queue) = queue[1]
      /\ DOMAIN queue \subseteq Nat /\ DOMAIN queue' \subseteq Nat \ {0}
  BY <1>1, <1>3, AlikeTail
<1>5. /\ binding # None /\ binding.unbind = "asked" /\ binding \in BindingRec
      /\ \A j \in DOMAIN queue : queue[j].op = "unbind" => j = 1
  BY <1>1, <1>4 DEF BindingOK, Types
<1>6. \/ binding' = None
      \/ binding' \in BindingRec /\ binding' # None /\ binding'.signer = binding.signer
  BY <1>2, <1>5, NoneAssumption DEF BindingRec
<1>7. ASSUME NEW d \in Call
      PROVE  /\ call'[d].does = call[d].does /\ call'[d].signer = call[d].signer
             /\ AtAny(d, Binding \cup {"ask"})' <=> AtAny(d, Binding \cup {"ask"})
             /\ Asks(d)' <=> Asks(d)
             /\ At(d, "unwind")' <=> At(d, "unwind")
  <2>1. Alike(d) /\ call'[d].cut \in BOOLEAN
    BY <1>3 DEF AllAlike
  <2>2. \A s : s \notin Replacing => (At(d, s)' <=> At(d, s))
    BY <1>1, <2>1, AlikeFacts
  <2>3. (Binding \cup {"ask", "unwind"}) \cap Replacing = {}
    BY DEF Binding, Replacing
  <2> QED
    BY <2>1, <2>2, <2>3 DEF Alike, AtAny, At, Asks
<1>8. BindingOK'
  <2>1. ASSUME NEW d \in Call, call'[d].does = "attach", AtAny(d, Binding \cup {"ask", "replaced"})'
        PROVE  binding' = None
    <3>1. call[d].does = "attach" /\ ~AtAny(d, Binding \cup {"ask", "replaced"})
      BY <1>1, <1>5, <1>7, <2>1 DEF BindingOK
    <3>2. At(d, "replaced")'
      BY <1>7, <2>1, <3>1 DEF AtAny, At
    <3>3. end = "replaced"
      BY <1>3, <3>1, <3>2 DEF At, AtAny
    <3> QED
      BY <1>2, <3>3
  <2>2. \A j \in DOMAIN queue' : queue'[j].op # "unwind"
    BY <1>1, <1>4, <1>5 DEF BindingOK
  <2>3. \A j \in DOMAIN queue' : queue'[j].op # "unbind"
    BY <1>4, <1>5
  <2> QED
    BY <2>1, <2>2, <2>3 DEF BindingOK
<1>9. SignersOK'
  <2>1. bound \subseteq Memory
    BY <1>1 DEF Types
  <2>2. ASSUME closing \in {"open", "drain", "unbind"}, NEW s \in bound'
        PROVE  \/ binding' # None /\ binding'.signer = s
               \/ s \in stray
               \/ \E c \in Call : call'[c].signer = s /\ At(c, "unwind")'
    <3>1. s \in bound /\ (binding' = None => s # binding.signer)
      BY <1>2, <1>5, <1>6, NoneAssumption DEF BindingRec
    <3>2. \/ binding.signer = s
          \/ s \in stray
          \/ \E c \in Call : call[c].signer = s /\ At(c, "unwind")
      BY <1>1, <2>2, <3>1 DEF SignersOK
    <3> QED
      BY <1>6, <1>7, <3>1, <3>2
  <2>3. binding' # None /\ binding'.signer \in Memory => binding'.signer \in bound'
    BY <1>1, <1>2, <1>5, <1>6 DEF SignersOK
  <2> QED
    BY <1>1, <2>2, <2>3 DEF SignersOK
<1>10. call' \in [Call -> CallRec] /\ (\A d \in Call : PlanOK(call'[d]))
       /\ SlotOK' /\ AttachOK' /\ Once' /\ TokensOK' /\ AssetsOK'
  BY <1>1, <1>3, AllAlikeFacts DEF IInv
<1>11. Types'
  <2>1. bound' \subseteq Memory
    BY <1>1, <1>2 DEF Types
  <2> QED
    BY <1>1, <1>4, <1>6, <1>10, <2>1 DEF Types
<1>12. Ending'
  <2>1. closing \notin {"close", "dispose", "closed"}
    BY <1>5 DEF IInv, Ending
  <2>2. (\A d \in Call : ~Live(d)) => \A d \in Call : ~Live(d)'
    BY <1>1, <1>3, AllAlikeFacts
  <2> QED
    BY <1>1, <2>1, <2>2 DEF IInv, Ending
<1> QED
  BY <1>4, <1>8, <1>9, <1>10, <1>11, <1>12 DEF IInv


\* Steps that leave the queue and the binding alone, and no call that goes on.
LEMMA AlikeMoves ==
    ASSUME IInv, AllAlike,
           UNCHANGED <<attaching, slot, binding, queue, engine, signers, finalized>>,
           \A d \in Call : call[d].does = "attach" /\ At(d, "replaced")' => binding = None,
           AssetsType', AssetsOK', Ending',
           closing' \in {"open", "drain", "unbind", "close", "dispose", "closed"},
           closing' \in {"open", "drain", "unbind"} => closing \in {"open", "drain", "unbind"}
    PROVE  IInv'
<1>1. /\ Types /\ QueueOK /\ BindingOK /\ SignersOK
      /\ UNCHANGED <<tokens, given, bound, stray>>
  BY DEF IInv, signers
<1>2. call' \in [Call -> CallRec] /\ (\A d \in Call : PlanOK(call'[d]))
      /\ SlotOK' /\ AttachOK' /\ Once' /\ TokensOK'
  BY <1>1, AllAlikeFacts DEF IInv
<1>3. QueueOK' /\ BindingOK' /\ SignersOK'
  BY <1>1, AlikeQueue, AlikeBinding, AlikeSigners
<1>4. Types'
  BY <1>1, <1>2 DEF Types, AssetsType
<1> QED
  BY <1>2, <1>3, <1>4 DEF IInv

\* What is at a step of a disposal is there as before.
LEMMA CutAlike ==
    ASSUME Types, call' \in [Call -> CallRec],
           \A d \in Call : /\ call'[d].does = call[d].does /\ call'[d].signer = call[d].signer
                           /\ call'[d].plan = call[d].plan
    PROVE  /\ AllAlike
           /\ \A d \in Call : Live(d)' <=> Live(d)
           /\ \A d \in Call : \A s : At(d, s)' <=> At(d, s)
BY DEF AllAlike, Alike, CallRec, Live, At

LEMMA AbortOK ==
    ASSUME IInv, (\E c \in Call : Abort(c)) \/ Close
    PROVE  IInv'
<1>1. /\ Types /\ UNCHANGED <<attaching, slot, binding, assets, queue, engine, signers, finalized>>
  BY DEF IInv, Abort, Close, native
<1>2. /\ call' \in [Call -> CallRec]
      /\ \A d \in Call : /\ call'[d].does = call[d].does /\ call'[d].signer = call[d].signer
                         /\ call'[d].plan = call[d].plan
  <2>1. ASSUME NEW c \in Call, Abort(c)
        PROVE  /\ call' \in [Call -> CallRec]
               /\ \A d \in Call : /\ call'[d].does = call[d].does
                                  /\ call'[d].signer = call[d].signer
                                  /\ call'[d].plan = call[d].plan
    BY <1>1, <2>1 DEF Abort, Types, CallRec
  <2>2. CASE Close
    <3>1. \A d \in Call : Live(d) \in BOOLEAN
      BY DEF Live
    <3>2. ASSUME NEW d \in Call
          PROVE  /\ [call[d] EXCEPT !.cut = Live(d)] \in CallRec
                 /\ [call[d] EXCEPT !.cut = Live(d)].plan = call[d].plan
                 /\ [call[d] EXCEPT !.cut = Live(d)].does = call[d].does
                 /\ [call[d] EXCEPT !.cut = Live(d)].signer = call[d].signer
      BY <1>1, <3>1 DEF Types, CallRec
    <3>3. call' = [d \in Call |-> [call[d] EXCEPT !.cut = Live(d)]]
      BY <2>2 DEF Close
    <3> QED
      BY <3>2, <3>3
  <2> QED
    BY <2>1, <2>2
<1>3. /\ AllAlike
      /\ \A d \in Call : Live(d)' <=> Live(d)
      /\ \A d \in Call : \A s : At(d, s)' <=> At(d, s)
  BY <1>1, <1>2, CutAlike
<1>4. \A d \in Call : call[d].does = "attach" /\ At(d, "replaced")' => binding = None
  BY <1>3 DEF IInv, BindingOK, AtAny, At
<1>5. AssetsType' /\ AssetsOK'
  BY <1>1, <1>3, AllAlikeFacts DEF IInv, Types, AssetsType
<1>6. closing' = closing \/ (closing' = "drain" /\ closing = "open")
  BY DEF Abort, Close
<1>7. Ending'
  BY <1>1, <1>3, <1>6 DEF IInv, Ending, Types
<1> QED
  BY <1>1, <1>3, <1>4, <1>5, <1>6, <1>7, AlikeMoves DEF Types

LEMMA UnbindLostOK ==
    ASSUME IInv, UnbindLost
    PROVE  IInv'
<1>1. /\ Types /\ QueueOK /\ engine # "open" /\ binding # None /\ binding' = None
      /\ call' = Waiters("replaced")
      /\ UNCHANGED <<attaching, slot, assets, closing, queue, engine, tokens, given, bound, stray,
                     finalized>>
  BY DEF UnbindLost, IInv, native, signers
<1>2. AllAlike
  BY <1>1, WaitersAlike DEF Replacing
<1>3. call' \in [Call -> CallRec] /\ (\A d \in Call : PlanOK(call'[d]))
      /\ SlotOK' /\ AttachOK' /\ Once' /\ TokensOK' /\ AssetsOK'
  BY <1>1, <1>2, AllAlikeFacts DEF IInv
<1>4. QueueOK'
  BY <1>1, <1>2, AlikeQueue
<1>5. \A j \in DOMAIN queue : queue[j].op # "unwind"
  BY <1>1 DEF IInv, BindingOK
<1>6. BindingOK'
  BY <1>1, <1>5 DEF IInv, BindingOK
<1>7. SignersOK' /\ Types'
  BY <1>1, <1>3 DEF SignersOK, Types
<1>8. Ending'
  <2>1. (\A d \in Call : ~Live(d)) => \A d \in Call : ~Live(d)'
    BY <1>1, <1>2, AllAlikeFacts
  <2> QED
    BY <1>1, <2>1 DEF IInv, Ending
<1> QED
  BY <1>3, <1>4, <1>6, <1>7, <1>8 DEF IInv

LEMMA CloseAssetsOK ==
    ASSUME IInv, CloseAssets \/ Closed
    PROVE  IInv'
<1>1. /\ Types /\ UNCHANGED <<call, attaching, slot, binding, queue, engine, signers, finalized>>
  BY DEF CloseAssets, Closed, IInv, native
<1>2. AllAlike /\ \A d \in Call : call[d].does = "attach" /\ At(d, "replaced")' => binding = None
  BY <1>1, SameCalls DEF IInv, BindingOK, AtAny, At
<1>3. /\ AssetsType' /\ AssetsOK'
      /\ assets'.life = "closed" \/ assets.life # "closed"
  <2>1. CASE assets' = assets
    BY <1>1, <2>1 DEF IInv, Types, AssetsType, AssetsOK, At
  <2>2. CASE assets.life = "open" /\ assets' = [assets EXCEPT !.life = "closing"]
    BY <1>1, <2>2 DEF IInv, Types, AssetsType, AssetsOK, At
  <2>3. CASE /\ assets.life = "closing" /\ assets.phase = "idle" /\ engine # "open"
             /\ assets' = [assets EXCEPT !.life = "closed", !.memory = {}]
    BY <1>1, <2>3 DEF IInv, Types, AssetsType, AssetsOK, At
  <2> QED
    BY <2>1, <2>2, <2>3 DEF CloseAssets, Closed
<1>4. \/ closing' = closing
      \/ closing = "dispose" /\ closing' = "closed" /\ assets.life = "closed" /\ assets' = assets
  BY DEF CloseAssets, Closed
<1>5. Ending'
  BY <1>1, <1>3, <1>4 DEF IInv, Ending, Live
<1> QED
  BY <1>1, <1>2, <1>3, <1>4, <1>5, AlikeMoves DEF Types


\* The worker is lost: every command is, and with it the engine's signers.
LEMMA CrashOK ==
    ASSUME IInv, Crash
    PROVE  IInv'
<1>1. /\ Types /\ engine = "open" /\ engine' = "crashed" /\ queue' = <<>>
      /\ UNCHANGED <<call, attaching, binding, slot, assets, closing, signers, finalized>>
  BY DEF Crash, IInv
<1>2. queue' \in Seq(Entry) /\ DOMAIN queue' = {}
  BY <1>1
<1>3. Types'
  BY <1>1, <1>2 DEF Types, signers
<1>4. QueueOK' /\ BindingOK'
  BY <1>1, <1>2 DEF QueueOK, IInv, BindingOK, At, AtAny
<1>5. SlotOK' /\ AttachOK' /\ AssetsOK'
  BY <1>1 DEF IInv, SlotOK, AttachOK, Attaches, AssetsOK, At, AtAny, Live
<1>6. Ending' /\ Once'
  BY <1>1 DEF IInv, Ending, Once, Committed, Live
<1>7. TokensOK' /\ SignersOK'
  BY <1>1 DEF TokensOK, SignersOK
<1> QED
  BY <1>3, <1>4, <1>5, <1>6, <1>7 DEF IInv

\* close() disposes of the binding, and then closes the wallet through the queue.
LEMMA CloseAccountsOK ==
    ASSUME IInv, CloseAccounts
    PROVE  IInv'
<1>1. /\ Types /\ QueueOK /\ BindingOK /\ SignersOK
      /\ UNCHANGED <<call, attaching, slot, assets, engine, signers, finalized>>
      /\ \A d \in Call : ~Live(d)
  BY DEF CloseAccounts, IInv, Drained, Ending
<1>2. AllAlike
  BY <1>1, SameCalls
<1>3. call' \in [Call -> CallRec] /\ (\A d \in Call : PlanOK(call'[d]))
      /\ SlotOK' /\ AttachOK' /\ Once' /\ TokensOK' /\ AssetsOK'
      /\ \A d \in Call : ~Live(d)'
  BY <1>1, <1>2, AllAlikeFacts DEF IInv, signers
<1>4. \A d \in Call : call[d].does = "attach" /\ At(d, "replaced")' => FALSE
  BY <1>1 DEF At, Live
<1>5. CASE /\ Drained /\ closing' = "unbind"
           /\ Disposing \/ UNCHANGED <<binding, queue>>
  <2>1. /\ queue' \in Seq(Entry) /\ binding' \in BindingRec \cup {None}
        /\ QueueOK' /\ BindingOK' /\ SignersOK'
    <3>1. CASE Disposing
      BY <1>1, <1>2, <1>4, <1>5, <3>1, DisposingQueue, DisposingBinding DEF signers, Drained
    <3>2. CASE UNCHANGED <<binding, queue>>
      <4>1. queue' \in Seq(Entry) /\ binding' \in BindingRec \cup {None}
        BY <1>1, <3>2 DEF Types
      <4>2. QueueOK' /\ BindingOK'
        BY <1>1, <1>2, <1>4, <3>2, AlikeQueue, AlikeBinding
      <4>3. SignersOK'
        BY <1>1, <1>2, <1>5, <3>2, AlikeSigners DEF signers, Drained
      <4> QED
        BY <4>1, <4>2, <4>3
    <3> QED
      BY <1>5, <3>1, <3>2
  <2>2. Types'
    BY <1>1, <1>3, <1>5, <2>1 DEF Types, signers
  <2>3. Ending'
    BY <1>1, <1>3, <1>5 DEF IInv, Ending, Drained
  <2> QED
    BY <1>3, <2>1, <2>2, <2>3 DEF IInv
<1>6. CASE /\ closing = "unbind" /\ (binding # None => binding.unbind = "failed") /\ binding' = None
           /\ \/ /\ engine = "open" /\ closing' = "close"
                 /\ queue' = Append(queue, [by |-> None, op |-> "close"])
              \/ engine # "open" /\ closing' = "dispose" /\ queue' = queue
  <2>1. queue = <<>> \/ engine = "open"
    BY <1>1, <1>6 DEF IInv, Ending, QueueOK, Types
  <2>2. \A i \in DOMAIN queue : queue[i].op = "close" /\ queue[i].by = None
    <3> TAKE i \in DOMAIN queue
    <3>1. queue[i] \in Entry /\ engine = "open"
      BY <1>1, <2>1 DEF Types
    <3>2. queue[i].by = None
      BY <1>1, <3>1 DEF QueueOK, Entry, At, Live
    <3>3. queue[i].op # "unbind"
      BY <1>1, <1>6, <3>1 DEF BindingOK
    <3> QED
      BY <1>1, <3>2, <3>3 DEF QueueOK
  <2>3. /\ queue' \in Seq(Entry)
        /\ \A i \in DOMAIN queue' : queue'[i].op = "close" /\ queue'[i].by = None
    <3> DEFINE e == [by |-> None, op |-> "close"]
    <3>1. e \in Entry /\ e.op = "close" /\ e.by = None
      BY DEF Entry
    <3>2. queue' = queue \/ queue' = Append(queue, e)
      BY <1>6
    <3> HIDE DEF e
    <3>3. queue \in Seq(Entry)
      BY <1>1 DEF Types
    <3>4. queue' \in Seq(Entry)
      BY <3>1, <3>2, <3>3
    <3>5. ASSUME NEW i \in DOMAIN queue'
          PROVE  queue'[i] = e \/ (i \in DOMAIN queue /\ queue'[i] = queue[i])
      BY <3>1, <3>2, <3>3
    <3> QED
      BY <2>2, <3>1, <3>4, <3>5
  <2>4. engine' # "crashed" \/ queue' = <<>>
    BY <1>1, <1>6, <2>1
  <2>5. QueueOK' /\ BindingOK'
    <3>1. QueueOK'
      BY <2>3, <2>4 DEF QueueOK
    <3>2. BindingOK'
      BY <1>6, <2>3 DEF BindingOK, Binding
    <3> QED
      BY <3>1, <3>2
  <2>6. SignersOK' /\ Types'
    <3>1. closing' \notin {"open", "drain", "unbind"}
      BY <1>6
    <3>2. SignersOK'
      BY <1>6, <3>1 DEF SignersOK
    <3>3. Types'
      BY <1>1, <1>3, <1>6, <2>3 DEF Types, signers
    <3> QED
      BY <3>2, <3>3
  <2>7. Ending'
    <3>1. engine # "closed"
      BY <1>6 DEF IInv, Ending
    <3> QED
      BY <1>1, <1>3, <1>6, <3>1 DEF Ending
  <2> QED
    BY <1>3, <2>5, <2>6, <2>7 DEF IInv
<1> QED
  BY <1>5, <1>6 DEF CloseAccounts

LEMMA CloseWalletOK ==
    ASSUME IInv, CloseWallet
    PROVE  IInv'
<1>1. /\ Types /\ QueueOK /\ BindingOK
      /\ closing = "close" /\ closing' = "dispose" /\ binding = None
      /\ UNCHANGED <<call, attaching, binding, slot, assets, signers, finalized>>
      /\ \A d \in Call : ~Live(d)
  BY DEF CloseWallet, IInv, Ending
<1>2. \/ engine = "open" /\ queue # <<>> /\ queue' = Tail(queue) /\ engine' = "closed"
      \/ engine = "crashed" /\ UNCHANGED <<queue, engine>>
  BY DEF CloseWallet
<1>3. AllAlike
  BY <1>1, SameCalls
<1>4. queue' \in Seq(Entry) /\ QueueOK' /\ \A j \in DOMAIN queue' : queue'[j].op # "unwind"
  <2>1. CASE engine = "open" /\ queue # <<>> /\ queue' = Tail(queue) /\ engine' = "closed"
    <3>1. /\ queue' \in Seq(Entry) /\ QueueOK'
          /\ \A i \in DOMAIN queue' : i + 1 \in DOMAIN queue /\ queue'[i] = queue[i + 1]
      BY <1>1, <1>3, <2>1, AlikeTail
    <3>2. ASSUME NEW i \in DOMAIN queue PROVE queue[i].op # "unwind"
      <4>1. queue[i] \in Entry
        BY <1>1 DEF Types
      <4>2. queue[i].by = None
        BY <1>1, <4>1 DEF QueueOK, Entry, At, Live
      <4> QED
        BY <1>1, <4>2 DEF QueueOK
    <3> QED
      BY <3>1, <3>2
  <2>2. CASE engine = "crashed" /\ UNCHANGED <<queue, engine>>
    BY <1>1, <1>3, <2>2, AlikeQueue DEF Types, QueueOK
  <2> QED
    BY <1>2, <2>1, <2>2
<1>5. call' \in [Call -> CallRec] /\ (\A d \in Call : PlanOK(call'[d]))
      /\ SlotOK' /\ AttachOK' /\ Once' /\ \A d \in Call : ~Live(d)'
  BY <1>1, <1>3, AllAlikeFacts DEF IInv
<1>6. engine' \in {"crashed", "closed"}
  BY <1>2
<1>7. BindingOK' /\ TokensOK' /\ SignersOK'
  BY <1>1, <1>4, <1>6 DEF BindingOK, TokensOK, SignersOK
<1>8. AssetsOK'
  BY <1>1, <1>6 DEF IInv, AssetsOK, At
<1>9. Types' /\ Ending'
  BY <1>1, <1>4, <1>5, <1>6 DEF Types, signers, Ending
<1> QED
  BY <1>4, <1>5, <1>7, <1>8, <1>9 DEF IInv


-----------------------------------------------------------------------------
(* A call begins *)

LEMMA OthersHeads ==
    ASSUME NEW k \in CallRec, PlanOK(k), k.plan # <<>>, k.does # "attach"
    PROVE  Head(k.plan) \notin Binding \cup {"unwind"}
<1>1. CASE k.does = "create"
  <2>1. k.plan \in CreatePlan
    BY <1>1 DEF PlanOK
  <2>2. /\ Head(<<"issue", "describe">>) = "issue" /\ Head(<<"describe">>) = "describe"
        /\ Head(<<"release">>) = "release"
    OBVIOUS
  <2> QED
    BY <2>1, <2>2 DEF CreatePlan, Binding
<1>2. CASE k.does # "create"
  <2>1. k.plan \in Seq(Plain)
    BY <1>2 DEF PlanOK
  <2>2. Head(k.plan) \in Plain
    BY <2>1
  <2> QED
    BY <2>2 DEF Plain, Binding, SlotHeld, Replacing
<1> QED
  BY <1>1, <1>2

LEMMA BeginOK ==
    ASSUME IInv, NEW c \in Call, Begin(c)
    PROVE  IInv'
<1>1. /\ Types /\ QueueOK /\ SlotOK /\ AttachOK /\ AssetsOK /\ Ending /\ Once /\ TokensOK
      /\ BindingOK /\ SignersOK
      /\ closing = "open" /\ engine = "open" /\ call[c].does = "nothing"
      /\ UNCHANGED <<binding, assets, closing, engine, tokens, given, bound, stray, finalized>>
  BY DEF Begin, IInv, signers
<1>2. ~Live(c)
  BY <1>1 DEF Types, PlanOK, Live
<1> DEFINE Chosen(does, s, p) ==
             /\ s \in Choice(does) /\ p \in Plans(does, s)
             /\ does = "attach" => attaching = None
             /\ SlotFree(c, p)
             /\ call' = [call EXCEPT ![c] =
                            [does |-> does, signer |-> s, plan |-> p, cut |-> FALSE]]
             /\ attaching' = (IF does = "attach" THEN c ELSE attaching)
             /\ slot' = (IF Head(p) \in SlotHeld THEN c ELSE slot)
             /\ queue' = (IF Head(p) \in Command THEN Append(queue, [by |-> c, op |-> Head(p)])
                          ELSE queue)
<1>begun. \E does \in Work : \E s \in Choice(does) : \E p \in Plans(does, s) : Chosen(does, s, p)
  BY DEF Begin
<1>does. PICK does \in Work : \E s \in Choice(does) : \E p \in Plans(does, s) : Chosen(does, s, p)
  BY <1>begun
<1>signer. PICK s \in Choice(does) : \E p \in Plans(does, s) : Chosen(does, s, p)
  BY <1>does
<1>3. PICK p \in Plans(does, s) : Chosen(does, s, p)
  BY <1>signer
<1> DEFINE e == [does |-> does, signer |-> s, plan |-> p, cut |-> FALSE]
           g == [by |-> c, op |-> Head(p)]
<1>4. /\ p # <<>> /\ does # "nothing" /\ e \in CallRec /\ PlanOK(e)
      /\ \/ \E i \in DOMAIN p : p[i] \in Look
         \/ \A i \in DOMAIN p : p[i] \notin Final
      /\ does = "attach" => Head(p) = "replace"
  BY <1>3, Begun
<1>5. /\ e.plan = p /\ e.does = does /\ e.signer = s
      /\ g.by = c /\ g.op = Head(p) /\ (Head(p) \in Command => g \in Entry)
  BY DEF Entry
<1>6. /\ call' = [call EXCEPT ![c] = e]
      /\ queue' = IF Head(p) \in Command THEN Append(queue, g) ELSE queue
  BY <1>3
<1> HIDE DEF e, g
<1>7. /\ call'[c] = e /\ \A d \in Call : d # c => call'[d] = call[d]
      /\ call' \in [Call -> CallRec] /\ \A d \in Call : PlanOK(call'[d])
      /\ call'[c].plan = p /\ call'[c].does = does
  BY <1>1, <1>4, <1>5, <1>6 DEF Types
<1>8. Head(p) \notin Binding \cup {"unwind"}
  BY <1>4, <1>5, OthersHeads DEF Binding
<1>9. Head(p) \in Command => Head(p) \notin Binding \cup {"unwind", "unbind"}
  BY <1>8 DEF Command, Unsignalled
<1> DEFINE m == Len(queue) + 1
<1>10. /\ queue' \in Seq(Entry)
       /\ \A i \in DOMAIN queue' :
             \/ i \in DOMAIN queue /\ queue'[i] = queue[i]
             \/ i = m /\ queue'[i] = g /\ Head(p) \in Command
  <2>1. queue \in Seq(Entry) /\ Len(queue) \in Nat /\ DOMAIN queue = 1..Len(queue)
    BY <1>1 DEF Types
  <2>2. CASE queue' = queue
    BY <2>1, <2>2
  <2>3. CASE Head(p) \in Command /\ queue' = Append(queue, g)
    <3>1. queue' \in Seq(Entry) /\ DOMAIN queue' = 1..m
      BY <1>5, <2>1, <2>3
    <3>2. queue'[m] = g /\ \A i \in 1..m : i # m => i \in DOMAIN queue /\ queue'[i] = queue[i]
      BY <2>1, <2>3
    <3> QED
      BY <2>3, <3>1, <3>2
  <2> QED
    BY <1>6, <2>2, <2>3
<1> HIDE DEF m
<1>11. ASSUME NEW i \in DOMAIN queue
       PROVE  queue[i].by # c
  BY <1>1, <1>2, CallAssumption DEF QueueOK, At, Live
<1>12. QueueOK'
  <2>1. ASSUME NEW i \in DOMAIN queue'
        PROVE  IF queue'[i].by = None THEN queue'[i].op \in {"unbind", "close"}
               ELSE /\ queue'[i].op \in Command /\ call'[queue'[i].by].plan # <<>>
                    /\ Head(call'[queue'[i].by].plan) = queue'[i].op
    <3>1. CASE i \in DOMAIN queue /\ queue'[i] = queue[i]
      <4>1. queue[i] \in Entry /\ queue[i].by # c
        BY <1>1, <1>11, <3>1 DEF Types
      <4>2. CASE queue[i].by = None
        BY <1>1, <3>1, <4>2 DEF QueueOK
      <4>3. CASE queue[i].by # None
        <5> PICK d \in Call : d = queue[i].by
          BY <4>1, <4>3 DEF Entry
        <5>1. queue[i].op \in Command /\ At(d, queue[i].op)
          BY <1>1, <3>1, <4>3 DEF QueueOK
        <5>2. call'[d] = call[d]
          BY <1>7, <4>1
        <5> QED
          BY <3>1, <4>3, <5>1, <5>2 DEF At
      <4> QED
        BY <4>2, <4>3
    <3>2. CASE queue'[i] = g /\ Head(p) \in Command
      <4>1. c # None
        BY CallAssumption
      <4> QED
        BY <1>4, <1>5, <1>7, <3>2, <4>1
    <3> QED
      BY <1>10, <3>1, <3>2
  <2>2. \A i, j \in DOMAIN queue' :
          queue'[i].by # None /\ queue'[i].by = queue'[j].by => i = j
    BY <1>1, <1>5, <1>10, <1>11 DEF QueueOK
  <2> QED
    BY <1>1, <2>1, <2>2 DEF QueueOK, At
<1>13. slot # c /\ attaching # c /\ (Head(p) \in SlotHeld => slot = None)
  <2>1. slot # c
    BY <1>1, <1>2, CallAssumption DEF SlotOK, AtAny, Live
  <2>2. attaching # c
    BY <1>1, <1>2, CallAssumption DEF AttachOK, Attaches
  <2> QED
    BY <1>3, <2>1, <2>2 DEF SlotFree
<1>14. SlotOK'
  BY <1>1, <1>3, <1>4, <1>7, <1>13, CallAssumption DEF SlotOK, AtAny, Types
<1>15. AttachOK'
  <2>1. Attaches(c)' <=> does = "attach"
    BY <1>4, <1>7 DEF Attaches, Live, At
  <2>2. \A d \in Call : d # c => (Attaches(d)' <=> Attaches(d))
    BY <1>7 DEF Attaches, Live, At
  <2> QED
    BY <1>1, <1>3, <1>13, <2>1, <2>2, CallAssumption DEF AttachOK, Types
<1>16. AssetsOK'
  <2>1. assets.phase # "idle" => slot' = slot /\ slot # None /\ slot \in Call /\ At(slot, "load")
    BY <1>1, <1>3, <1>13 DEF AssetsOK, Types
  <2>2. assets.phase # "idle" => At(slot, "load")'
    BY <1>7, <1>13, <2>1 DEF At
  <2> QED
    BY <1>1, <2>1, <2>2 DEF AssetsOK, At
<1>17. Ending'
  BY <1>1 DEF Ending
<1>18. Once'
  <2>1. ~Committed(c)'
    BY <1>4, <1>7 DEF Committed
  <2>2. \A d \in Call : d # c => (Committed(d)' <=> Committed(d))
    BY <1>7 DEF Committed
  <2> QED
    BY <1>1, <2>1, <2>2 DEF Once
<1>19. TokensOK'
  <2>1. ASSUME NEW d \in tokens \ given
        PROVE  call'[d].does = "create" /\ call'[d].plan \in {<<"describe">>, <<"release">>}
    <3>1. d \in Call /\ call[d].does = "create" /\ call[d].plan \in {<<"describe">>, <<"release">>}
      BY <1>1 DEF TokensOK, Types
    <3> QED
      BY <1>1, <1>7, <3>1
  <2> QED
    BY <1>1, <2>1 DEF TokensOK
<1>20. BindingOK'
  <2>1. ASSUME NEW d \in Call
        PROVE  /\ call'[d].does = "attach" /\ AtAny(d, Binding \cup {"ask", "replaced"})' =>
                      call[d].does = "attach" /\ AtAny(d, Binding \cup {"ask", "replaced"})
               /\ Asks(d)' => Asks(d)
    <3>1. CASE d = c
      BY <1>4, <1>7, <3>1 DEF AtAny, Asks, At, Binding
    <3>2. CASE d # c
      BY <1>7, <3>2 DEF AtAny, Asks, At
    <3> QED
      BY <3>1, <3>2
  <2>2. \A i \in DOMAIN queue' :
           queue'[i].op \in Binding \cup {"unwind", "unbind"} =>
               i \in DOMAIN queue /\ queue'[i] = queue[i]
    BY <1>5, <1>9, <1>10
  <2> QED
    BY <1>1, <2>1, <2>2, ZenonT(30) DEF BindingOK
<1>21. SignersOK'
  <2>1. \A d \in Call : At(d, "unwind") => At(d, "unwind")' /\ call'[d].signer = call[d].signer
    BY <1>2, <1>7 DEF At, Live
  <2> QED
    BY <1>1, <2>1 DEF SignersOK
<1>22. Types'
  BY <1>1, <1>3, <1>7, <1>10 DEF Types
<1> QED
  BY <1>12, <1>14, <1>15, <1>16, <1>17, <1>18, <1>19, <1>20, <1>21, <1>22 DEF IInv


-----------------------------------------------------------------------------
(* The engine runs the command at the head of the queue *)

\* The command at the head is what its call c awaits.
AtHead(c, op) ==
    /\ engine = "open" /\ queue # <<>> /\ c = Head(queue).by /\ op = Head(queue).op
    /\ c \in Call

LEMMA HeadFacts ==
    ASSUME Types, QueueOK, BindingOK, NEW c, NEW op, AtHead(c, op)
    PROVE  /\ c \in Call /\ op \in Command /\ At(c, op) /\ Live(c) /\ Head(call[c].plan) = op
           /\ Kept(Tail(queue), c)
           /\ op \in Binding => \A j \in DOMAIN Tail(queue) : Tail(queue)[j].op # "unwind"
           /\ op = "unwind" => binding = None
<1>1. /\ c \in Call /\ engine = "open" /\ queue # <<>> /\ Head(queue).by = c /\ Head(queue).op = op
  BY DEF AtHead
<1>2. Kept(Tail(queue), c)
  BY <1>1, KeptTail
<1>3. /\ queue \in Seq(Entry) /\ Len(queue) \in Nat \ {0} /\ DOMAIN queue = 1..Len(queue)
      /\ Head(queue) = queue[1] /\ 1 \in DOMAIN queue
      /\ \A j \in DOMAIN Tail(queue) : /\ j + 1 \in DOMAIN queue /\ ~(j + 1 < 1)
                                       /\ Tail(queue)[j] = queue[j + 1]
  BY <1>1 DEF Types
<1>4. op \in Command /\ At(c, op)
  BY <1>1, <1>3, CallAssumption DEF QueueOK
<1>5. op \in Binding => \A j \in DOMAIN Tail(queue) : Tail(queue)[j].op # "unwind"
  <2> SUFFICES ASSUME op \in Binding, NEW j \in DOMAIN Tail(queue), Tail(queue)[j].op = "unwind"
               PROVE  FALSE
    OBVIOUS
  <2>1. j + 1 \in DOMAIN queue /\ queue[j + 1].op = "unwind" /\ queue[1].op \in Binding
    BY <1>1, <1>3
  <2>2. j + 1 < 1
    BY <1>3, <2>1 DEF BindingOK
  <2> QED
    BY <1>3, <2>2
<1>6. op = "unwind" => binding = None
  BY <1>1, <1>3 DEF BindingOK
<1> QED
  BY <1>1, <1>2, <1>4, <1>5, <1>6 DEF At, Live

\* What is told leaves c with plan n.
Hears(c, op, ok, n) ==
    LET p == call[c].plan
    IN  \/ op \in Unsignalled /\ n = <<>>
        \/ /\ op \notin Unsignalled /\ (ok = FALSE \/ call[c].cut)
           /\ n = FailPlan(c, IF ok /\ op = "issue" THEN Tail(p) ELSE p)
        \/ op \in Look /\ ok /\ ~call[c].cut /\ n = <<>>
        \/ /\ op \notin Unsignalled /\ ok /\ ~call[c].cut /\ (op \in Look => finalized = 0)
           /\ n = GoPlan(c, Tail(p))

LEMMA ToldHears ==
    ASSUME IInv, NEW c, NEW op, NEW ok \in BOOLEAN, AtHead(c, op), Told(c, ok, Tail(queue)),
           engine' = engine
    PROVE  \E n : Moving(c, n, Tail(queue)) /\ Hears(c, op, ok, n)
<1> DEFINE p == call[c].plan
           q == Tail(queue)
           f == IF ok /\ op = "issue" THEN Tail(p) ELSE p
<1>1. /\ Types /\ c \in Call /\ Live(c) /\ Head(p) = op /\ Kept(q, c)
      /\ finalized \in Nat /\ (call[c].cut \in BOOLEAN)
  BY HeadFacts DEF IInv, Types, CallRec
<1>2. CASE op \in Unsignalled
  <2>1. Moves(c, <<>>, q)
    BY <1>1, <1>2 DEF Told
  <2>2. Adv(c, <<>>)
    BY DEF Adv
  <2> QED
    BY <1>1, <1>2, <2>1, <2>2 DEF Moving, Hears
<1>3. CASE op \notin Unsignalled /\ (ok = FALSE \/ call[c].cut)
  <2>1. Fails(c, f, q)
    BY <1>1, <1>3 DEF Told
  <2>2. Adv(c, FailPlan(c, f)) /\ Moves(c, FailPlan(c, f), q)
    BY <1>1, <2>1, Failing
  <2>3. Moving(c, FailPlan(c, f), q)
    BY <1>1, <2>2 DEF Moving
  <2> QED
    BY <1>3, <2>3 DEF Hears
<1>4. CASE op \notin Unsignalled /\ ok /\ ~call[c].cut /\ op \in Look /\ finalized > 0
  <2>1. Moves(c, <<>>, q)
    BY <1>1, <1>4 DEF Told, Look
  <2>2. Adv(c, <<>>)
    BY DEF Adv
  <2> QED
    BY <1>1, <1>4, <2>1, <2>2 DEF Moving, Hears
<1>5. CASE op \notin Unsignalled /\ ok /\ ~call[c].cut /\ ~(op \in Look /\ finalized > 0)
  <2>1. Goes(c, Tail(p), q)
    BY <1>1, <1>5 DEF Told, Look
  <2>2. Adv(c, GoPlan(c, Tail(p))) /\ Moves(c, GoPlan(c, Tail(p)), q)
    BY <1>1, <2>1, Going
  <2>3. Moving(c, GoPlan(c, Tail(p)), q)
    BY <1>1, <2>2 DEF Moving
  <2>4. op \in Look => finalized = 0
    BY <1>1, <1>5
  <2> QED
    BY <1>5, <2>3, <2>4 DEF Hears
<1> QED
  BY <1>2, <1>3, <1>4, <1>5


\* What a plan of each method is when its command is at the head.
LEMMA HeadPlans ==
    ASSUME Types, NEW c \in Call, Live(c)
    PROVE  /\ At(c, "bind") => call[c].plan = <<"bind">> /\ call[c].signer \in Memory
           /\ At(c, "check") => call[c].plan = <<"check">> /\ call[c].signer \notin Memory
           /\ At(c, "issue") => call[c].plan = <<"issue", "describe">>
           /\ At(c, "describe") => call[c].plan = <<"describe">>
           /\ At(c, "release") => call[c].plan = <<"release">>
           /\ AtAny(c, Final) => Tail(call[c].plan) = <<>>
           /\ call[c].does = "attach" => call[c].signer \in Signer
           /\ call[c].does = "attach" /\ Len(call[c].plan) = 1 /\ AtAny(c, Command) =>
                 AtAny(c, {"bind", "check", "unwind"})
<1> DEFINE p == call[c].plan
           s == call[c].signer
<1>1. PlanOK(call[c]) /\ p # <<>> /\ p \in Seq(StepName)
  BY DEF Types, Live, CallRec
<1>2. /\ AtAny(c, Binding \cup {"unwind"}) => call[c].does = "attach"
      /\ AtAny(c, {"issue", "describe", "release"}) => call[c].does = "create"
      /\ AtAny(c, Look \cup Final \cup {"load"}) => call[c].does \notin {"attach", "create"}
  BY WhoseStep
<1>3. /\ \A r : /\ Head(<<r, "bind">>) = r /\ Head(<<r, "account", "ask", "check">>) = r
                /\ Len(<<r, "bind">>) = 2 /\ Len(<<r, "account", "ask", "check">>) = 4
      /\ Head(<<"account", "ask", "check">>) = "account" /\ Head(<<"ask", "check">>) = "ask"
      /\ Len(<<"account", "ask", "check">>) = 3 /\ Len(<<"ask", "check">>) = 2
      /\ Head(<<"check">>) = "check" /\ Head(<<"bind">>) = "bind" /\ Head(<<"unwind">>) = "unwind"
      /\ Head(<<"issue", "describe">>) = "issue" /\ Head(<<"describe">>) = "describe"
      /\ Head(<<"release">>) = "release"
  OBVIOUS
<1>4. ASSUME call[c].does = "attach"
      PROVE  /\ Head(p) = "bind" => p = <<"bind">> /\ s \in Memory
             /\ Head(p) = "check" => p = <<"check">> /\ s \notin Memory
             /\ s \in Signer
             /\ Len(p) = 1 => Head(p) \in {"bind", "check", "unwind"}
  <2>1. p \in AttachPlan(s) /\ s \in Signer
    BY <1>1, <1>4 DEF PlanOK
  <2>2. CASE s \in Memory
    <3>1. (\E r \in Replacing : p = <<r, "bind">>) \/ p = <<"bind">> \/ p = <<"unwind">>
      BY <2>1, <2>2 DEF AttachPlan
    <3> QED
      BY <1>3, <2>1, <2>2, <3>1 DEF Replacing
  <2>3. CASE s \notin Memory
    <3>1. \/ \E r \in Replacing : p = <<r, "account", "ask", "check">>
          \/ p = <<"account", "ask", "check">> \/ p = <<"ask", "check">> \/ p = <<"check">>
      BY <2>1, <2>3 DEF AttachPlan
    <3> QED
      BY <1>3, <2>1, <2>3, <3>1 DEF Replacing
  <2> QED
    BY <2>2, <2>3
<1>5. ASSUME call[c].does = "create"
      PROVE  /\ Head(p) = "issue" => p = <<"issue", "describe">>
             /\ Head(p) = "describe" => p = <<"describe">>
             /\ Head(p) = "release" => p = <<"release">>
  <2>1. p \in CreatePlan
    BY <1>1, <1>5 DEF PlanOK
  <2> QED
    BY <1>3, <2>1 DEF CreatePlan
<1>6. AtAny(c, Final) => Tail(p) = <<>>
  <2> SUFFICES ASSUME AtAny(c, Final) PROVE Tail(p) = <<>>
    OBVIOUS
  <2>1. Last(p)
    BY <1>1, <1>2 DEF PlanOK, AtAny
  <2>2. 1 \in DOMAIN p /\ p[1] = Head(p)
    BY <1>1
  <2>3. Len(p) = 1
    BY <2>1, <2>2 DEF Last, AtAny
  <2>4. Tail(p) \in Seq(StepName) /\ Len(Tail(p)) = 0
    BY <1>1, <2>3
  <2>5. \A t \in Seq(StepName) : Len(t) = 0 => t = <<>>
    OBVIOUS
  <2> QED
    BY <2>4, <2>5
<1>7. "bind" \in Binding /\ "check" \in Binding
  BY DEF Binding
<1> QED
  BY <1>2, <1>4, <1>5, <1>6, <1>7 DEF At, AtAny

\* What the plan that a call goes on with says of the request that was answered.
HeardPlan(c, op, ok, n) ==
    /\ op = "bind" => n = (IF ok /\ ~call[c].cut THEN <<>> ELSE <<"unwind">>)
    /\ n = <<"unwind">> => op = "bind"
    /\ Published(c, ok) => op \in {"bind", "check"} /\ n = <<>>
    /\ op = "issue" /\ ok => n \in {<<"describe">>, <<"release">>}
    /\ op = "describe" /\ (ok = FALSE \/ call[c].cut) => n = <<"release">>
    /\ op \in Look /\ n = Tail(call[c].plan) /\ n \notin {<<>>, <<"report">>} =>
          finalized = 0
    /\ op \in Final => n \in {<<>>, <<"report">>}

LEMMA HeardPlans ==
    ASSUME IInv, NEW c, NEW op, NEW ok \in BOOLEAN, AtHead(c, op), NEW n, Hears(c, op, ok, n)
    PROVE  HeardPlan(c, op, ok, n)
<1> DEFINE p == call[c].plan
<1>1. /\ Types /\ c \in Call /\ Live(c) /\ At(c, op) /\ Head(p) = op /\ op \in Command
      /\ engine = "open"
  BY HeadFacts DEF IInv, AtHead
<1>2. /\ op = "bind" => p = <<"bind">> /\ call[c].does = "attach"
      /\ op = "issue" => p = <<"issue", "describe">> /\ call[c].does = "create"
      /\ op = "describe" => p = <<"describe">> /\ call[c].does = "create"
      /\ op \in Final => Tail(p) = <<>> /\ call[c].does \notin {"attach", "create"}
      /\ op \in Look => call[c].does \notin {"attach", "create"}
  BY <1>1, HeadPlans, WhoseStep DEF At, AtAny, Binding
<1>3. /\ Tail(<<"bind">>) = <<>> /\ Tail(<<"issue", "describe">>) = <<"describe">>
      /\ Tail(<<"describe">>) = <<>> /\ Head(<<"describe">>) = "describe"
      /\ <<"bind">> # <<"describe">>
  OBVIOUS
<1>4. /\ Unsignalled = {"report", "unwind", "release"} /\ Look = {"state", "finalized"}
      /\ Final = {"fused", "finalize"}
  BY DEF Unsignalled, Look, Final
<1>5. /\ FailPlan(c, p) \in {<<>>, <<"unwind">>, <<"release">>, <<"report">>}
      /\ FailPlan(c, Tail(p)) \in {<<>>, <<"unwind">>, <<"release">>, <<"report">>}
      /\ FailPlan(c, p) = <<"unwind">> => call[c].does = "attach" /\ p = <<"bind">>
      /\ FailPlan(c, Tail(p)) = <<"unwind">> => call[c].does = "attach" /\ Tail(p) = <<"bind">>
      /\ FailPlan(c, p) = <<"release">> => call[c].does = "create"
      /\ FailPlan(c, Tail(p)) = <<"release">> => call[c].does = "create"
  <2>1. <<"unwind">> # <<"release">> /\ <<"unwind">> # <<"report">> /\ <<"release">> # <<"report">>
    OBVIOUS
  <2>2. ASSUME NEW z \in {p, Tail(p)}
        PROVE  \/ FailPlan(c, z) = <<>>
               \/ FailPlan(c, z) = <<"unwind">> /\ call[c].does = "attach" /\ z = <<"bind">>
               \/ FailPlan(c, z) = <<"release">> /\ call[c].does = "create"
               \/ FailPlan(c, z) = <<"report">>
    BY <1>1, Failing
  <2>3. <<>> # <<"unwind">> /\ <<>> # <<"release">>
    OBVIOUS
  <2> QED
    BY <2>1, <2>2, <2>3
<1>6. GoPlan(c, Tail(p)) = Tail(p) \/ (GoPlan(c, Tail(p)) = FailPlan(c, Tail(p)) /\ Tail(p) # <<>>)
  BY DEF GoPlan
<1>7. op = "bind" => n = (IF ok /\ ~call[c].cut THEN <<>> ELSE <<"unwind">>)
  <2> SUFFICES ASSUME op = "bind" PROVE n = (IF ok /\ ~call[c].cut THEN <<>> ELSE <<"unwind">>)
    OBVIOUS
  <2>1. FailPlan(c, p) = <<"unwind">>
    BY <1>1, <1>2 DEF FailPlan
  <2> QED
    BY <1>2, <1>3, <1>4, <1>6, <2>1 DEF Hears
<1>8. n = <<"unwind">> => op = "bind"
  <2> SUFFICES ASSUME n = <<"unwind">>, op # "bind" PROVE FALSE
    OBVIOUS
  <2>1. p # <<"bind">> /\ Tail(p) # <<"unwind">>
    <3>1. Head(<<"bind">>) = "bind"
      OBVIOUS
    <3> QED
      BY <1>1, <3>1, TailIsNoUnwind
  <2>2. call[c].does = "attach" /\ Tail(p) = <<"bind">>
    BY <1>5, <1>6, <2>1 DEF Hears
  <2>3. Tail(p) # <<>> /\ Head(Tail(p)) = "bind"
    <3>1. <<"bind">> # <<>> /\ Head(<<"bind">>) = "bind"
      OBVIOUS
    <3> QED
      BY <2>2, <3>1
  <2>4. AtAny(c, Replacing \cup Binding \cup {"ask"}) /\ (AtAny(c, Binding) => At(c, "account"))
        /\ (At(c, "account") => Head(Tail(p)) = "ask")
    BY <1>1, <2>2, <2>3, AttachSteps
  <2>5. op \in {"ask"} \cup Replacing
    BY <1>1, <2>3, <2>4 DEF AtAny
  <2> QED
    BY <1>1, <2>5, Kinds DEF Asking
<1>9. Published(c, ok) => op \in {"bind", "check"} /\ n = <<>>
  <2> SUFFICES ASSUME Published(c, ok) PROVE op \in {"bind", "check"} /\ n = <<>>
    OBVIOUS
  <2>1. /\ call[c].does = "attach" /\ ok = TRUE /\ ~call[c].cut /\ Len(p) = 1 /\ op # "unwind"
    BY <1>1 DEF Published, At, Live
  <2>2. op \in {"bind", "check"}
    BY <1>1, <2>1, HeadPlans DEF AtAny, Live
  <2>3. Tail(p) = <<>>
    <3>1. p \in Seq(StepName) /\ p # <<>>
      BY <1>1 DEF Types, CallRec, Live
    <3>2. Tail(p) \in Seq(StepName) /\ Len(Tail(p)) = 0
      BY <2>1, <3>1
    <3>3. \A t \in Seq(StepName) : Len(t) = 0 => t = <<>>
      OBVIOUS
    <3> QED
      BY <3>2, <3>3
  <2> QED
    BY <1>4, <1>6, <2>1, <2>2, <2>3 DEF Hears
<1>10. op = "issue" /\ ok => n \in {<<"describe">>, <<"release">>}
  <2> SUFFICES ASSUME op = "issue", ok = TRUE PROVE n \in {<<"describe">>, <<"release">>}
    OBVIOUS
  <2>1. FailPlan(c, Tail(p)) = <<"release">>
    BY <1>1, <1>2, <1>3 DEF FailPlan
  <2> QED
    BY <1>2, <1>3, <1>4, <1>6, <2>1 DEF Hears
<1>11. op = "describe" /\ (ok = FALSE \/ call[c].cut) => n = <<"release">>
  <2> SUFFICES ASSUME op = "describe", ok = FALSE \/ call[c].cut PROVE n = <<"release">>
    OBVIOUS
  <2>1. FailPlan(c, p) = <<"release">>
    BY <1>1, <1>2 DEF FailPlan
  <2> QED
    BY <1>4, <2>1 DEF Hears
<1>12. op \in Look /\ n = Tail(p) /\ n \notin {<<>>, <<"report">>} => finalized = 0
  <2> SUFFICES ASSUME op \in Look, n \notin {<<>>, <<"report">>} PROVE finalized = 0
    OBVIOUS
  <2>1. op \notin Unsignalled /\ op # "issue"
    BY <1>4
  <2>2. FailPlan(c, p) \in {<<>>, <<"report">>}
    BY <1>2, <1>5
  <2> QED
    BY <2>1, <2>2 DEF Hears
<1>13. op \in Final => n \in {<<>>, <<"report">>}
  <2> SUFFICES ASSUME op \in Final PROVE n \in {<<>>, <<"report">>}
    OBVIOUS
  <2>1. op \notin Unsignalled \cup Look /\ op # "issue"
    BY <1>4
  <2>2. FailPlan(c, p) \in {<<>>, <<"report">>} /\ FailPlan(c, Tail(p)) \in {<<>>, <<"report">>}
    BY <1>2, <1>5
  <2> QED
    BY <1>2, <1>6, <2>1, <2>2 DEF Hears
<1> QED
  BY <1>7, <1>8, <1>9, <1>10, <1>11, <1>12, <1>13 DEF HeardPlan


LEMMA AttachUnfinal ==
    ASSUME NEW s, NEW p \in AttachPlan(s), NEW i \in DOMAIN p
    PROVE  p[i] \notin Final
<1>1. CASE s \in Memory
  <2>1. (\E r \in Replacing : p = <<r, "bind">>) \/ p = <<"bind">> \/ p = <<"unwind">>
    BY <1>1 DEF AttachPlan
  <2> QED
    BY <2>1 DEF Replacing, Final
<1>2. CASE s \notin Memory
  <2>1. CASE \E r \in Replacing : p = <<r, "account", "ask", "check">>
    BY <2>1 DEF Replacing, Final
  <2>2. CASE p = <<"account", "ask", "check">>
    BY <2>2 DEF Final
  <2>3. CASE p = <<"ask", "check">> \/ p = <<"check">>
    BY <2>3 DEF Final
  <2> QED
    BY <1>2, <2>1, <2>2, <2>3 DEF AttachPlan
<1> QED
  BY <1>1, <1>2

LEMMA CreateUnfinal ==
    ASSUME NEW p \in CreatePlan, NEW i \in DOMAIN p
    PROVE  p[i] \notin Final
BY DEF CreatePlan, Final

LEMMA RunOK ==
    ASSUME IInv, Run
    PROVE  IInv'
<1> PICK ok \in BOOLEAN :
       LET c == Head(queue).by
           op == Head(queue).op
           s == {call[c].signer}
       IN  /\ ok \/ (trouble < MaxTrouble /\ op # "release")
           /\ trouble' = IF ok THEN trouble ELSE trouble + 1
           /\ tokens' = CASE ok /\ op = "issue" -> tokens \cup {c}
                          [] ok /\ op = "release" -> tokens \ {c}
                          [] OTHER -> tokens
           /\ given' = IF op = "describe" /\ ok /\ ~call[c].cut THEN given \cup {c} ELSE given
           /\ bound' = CASE ok /\ op = "bind" -> bound \cup s
                         [] ok /\ op = "unwind" -> bound \ s
                         [] OTHER -> bound
           /\ stray' = CASE ~ok /\ op = "unwind" -> stray \cup s
                         [] ok /\ op \in {"bind", "unwind"} -> stray \ s
                         [] OTHER -> stray
           /\ finalized' = IF ok /\ op \in {"fused", "finalize"} THEN finalized + 1 ELSE finalized
           /\ binding' = IF Published(c, ok) THEN [signer |-> call[c].signer, unbind |-> "no"]
                         ELSE binding
           /\ Told(c, ok, Tail(queue))
  BY DEF Run
<1> PICK c \in Call, op \in Command :
       /\ AtHead(c, op) /\ (ok \/ op # "release")
       /\ tokens' = (IF ok /\ op = "issue" THEN tokens \cup {c}
                     ELSE IF ok /\ op = "release" THEN tokens \ {c} ELSE tokens)
       /\ given' = (IF op = "describe" /\ ok /\ ~call[c].cut THEN given \cup {c} ELSE given)
       /\ bound' = (IF ok /\ op = "bind" THEN bound \cup {call[c].signer}
                    ELSE IF ok /\ op = "unwind" THEN bound \ {call[c].signer} ELSE bound)
       /\ stray' = (IF op \in {"bind", "unwind"}
                      THEN IF ok THEN stray \ {call[c].signer}
                           ELSE IF op = "unwind" THEN stray \cup {call[c].signer} ELSE stray
                      ELSE stray)
       /\ finalized' = (IF ok /\ op \in Final THEN finalized + 1 ELSE finalized)
       /\ binding' = (IF Published(c, ok) THEN [signer |-> call[c].signer, unbind |-> "no"]
                      ELSE binding)
       /\ Told(c, ok, Tail(queue))
       /\ UNCHANGED <<assets, closing, engine>>
  <2>1. AtHead(Head(queue).by, Head(queue).op) /\ UNCHANGED <<assets, closing, engine>>
    BY DEF Run, AtHead
  <2>2. Head(queue).by \in Call /\ Head(queue).op \in Command
    BY <2>1, HeadFacts DEF IInv
  <2> DEFINE c == Head(queue).by
             op == Head(queue).op
  <2>3. tokens' = (IF ok /\ op = "issue" THEN tokens \cup {c}
                   ELSE IF ok /\ op = "release" THEN tokens \ {c} ELSE tokens)
    OBVIOUS
  <2>4. bound' = (IF ok /\ op = "bind" THEN bound \cup {call[c].signer}
                  ELSE IF ok /\ op = "unwind" THEN bound \ {call[c].signer} ELSE bound)
    OBVIOUS
  <2>5. stray' = (IF op \in {"bind", "unwind"}
                    THEN IF ok THEN stray \ {call[c].signer}
                         ELSE IF op = "unwind" THEN stray \cup {call[c].signer} ELSE stray
                    ELSE stray)
    OBVIOUS
  <2> QED
    BY <2>1, <2>2, <2>3, <2>4, <2>5 DEF Final
<1> DEFINE q == Tail(queue)
<1>1. /\ Types /\ QueueOK /\ SlotOK /\ AttachOK /\ AssetsOK /\ Ending /\ Once /\ TokensOK
      /\ BindingOK /\ SignersOK /\ engine = "open"
  BY DEF IInv, AtHead
<1>2. /\ At(c, op) /\ Live(c) /\ Head(call[c].plan) = op /\ Kept(q, c)
      /\ op \in Binding => \A j \in DOMAIN q : q[j].op # "unwind"
      /\ op = "unwind" => binding = None
  BY <1>1, HeadFacts
<1>3. PICK n : Moving(c, n, q) /\ Hears(c, op, ok, n)
  BY ToldHears
<1>4. /\ op = "bind" => n = (IF ok /\ ~call[c].cut THEN <<>> ELSE <<"unwind">>)
      /\ n = <<"unwind">> => op = "bind"
      /\ Published(c, ok) => op \in {"bind", "check"} /\ n = <<>>
      /\ op = "issue" /\ ok => n \in {<<"describe">>, <<"release">>}
      /\ op = "describe" /\ (ok = FALSE \/ call[c].cut) => n = <<"release">>
      /\ op \in Look /\ n = Tail(call[c].plan) /\ n \notin {<<>>, <<"report">>} => finalized = 0
      /\ op \in Final => n \in {<<>>, <<"report">>}
  <2>1. AtHead(c, op) /\ ok \in BOOLEAN /\ Hears(c, op, ok, n) /\ IInv
    BY <1>3
  <2>2. HeardPlan(c, op, ok, n)
    BY ONLY <2>1, HeardPlans
  <2> QED
    BY ONLY <2>2 DEF HeardPlan
<1>5. /\ \A d \in Call : d # c => call'[d] = call[d]
      /\ call'[c].plan = n /\ call'[c].does = call[c].does /\ call'[c].signer = call[c].signer
      /\ call' \in [Call -> CallRec] /\ \A d \in Call : PlanOK(call'[d])
  BY <1>1, <1>3, MovedCalls
<1>6. /\ op = "bind" =>
            call[c].does = "attach" /\ call[c].signer \in Memory /\ call[c].plan = <<"bind">>
      /\ op = "check" => call[c].does = "attach" /\ call[c].signer \notin Memory
      /\ op = "issue" => call[c].does = "create" /\ call[c].plan = <<"issue", "describe">>
      /\ op = "describe" => call[c].does = "create" /\ call[c].plan = <<"describe">>
      /\ op = "release" => call[c].plan = <<"release">>
      /\ op = "unwind" => call[c].does = "attach"
      /\ op \in Final => Tail(call[c].plan) = <<>> /\ call[c].does \notin {"attach", "create"}
      /\ call[c].does = "attach" => call[c].signer \in Signer
  BY <1>1, <1>2, HeadPlans, WhoseStep DEF At, AtAny, Binding
<1>7. op \in Binding => binding = None
  <2> SUFFICES ASSUME op \in Binding PROVE binding = None
    OBVIOUS
  <2>1. AtAny(c, Binding) /\ call[c].does = "attach"
    BY <1>1, <1>2, WhoseStep DEF At, AtAny
  <2> QED
    BY <1>1, <2>1 DEF BindingOK, AtAny
<1> HIDE DEF q
<1>8. queue' \in Seq(Entry) /\ QueueOK'
  BY <1>1, <1>3, MovedQueue
<1>9. /\ slot' \in Call \cup {None} /\ SlotOK'
      /\ attaching' \in Call \cup {None} /\ AttachOK'
      /\ \A d \in Call : d # c /\ slot = d => slot' = d
  BY <1>1, <1>3, MovedSlot
<1>10. binding' = binding \/ Publishes(c, n, q)
  <2> SUFFICES ASSUME Published(c, ok) PROVE Publishes(c, n, q)
    OBVIOUS
  <2>1. op \in Binding /\ n = <<>> /\ call[c].does = "attach"
    BY <1>4 DEF Published, Binding
  <2>2. Attaches(c) /\ AtAny(c, Binding)
    BY <1>2, <2>1 DEF Attaches, At, AtAny, Binding
  <2> QED
    BY <1>2, <2>1, <2>2 DEF Publishes
<1>11. BindingOK'
  <2>1. ~AtAny(c, Replacing)
    BY <1>2, Kinds DEF AtAny
  <2>2. n = <<"unwind">> => binding' = None
    <3>1. n = <<"unwind">> => binding' = binding /\ op \in Binding
      BY <1>4 DEF Binding
    <3> QED
      BY <1>7, <3>1
  <2>3. At(c, "account") => \A j \in DOMAIN q : q[j].op # "unwind"
    BY <1>2 DEF At, Binding
  <2> QED
    BY <1>1, <1>3, <1>10, <2>1, <2>2, <2>3, MovedBinding
<1>12. AssetsOK'
  <2>1. ~At(c, "load")
    BY <1>2, Kinds DEF At
  <2>2. ASSUME assets.phase # "idle"
        PROVE  slot' # None /\ At(slot, "load") /\ slot \in Call /\ slot' = slot /\ slot # c
    BY <1>1, <1>9, <2>1, <2>2, CallAssumption DEF AssetsOK, Types
  <2>3. assets.phase # "idle" => slot' # None /\ At(slot, "load")'
    BY <1>5, <2>2 DEF At
  <2> QED
    BY <1>1, <2>2, <2>3 DEF AssetsOK, At
<1>13. Ending'
  <2>1. closing \in {"open", "drain"}
    BY <1>1, <1>2 DEF Ending, Types
  <2> QED
    BY <1>1, <2>1 DEF Ending
<1>14. Once'
  <2>1. CASE finalized' = finalized
    <3>1. AtAny(c, Look) /\ n = Tail(call[c].plan) /\ n \notin {<<>>, <<"report">>} => finalized = 0
      BY <1>2, <1>4 DEF AtAny
    <3> QED
      BY <1>1, <1>3, <2>1, <3>1, MovedOnce
  <2>2. CASE op \in Final /\ finalized' = finalized + 1
    <3>1. finalized = 0
      <4> DEFINE p == call[c].plan
      <4>1. p \in Seq(StepName) /\ p # <<>> /\ Tail(p) = <<>>
        BY <1>1, <1>2, <1>6, <2>2 DEF Types, CallRec, Live
      <4>2. Head(p) = op
        BY <1>2
      <4> HIDE DEF p
      <4>3. DOMAIN p = {1} /\ p[1] = op
        <5>1. Len(p) = 1
          <6>1. Len(Tail(p)) = Len(p) - 1 /\ Len(p) \in Nat
            BY <4>1
          <6>2. Len(<<>>) = 0
            OBVIOUS
          <6> QED
            BY <4>1, <6>1, <6>2
        <5> QED
          BY <4>1, <4>2, <5>1
      <4>4. op \notin Look
        BY <2>2 DEF Final, Look
      <4>5. Committed(c)
        BY <2>2, <4>3, <4>4 DEF Committed, p
      <4> QED
        BY <1>1, <4>5 DEF Once
    <3>2. ASSUME NEW d \in Call, Committed(d)'
          PROVE  FALSE
      <4>1. d # c
        <5>1. \A i \in DOMAIN <<"report">> : <<"report">>[i] \notin Final
          BY DEF Final
        <5> QED
          BY <1>4, <1>5, <2>2, <3>2, <5>1 DEF Committed
      <4> DEFINE p == call[d].plan
      <4>2. /\ \E i \in DOMAIN p : p[i] \in Final
            /\ \A i \in DOMAIN p : p[i] \notin Look
        BY <1>5, <3>2, <4>1 DEF Committed
      <4>3. PlanOK(call[d]) /\ p \in Seq(StepName) /\ p # <<>> /\ Live(d)
        BY <1>1, <4>2 DEF Types, CallRec, Live
      <4>4. Looks(p)
        <5>1. CASE call[d].does = "attach"
          <6>1. p \in AttachPlan(call[d].signer)
            BY <4>3, <5>1 DEF PlanOK
          <6>2. \A i \in DOMAIN p : p[i] \notin Final
            BY <6>1, AttachUnfinal
          <6> QED
            BY <4>2, <6>2
        <5>2. CASE call[d].does = "create"
          <6>1. p \in CreatePlan
            BY <4>3, <5>2 DEF PlanOK
          <6>2. \A i \in DOMAIN p : p[i] \notin Final
            BY <6>1, CreateUnfinal
          <6> QED
            BY <4>2, <6>2
        <5>3. CASE call[d].does \notin {"attach", "create"}
          BY <4>3, <5>3 DEF PlanOK
        <5> QED
          BY <5>1, <5>2, <5>3
      <4>5. 1 \in DOMAIN p /\ p[1] = Head(p) /\ \A i \in DOMAIN p : 1 <= i
        BY <4>3
      <4>6. p[1] \in SlotHeld
        BY <4>2, <4>4, <4>5 DEF Looks
      <4>7. slot = d
        BY <1>1, <4>3, <4>5, <4>6 DEF SlotOK, AtAny
      <4>8. slot = c
        <5>1. op \in SlotHeld
          BY <2>2 DEF Final, SlotHeld
        <5> QED
          BY <1>1, <1>2, <5>1 DEF SlotOK, AtAny, At
      <4> QED
        BY <4>1, <4>7, <4>8
    <3> QED
      BY <2>2, <3>1, <3>2 DEF Once
  <2> QED
    BY <2>1, <2>2
<1>15. TokensOK'
  <2> SUFFICES ASSUME NEW d \in tokens' \ given'
               PROVE  call'[d].does = "create" /\ call'[d].plan \in {<<"describe">>, <<"release">>}
    BY DEF TokensOK
  <2>1. CASE d = c
    <3>1. CASE op = "issue" /\ ok
      BY <1>4, <1>5, <1>6, <2>1, <3>1
    <3>2. CASE ~(op = "issue" /\ ok)
      <4>1. d \in tokens \ given /\ ~(op = "release" /\ ok)
        BY <2>1, <3>2
      <4>2. call[c].does = "create" /\ call[c].plan \in {<<"describe">>, <<"release">>}
        BY <1>1, <2>1, <4>1 DEF TokensOK
      <4>3. op \in {"describe", "release"}
        <5>1. Head(<<"describe">>) = "describe" /\ Head(<<"release">>) = "release"
          OBVIOUS
        <5> QED
          BY <1>2, <4>2, <5>1
      <4>4. op = "describe" /\ (ok = FALSE \/ call[c].cut)
        BY <2>1, <4>1, <4>3
      <4> QED
        BY <1>4, <1>5, <2>1, <4>2, <4>4
    <3> QED
      BY <3>1, <3>2
  <2>2. CASE d # c
    <3>1. d \in tokens \ given /\ d \in Call
      BY <1>1, <2>2 DEF Types
    <3> QED
      BY <1>1, <1>5, <2>2, <3>1 DEF TokensOK
  <2> QED
    BY <2>1, <2>2
<1>16. binding' = binding \/ (binding = None /\ binding'.signer = call[c].signer /\ binding' # None
                              /\ binding' \in BindingRec /\ op \in {"bind", "check"} /\ ok)
  <2> SUFFICES ASSUME Published(c, ok)
               PROVE  binding = None /\ binding'.signer = call[c].signer /\ binding' # None
                      /\ binding' \in BindingRec /\ op \in {"bind", "check"} /\ ok
    OBVIOUS
  <2>1. binding' = [signer |-> call[c].signer, unbind |-> "no"]
    OBVIOUS
  <2>2. op \in {"bind", "check"} /\ ok /\ call[c].signer \in Signer
    BY <1>4, <1>6 DEF Published
  <2>3. binding' \in BindingRec /\ binding'.signer = call[c].signer
    <3>1. \A t \in Signer : [signer |-> t, unbind |-> "no"] \in BindingRec
      BY DEF BindingRec
    <3> QED
      BY ONLY <2>1, <2>2, <3>1
  <2>4. binding' # None
    BY <2>3, NoneAssumption DEF BindingRec
  <2> QED
    BY <1>7, <2>2, <2>3, <2>4 DEF Binding
<1>17. SignersOK'
  <2>1. ASSUME NEW s \in bound', closing \in {"open", "drain", "unbind"}
        PROVE  \/ binding' # None /\ binding'.signer = s
               \/ s \in stray'
               \/ \E d \in Call : call'[d].signer = s /\ At(d, "unwind")'
    <3>1. CASE s = call[c].signer /\ op = "bind"
      <4>1. CASE ok /\ ~call[c].cut
        <5>1. Published(c, ok)
          <6>1. Len(<<"bind">>) = 1
            OBVIOUS
          <6> QED
            BY <1>2, <1>6, <3>1, <4>1, <6>1 DEF Published, At
        <5>2. binding' = [signer |-> call[c].signer, unbind |-> "no"]
          BY <5>1
        <5>3. binding'.signer = s /\ binding' # None
          <6>1. binding' \in BindingRec /\ binding'.signer = s
            BY <1>6, <3>1, <5>2 DEF BindingRec, Signer
          <6> QED
            BY <6>1, NoneAssumption DEF BindingRec
        <5> QED
          BY <5>3
      <4>2. CASE ~(ok /\ ~call[c].cut)
        <5>1. n = <<"unwind">>
          BY <1>4, <3>1, <4>2
        <5>2. At(c, "unwind")'
          <6>1. <<"unwind">> # <<>> /\ Head(<<"unwind">>) = "unwind"
            OBVIOUS
          <6> QED
            BY <1>5, <5>1, <6>1 DEF At
        <5> QED
          BY <1>5, <3>1, <5>2
      <4> QED
        BY <4>1, <4>2
    <3>2. CASE s = call[c].signer /\ op = "unwind"
      <4>1. ok = FALSE
        BY <3>2
      <4> QED
        BY <3>2, <4>1
    <3>3. CASE ~(s = call[c].signer /\ op \in {"bind", "unwind"})
      <4>1. s \in bound
        BY <3>3
      <4>2. \/ binding # None /\ binding.signer = s
            \/ s \in stray
            \/ \E d \in Call : call[d].signer = s /\ At(d, "unwind")
        BY <1>1, <2>1, <4>1 DEF SignersOK
      <4>3. ASSUME NEW d \in Call, call[d].signer = s, At(d, "unwind")
            PROVE  call'[d].signer = s /\ At(d, "unwind")'
        <5>1. d # c
          BY <1>2, <3>3, <4>3 DEF At
        <5> QED
          BY <1>5, <4>3, <5>1 DEF At
      <4>4. s \in stray => s \in stray'
        BY <3>3
      <4> QED
        BY <1>16, <4>2, <4>3, <4>4
    <3> QED
      BY <3>1, <3>2, <3>3
  <2>2. binding' # None /\ binding'.signer \in Memory => binding'.signer \in bound'
    <3>1. CASE binding' = binding
      <4>1. op = "unwind" => binding = None
        BY <1>2
      <4> QED
        BY <1>1, <3>1, <4>1 DEF SignersOK
    <3>2. CASE binding'.signer = call[c].signer /\ op \in {"bind", "check"} /\ ok
      BY <1>6, <3>2
    <3> QED
      BY <1>16, <3>1, <3>2
  <2> QED
    BY <2>1, <2>2 DEF SignersOK
<1>18. Types'
  <2>1. tokens' \subseteq Call /\ given' \subseteq Call
    BY <1>1 DEF Types
  <2>2. bound' \subseteq Memory
    BY <1>1, <1>6 DEF Types
  <2>3. finalized' \in Nat /\ binding' \in BindingRec \cup {None}
    BY <1>1, <1>16 DEF Types
  <2> QED
    BY <1>1, <1>5, <1>8, <1>9, <2>1, <2>2, <2>3 DEF Types
<1> QED
  BY <1>8, <1>9, <1>11, <1>12, <1>13, <1>14, <1>15, <1>17, <1>18 DEF IInv


-----------------------------------------------------------------------------
(* The invariant, and what follows from it *)

LEMMA InitOK ==
    ASSUME Init
    PROVE  IInv
<1>1. /\ \A c \in Call : /\ call[c].plan = <<>> /\ call[c].does = "nothing"
                         /\ call[c] \in CallRec /\ DOMAIN call[c].plan = {}
      /\ call \in [Call -> CallRec]
      /\ queue \in Seq(Entry) /\ DOMAIN queue = {} /\ queue = <<>>
  BY DEF Init, CallRec, Method
<1>2. Types
  <2>1. \A c \in Call : PlanOK(call[c])
    BY <1>1 DEF PlanOK
  <2>2. assets \in [memory : SUBSET Asset, asset : 0..2, phase : {"idle", "ask", "hash"},
                    life : {"open", "closing", "closed"}]
    BY DEF Init
  <2>3. /\ attaching = None /\ binding = None /\ slot = None /\ engine = "open" /\ closing = "open"
        /\ tokens = {} /\ given = {} /\ bound = {} /\ finalized = 0
    BY DEF Init
  <2> QED
    BY <1>1, <2>1, <2>2, <2>3 DEF Types
<1>3. QueueOK /\ SlotOK /\ AttachOK
  BY <1>1 DEF Init, QueueOK, SlotOK, AttachOK, Attaches, AtAny, Live
<1>4. AssetsOK /\ Ending /\ Once /\ TokensOK
  BY <1>1 DEF Init, AssetsOK, Ending, Once, Committed, TokensOK
<1>5. BindingOK /\ SignersOK
  BY <1>1 DEF Init, BindingOK, SignersOK, AtAny
<1> QED
  BY <1>2, <1>3, <1>4, <1>5 DEF IInv

LEMMA SameOK ==
    ASSUME IInv, UNCHANGED vars
    PROVE  IInv'
<1>1. /\ Types /\ UNCHANGED <<call, attaching, slot, binding, queue, engine, signers, finalized>>
      /\ UNCHANGED <<assets, closing>>
  BY DEF IInv, vars, native
<1>2. AllAlike /\ \A d \in Call : call[d].does = "attach" /\ At(d, "replaced")' => binding = None
  BY <1>1, SameCalls DEF IInv, BindingOK, AtAny, At
<1>3. AssetsType' /\ AssetsOK'
  BY <1>1, <1>2, AllAlikeFacts DEF IInv, Types, AssetsType
<1>4. Ending'
  BY <1>1 DEF IInv, Ending, Live
<1> QED
  BY <1>1, <1>2, <1>3, <1>4, AlikeMoves DEF Types

LEMMA StepOK ==
    ASSUME IInv, [Next]_vars
    PROVE  IInv'
<1>1. ASSUME NEW c \in Call, Begin(c) PROVE IInv'
  BY <1>1, BeginOK
<1>2. ASSUME NEW c \in Call, Abort(c) PROVE IInv'
  BY <1>2, AbortOK
<1>3. ASSUME NEW c \in Call, Answered(c) PROVE IInv'
  BY <1>3, AnsweredOK
<1>4. ASSUME NEW c \in Call, CallStep(c) PROVE IInv'
  <2>1. CASE Interrupted(c)
    BY <2>1, InterruptedOK
  <2>2. CASE Rejected(c)
    BY <2>2, RejectedOK
  <2>3. CASE Replace(c)
    <3>1. CASE binding = None
      <4>1. /\ At(c, "replace") /\ binding = None /\ Goes(c, Tail(call[c].plan), queue)
            /\ UNCHANGED <<binding, assets, closing, engine, signers, finalized>>
        BY <2>3, <3>1 DEF Replace
      <4> QED
        BY <4>1, ReplacedOK
    <3>2. CASE binding # None
      BY <2>3, <3>2, ReplaceOK
    <3> QED
      BY <3>1, <3>2
  <2>4. CASE Replaced(c)
    BY <2>4, ReplacedOK
  <2> QED
    BY <1>4, <2>1, <2>2, <2>3, <2>4 DEF CallStep
<1>5. ASSUME NEW c \in Call, Loaded(c) \/ LoadStep(c) PROVE IInv'
  BY <1>5, LoadsOK DEF LoadStep
<1>6. CASE EngineStep
  BY <1>6, RunOK, UnbindOK, UnbindLostOK DEF EngineStep
<1>7. CASE Crash
  BY <1>7, CrashOK
<1>8. CASE DisposeBinding
  BY <1>8, DisposeBindingOK
<1>9. CASE Close
  BY <1>9, AbortOK
<1>10. CASE CloseStep
  BY <1>10, CloseAccountsOK, CloseWalletOK, CloseAssetsOK DEF CloseStep
<1>11. CASE Rest \/ UNCHANGED vars
  BY <1>11, SameOK DEF Rest
<1> QED
  BY <1>1, <1>2, <1>3, <1>4, <1>5, <1>6, <1>7, <1>8, <1>9, <1>10, <1>11 DEF Next

LEMMA Invariance == Spec => []IInv
<1>1. Init => IInv
  BY InitOK
<1>2. IInv /\ [Next]_vars => IInv'
  BY StepOK
<1> QED
  BY <1>1, <1>2, PTL DEF Spec

\* However many payments and explicit finalizations overlap, whatever their callers
\* abort and whichever commands fail, the engine finalizes the operation at most once
\* (execute.ts, proposals.ts): a plan that will finalize without looking again has the
\* proof slot, and none has it once the operation is finalized.
THEOREM OneFinalization == Spec => []FinalizedOnce
<1>1. IInv => FinalizedOnce
  BY DEF IInv, Once, FinalizedOnce
<1> QED
  BY <1>1, Invariance, PTL

\* While the engine runs and the wallet is not closed, its signers are those the client
\* knows of: every token is the caller's or its call's, every bound signer is published,
\* being unbound, or refused to be, and a published mnemonic signer is bound
\* (accounts.ts, mnemonic.ts, memory-signer.ts).
THEOREM SignersAreExact == Spec => []SignersExact
<1>1. IInv => SignersExact
  <2> SUFFICES ASSUME IInv, engine = "open", closing \in {"open", "drain", "unbind"}
               PROVE  /\ \A c \in tokens : c \in given \/ Live(c)
                      /\ \A s \in bound :
                            \/ binding # None /\ binding.signer = s
                            \/ s \in stray
                            \/ \E c \in Call : call[c].signer = s /\ At(c, "unwind")
                      /\ binding # None /\ binding.signer \in Memory /\ binding.unbind # "asked" =>
                            binding.signer \in bound
    BY DEF SignersExact
  <2>1. \A c \in tokens : c \in given \/ Live(c)
    BY DEF IInv, TokensOK, Live
  <2> QED
    BY <2>1 DEF IInv, SignersOK
<1> QED
  BY <1>1, Invariance, PTL

\* The proof slot and the place of the attachment belong to a call that is at a step of
\* theirs, an asset loads for the call with the slot, and close() resolves when no call
\* runs, no signer is attached, the slot is free and no asset is kept (wallet.ts).
THEOREM NothingIsHeld == Spec => []NothingHeld
<1>1. IInv => NothingHeld
  <2> SUFFICES ASSUME IInv PROVE NothingHeld
    OBVIOUS
  <2>1. slot # None => AtAny(slot, SlotHeld)
    BY DEF IInv, SlotOK
  <2>2. assets.phase # "idle" => slot # None /\ At(slot, "load")
    BY DEF IInv, AssetsOK
  <2>3. attaching # None => Live(attaching) /\ call[attaching].does = "attach"
    BY DEF IInv, AttachOK, Attaches
  <2>4. ASSUME closing = "closed"
        PROVE  /\ \A c \in Call : ~Live(c)
               /\ binding = None /\ slot = None /\ assets.memory = {}
    <3>1. (\A c \in Call : ~Live(c)) /\ binding = None /\ assets.life = "closed"
      BY <2>4 DEF IInv, Ending
    <3>2. slot = None
      BY <2>1, <3>1 DEF IInv, Types, AtAny, Live
    <3>3. assets.memory = {}
      BY <3>1 DEF IInv, AssetsOK
    <3> QED
      BY <3>1, <3>2, <3>3
  <2> QED
    BY <2>1, <2>2, <2>3, <2>4 DEF NothingHeld
<1> QED
  BY <1>1, Invariance, PTL
=============================================================================
