----------------------- MODULE PaymentRecoveryProofs ------------------------
(***************************************************************************)
(* Proofs about PaymentRecovery: for any journal, page size, position and  *)
(* policy, and any sequence of failures, crashes and reopenings, a wallet  *)
(* is ready only after every recorded operation was reconciled, and its    *)
(* report says exactly what was observed.                                  *)
(*                                                                         *)
(* The argument is about what is still to be read.  A page holds the first *)
(* rows of what is left of its range (Front), so taking its first row      *)
(* skips none; the ranges of the network pass do not overlap, so no row is *)
(* seen twice; and a row leaves them only to be observed, unless the pass  *)
(* has failed.                                                             *)
(***************************************************************************)
EXTENDS PaymentRecovery, FiniteSetTheorems, WellFoundedInduction, TLAPS

Row == 1..MaxRow
Span == [after : 0..MaxRow, high : 0..MaxRow]

Types ==
    /\ rows \in SUBSET Row /\ position \in 0..MaxRow
    /\ budget \in [Candidate -> 0..MaxAttempts]
    /\ phase \in {"closed", "local", "online", "ready", "failed"}
    /\ scan \in [high : 0..MaxRow, page : SUBSET Row, ranges : Seq(Span), row : 0..MaxRow]
    /\ stage \in {"rows", "observe", "rebroadcast", "dispatch", "position"}
    /\ report \in [operations : Nat, candidates : Nat, observed : Nat, failed : BOOLEAN]
    /\ expired \in BOOLEAN /\ aborted \in BOOLEAN /\ trouble \in 0..MaxTrouble
    /\ reconciled \in SUBSET Row /\ seen \in SUBSET Row

\* The session stays within the captured inventory, and its report counts.
Bounds ==
    /\ scan.high \in rows \cup {0}
    /\ scan.page \subseteq Captured /\ scan.row \in Captured \cup {0}
    /\ \A i \in DOMAIN scan.ranges :
          scan.ranges[i].after <= scan.high /\ scan.ranges[i].high <= scan.high
    /\ reconciled \subseteq Captured /\ seen \subseteq reconciled \cap Candidate
    /\ report.operations = Cardinality(reconciled)
    /\ report.candidates = Cardinality(reconciled \cap Candidate)
    /\ report.observed = Cardinality(seen)

\* The page P holds the first of the rows that are left, and some as long as there are any.
Front(P, left) == P \subseteq left /\ \A p \in P, q \in left \ P : p < q

Closed ==
    phase = "closed" => /\ scan = NoScan /\ report = NoReport /\ stage = "rows"
                        /\ reconciled = {} /\ seen = {}

\* The local pass reconciles the rows in their order.
Unreconciled == Captured \ reconciled
Local ==
    phase = "local" =>
        /\ Front(scan.page, Unreconciled)
        /\ scan.page = {} => Unreconciled = {}
        /\ \A r \in reconciled, q \in Unreconciled : r < q
        /\ seen = {} /\ ~report.failed /\ stage = "rows"

\* What is left of a range, and of all.
Region(i) == {r \in Captured : scan.ranges[i].after < r /\ r <= scan.ranges[i].high}
Left(r) == \E i \in DOMAIN scan.ranges : r \in Region(i)

\* The network pass: every row with a transaction is left, in progress or seen, unless the
\* pass has failed.
Network ==
    phase = "online" =>
        /\ reconciled = Captured
        /\ scan.page # {} => scan.ranges # <<>> /\ Front(scan.page, Region(1))
        /\ \A i, j \in DOMAIN scan.ranges :
              i < j => scan.ranges[j].high <= scan.ranges[i].after
        /\ \A r \in seen : ~Left(r)
        /\ stage = "observe" => scan.row \notin seen /\ ~Left(scan.row)
        /\ stage \in {"observe", "rebroadcast", "dispatch"} =>
              ~report.failed /\ scan.row \in Candidate
        /\ stage # "rows" => scan.row \in Captured
        /\ report.failed \/ \A r \in Captured \cap Candidate :
              Left(r) \/ r \in seen \/ (stage = "observe" /\ r = scan.row)

Ready ==
    phase = "ready" =>
        /\ reconciled = Captured
        /\ Online /\ report.observed < report.candidates => report.failed

IInv == Types /\ Bounds /\ Closed /\ Local /\ Network /\ Ready
-----------------------------------------------------------------------------
(* Pages *)

\* A finite set of numbers has a least one: the sets of what is below its members cannot
\* get smaller forever.
LEMMA Least ==
  ASSUME NEW S \in SUBSET Nat, S # {}, IsFiniteSet(S)
  PROVE  \E m \in S : \A n \in S : m <= n
<1> DEFINE Below(m) == {s \in S : s < m}
           T == {Below(m) : m \in S}
<1>1. T # {} /\ T \subseteq FiniteSubsetsOf(S)
  <2>1. ASSUME NEW m \in S PROVE Below(m) \in FiniteSubsetsOf(S)
    <3>1. Below(m) \subseteq S
      OBVIOUS
    <3> QED
      BY <3>1, FS_Subset DEF FiniteSubsetsOf
  <2> QED
    BY <2>1
<1>2. PICK x \in T : \A y \in T : <<y, x>> \notin StrictSubsetOrdering(S)
  BY <1>1, WFMin, FS_StrictSubsetOrderingWellFounded
<1>3. PICK m \in S : x = Below(m)
  OBVIOUS
<1>4. ASSUME NEW n \in S, n < m PROVE FALSE
  <2>1. n \in Below(m) /\ n \notin Below(n) /\ Below(n) \subseteq Below(m)
    <3>1. n \in Nat /\ m \in Nat /\ \A s \in S : s \in Nat
      OBVIOUS
    <3>2. n \in Below(m) /\ n \notin Below(n)
      BY <1>4, <3>1
    <3>3. ASSUME NEW s \in S, s < n PROVE s < m
      BY <1>4, <3>1, <3>3
    <3> QED
      BY <3>2, <3>3
  <2>2. <<Below(n), Below(m)>> \in StrictSubsetOrdering(S)
    BY <2>1 DEF StrictSubsetOrdering
  <2> QED
    BY <1>2, <1>3, <2>2
<1> QED
  BY <1>4

\* The rows are finite, and so is what is counted of them.
LEMMA Counting ==
    ASSUME NEW S \in SUBSET Row
    PROVE  IsFiniteSet(S) /\ Cardinality(S) \in 0..MaxRow
<1>1. IsFiniteSet(Row) /\ Cardinality(Row) = MaxRow
  BY RowAssumption, FS_Interval DEF Row
<1> QED
  BY <1>1, FS_Subset, FS_CardinalityType, RowAssumption

\* A page holds the first rows of its range, and some if there are any.
LEMMA PageIsFront ==
    ASSUME Types, NEW from \in Nat, NEW to \in Nat
    PROVE  /\ Front(Page(from, to), {r \in rows : from < r /\ r <= to})
           /\ Page(from, to) = {} => {r \in rows : from < r /\ r <= to} = {}
<1> DEFINE S == {r \in rows : from < r /\ r <= to}
           Between(r) == {s \in rows : from < s /\ s < r}
<1>1. IsFiniteSet(rows) /\ rows \subseteq Nat
  BY Counting DEF Types, Row
<1>2. ASSUME NEW r \in rows
      PROVE  IsFiniteSet(Between(r)) /\ Cardinality(Between(r)) \in Nat
  <2>1. Between(r) \subseteq rows
    OBVIOUS
  <2> QED
    BY <1>1, <2>1, FS_Subset, FS_CardinalityType
<1>3. ASSUME NEW p \in Page(from, to), NEW q \in S \ Page(from, to)
      PROVE  p < q
  <2>1. p \in rows /\ q \in rows /\ p \in Nat /\ q \in Nat
    BY <1>1 DEF Page
  <2>2. SUFFICES ASSUME q <= p PROVE FALSE
    BY <2>1
  <2>3. Between(q) \subseteq Between(p)
    <3>1. ASSUME NEW s \in rows, s < q PROVE s < p
      BY <1>1, <2>1, <2>2, <3>1
    <3> QED
      BY <3>1
  <2>4. Cardinality(Between(q)) <= Cardinality(Between(p))
    BY <1>2, <2>1, <2>3, FS_Subset
  <2>5. Cardinality(Between(p)) < PageLimit
    BY DEF Page
  <2>6. Cardinality(Between(q)) < PageLimit
    BY <1>2, <2>1, <2>4, <2>5, PageAssumption
  <2> QED
    BY <2>6 DEF Page
<1>4. ASSUME S # {} PROVE Page(from, to) # {}
  <2>1. S \in SUBSET Nat /\ IsFiniteSet(S)
    <3>1. S \subseteq rows
      OBVIOUS
    <3> QED
      BY <1>1, <3>1, FS_Subset
  <2>2. PICK m \in S : \A n \in S : m <= n
    BY <1>4, <2>1, Least
  <2>3. Between(m) = {}
    <3>1. ASSUME NEW s \in Between(m) PROVE FALSE
      <4>1. s \in Nat /\ m \in Nat /\ from < s /\ s < m /\ m <= to /\ s \in rows
        BY <1>1
      <4>2. s \in S
        BY <4>1
      <4> QED
        BY <2>2, <4>1, <4>2
    <3> QED
      BY <3>1
  <2>4. Cardinality(Between(m)) < PageLimit
    BY <2>3, FS_EmptySet, PageAssumption
  <2>5. m \in Page(from, to)
    BY <2>4 DEF Page
  <2> QED
    BY <2>5
<1>5. Page(from, to) \subseteq S
  BY DEF Page
<1> QED
  BY <1>3, <1>4, <1>5 DEF Front

\* Taking the first row of a page skips no row of what is left.
LEMMA FirstIsLeast ==
    ASSUME NEW S \in SUBSET Nat, NEW P, Front(P, S), NEW r, IsFirst(r, P)
    PROVE  /\ \A q \in S \ {r} : r < q
           /\ Front(P \ {r}, S \ {r})
           /\ r \in S
<1>1. r \in P /\ P \subseteq S /\ r \in Nat /\ \A s \in S : s \in Nat
  BY DEF Front, IsFirst
<1>2. ASSUME NEW q \in S \ {r} PROVE r < q
  <2>1. CASE q \in P
    BY <1>1, <2>1 DEF IsFirst
  <2>2. CASE q \notin P
    BY <1>1, <2>2 DEF Front
  <2> QED
    BY <2>1, <2>2
<1> QED
  BY <1>1, <1>2 DEF Front

\* Nothing is read and nothing recorded.
LEMMA SameRows ==
    ASSUME UNCHANGED <<rows, scan>>
    PROVE  /\ Captured' = Captured
           /\ \A i : Region(i)' = Region(i)
           /\ \A r : Left(r)' = Left(r)
BY DEF Captured, Region, Left

-----------------------------------------------------------------------------
(* The local pass *)

LEMMA Opens == ASSUME IInv, Open PROVE IInv'
<1>1. PICK high \in rows \cup {0} :
         /\ \A r \in rows : r <= high
         /\ scan' = [scan EXCEPT !.high = high, !.page = Page(0, high)]
  BY DEF Open
<1>2. /\ scan = NoScan /\ report = NoReport /\ stage = "rows" /\ reconciled = {} /\ seen = {}
      /\ phase' = "local" /\ UNCHANGED <<journal, stage, report, signals, trouble, history>>
  BY DEF IInv, Closed, Open
<1>3. high \in 0..MaxRow /\ Page(0, high) \in SUBSET Row /\ rows \subseteq Row
  <2>1. rows \subseteq Row
    BY DEF IInv, Types
  <2>2. Page(0, high) \subseteq rows
    BY DEF Page
  <2>3. 0 \in 0..MaxRow /\ \A r \in Row : r \in 0..MaxRow
    BY RowAssumption DEF Row
  <2> QED
    BY <1>1, <2>1, <2>2, <2>3
<1>4. scan' = [high |-> high, page |-> Page(0, high), ranges |-> <<>>, row |-> 0]
  BY <1>1, <1>2 DEF NoScan
<1>5. <<>> \in Seq(Span) /\ 0 \in 0..MaxRow
  BY RowAssumption
<1>6. Types'
  BY <1>2, <1>3, <1>4, <1>5 DEF IInv, Types, journal, signals, history
<1>7. Captured' = {r \in rows : 0 < r /\ r <= high} /\ Unreconciled' = Captured'
  <2>1. \A r \in rows : 0 < r
    BY <1>3 DEF Row
  <2>2. Captured' = {r \in rows : r <= high}
    BY <1>2, <1>4 DEF Captured, journal
  <2>3. {r \in rows : r <= high} = {r \in rows : 0 < r /\ r <= high}
    BY <2>1
  <2>4. reconciled' = {}
    BY <1>2 DEF history
  <2> QED
    BY <2>2, <2>3, <2>4 DEF Unreconciled
<1>8. /\ Front(Page(0, high), Captured')
      /\ Page(0, high) = {} => Captured' = {}
  BY <1>3, <1>7, PageIsFront DEF IInv
<1>9. Local'
  BY <1>2, <1>4, <1>7, <1>8 DEF Local, Front, Unreconciled, NoReport, history
<1>10. Bounds'
  <2>1. Page(0, high) \subseteq Captured'
    BY <1>8 DEF Front
  <2> QED
    BY <1>2, <1>4, <2>1, FS_EmptySet DEF Bounds, NoReport, journal, history
<1> QED
  BY <1>2, <1>6, <1>9, <1>10 DEF IInv, Closed, Network, Ready

LEMMA Reconciles == ASSUME IInv, Reconcile PROVE IInv'
<1>1. PICK r \in scan.page :
         /\ IsFirst(r, scan.page)
         /\ scan' = [scan EXCEPT !.page = NextPage(r)]
         /\ report' = [report EXCEPT !.operations = @ + 1,
                                     !.candidates = IF r \in Candidate THEN @ + 1 ELSE @]
         /\ reconciled' = reconciled \cup {r}
  BY DEF Reconcile
<1>2. /\ phase = "local" /\ phase' = "local" /\ Front(scan.page, Unreconciled)
      /\ \A x \in reconciled, q \in Unreconciled : x < q
      /\ seen = {} /\ ~report.failed /\ stage = "rows"
      /\ UNCHANGED <<journal, phase, stage, signals, trouble, seen>>
  BY DEF IInv, Local, Reconcile
<1>3. /\ scan \in [high : 0..MaxRow, page : SUBSET Row, ranges : Seq(Span), row : 0..MaxRow]
      /\ rows \subseteq Row /\ Captured \subseteq rows /\ Unreconciled \subseteq Captured
      /\ Row \subseteq Nat /\ reconciled \subseteq Captured
  BY DEF IInv, Types, Bounds, Captured, Unreconciled, Row
<1>4. /\ \A q \in Unreconciled \ {r} : r < q
      /\ Front(scan.page \ {r}, Unreconciled \ {r})
      /\ r \in Unreconciled
  <2>1. Unreconciled \in SUBSET Nat
    BY <1>3
  <2> QED
    BY <1>1, <1>2, <2>1, FirstIsLeast
<1>5. /\ Front(NextPage(r), Unreconciled \ {r})
      /\ NextPage(r) = {} => Unreconciled \ {r} = {}
  <2>1. CASE scan.page = {r}
    <3>1. {s \in rows : r < s /\ s <= scan.high} = Unreconciled \ {r}
      <4>1. ASSUME NEW s \in rows, r < s, s <= scan.high PROVE s \in Unreconciled \ {r}
        <5>1. s \in Captured /\ s \in Nat /\ r \in Nat
          BY <1>3, <1>4, <4>1 DEF Captured
        <5>2. s \notin reconciled
          BY <1>2, <1>4, <4>1, <5>1
        <5> QED
          BY <4>1, <5>1, <5>2 DEF Unreconciled
      <4>2. ASSUME NEW s \in Unreconciled \ {r} PROVE s \in rows /\ r < s /\ s <= scan.high
        BY <1>4, <4>2 DEF Unreconciled, Captured
      <4> QED
        BY <4>1, <4>2
    <3>2. NextPage(r) = Page(r, scan.high)
      BY <2>1 DEF NextPage
    <3>3. r \in Nat /\ scan.high \in Nat /\ Types
      BY <1>3, <1>4 DEF IInv
    <3> QED
      BY <3>1, <3>2, <3>3, PageIsFront
  <2>2. CASE scan.page # {r}
    BY <1>1, <1>4, <2>2 DEF NextPage
  <2> QED
    BY <2>1, <2>2
<1>6. NextPage(r) \subseteq Captured /\ NextPage(r) \in SUBSET Row
  BY <1>3, <1>5 DEF Front
<1>7. /\ scan' \in [high : 0..MaxRow, page : SUBSET Row, ranges : Seq(Span), row : 0..MaxRow]
      /\ scan'.page = NextPage(r) /\ scan'.high = scan.high
      /\ scan'.ranges = scan.ranges /\ scan'.row = scan.row
  BY <1>1, <1>3, <1>6
<1>8. /\ report' \in [operations : Nat, candidates : Nat, observed : Nat, failed : BOOLEAN]
      /\ report'.operations = report.operations + 1
      /\ report'.candidates = report.candidates + (IF r \in Candidate THEN 1 ELSE 0)
      /\ report'.observed = report.observed /\ report'.failed = report.failed
  <2>1. report \in [operations : Nat, candidates : Nat, observed : Nat, failed : BOOLEAN]
    BY DEF IInv, Types
  <2>2. report.operations + 1 \in Nat
        /\ (IF r \in Candidate THEN report.candidates + 1 ELSE report.candidates) \in Nat
    BY <2>1
  <2>3. report' = [report EXCEPT !.operations = report.operations + 1,
                     !.candidates = IF r \in Candidate THEN report.candidates + 1
                                                       ELSE report.candidates]
    BY <1>1, <2>1
  <2>4. report' \in [operations : Nat, candidates : Nat, observed : Nat, failed : BOOLEAN]
    BY <2>1, <2>2, <2>3
  <2>5. /\ report'.operations = report.operations + 1
        /\ report'.candidates = IF r \in Candidate THEN report.candidates + 1
                                                   ELSE report.candidates
        /\ report'.observed = report.observed /\ report'.failed = report.failed
    BY <2>1, <2>3
  <2> QED
    BY <2>1, <2>4, <2>5
<1>9. Types'
  BY <1>1, <1>2, <1>3, <1>4, <1>7, <1>8 DEF IInv, Types, journal, signals
<1>10. Captured' = Captured /\ Unreconciled' = Unreconciled \ {r}
  BY <1>1, <1>2, <1>7 DEF Captured, Unreconciled, journal
<1>11. Bounds'
  <2>1. r \in Captured /\ r \notin reconciled /\ r \notin reconciled \cap Candidate
    BY <1>4 DEF Unreconciled
  <2>2. IsFiniteSet(reconciled) /\ IsFiniteSet(reconciled \cap Candidate)
    BY <1>3, Counting
  <2>3. Cardinality(reconciled') = Cardinality(reconciled) + 1
    BY <1>1, <2>1, <2>2, FS_AddElement
  <2>4. Cardinality(reconciled' \cap Candidate)
          = Cardinality(reconciled \cap Candidate) + (IF r \in Candidate THEN 1 ELSE 0)
    <3>1. CASE r \in Candidate
      <4>1. reconciled' \cap Candidate = (reconciled \cap Candidate) \cup {r}
        BY <1>1, <3>1
      <4> QED
        BY <2>1, <2>2, <3>1, <4>1, FS_AddElement
    <3>2. CASE r \notin Candidate
      <4>1. reconciled' \cap Candidate = reconciled \cap Candidate
        BY <1>1, <3>2
      <4>2. Cardinality(reconciled \cap Candidate) \in Nat
        BY <2>2, FS_CardinalityType
      <4> QED
        BY <3>2, <4>1, <4>2
    <3> QED
      BY <3>1, <3>2
  <2>5. reconciled' \subseteq Captured /\ seen' \subseteq reconciled' \cap Candidate
    BY <1>1, <1>2, <1>3, <2>1
  <2>6. Bounds
    BY DEF IInv
  <2> QED
    BY <1>2, <1>6, <1>7, <1>8, <1>10, <2>3, <2>4, <2>5, <2>6 DEF Bounds, journal
<1>12. Local'
  BY <1>1, <1>2, <1>4, <1>5, <1>7, <1>8, <1>10 DEF Local
<1> QED
  BY <1>2, <1>9, <1>11, <1>12 DEF IInv, Closed, Network, Ready

\* The ranges of the network pass: behind the position, then around to it.
LEMMA RangesCover ==
    ASSUME Types
    PROVE  /\ Ranges \in Seq(Span)
           /\ \A i \in DOMAIN Ranges : Ranges[i].after <= scan.high /\ Ranges[i].high <= scan.high
           /\ \A i, j \in DOMAIN Ranges : i < j => Ranges[j].high <= Ranges[i].after
           /\ \A r \in Row : r <= scan.high =>
                 \E i \in DOMAIN Ranges : Ranges[i].after < r /\ r <= Ranges[i].high
<1>1. PICK pivot \in 0..MaxRow :
         pivot <= scan.high /\ Ranges = Around(pivot, scan.high, pivot)
  <2>1. position \in 0..MaxRow /\ scan.high \in 0..MaxRow
    BY DEF Types
  <2>2. Ranges = Around(IF position > scan.high THEN 0 ELSE position, scan.high,
                        IF position > scan.high THEN 0 ELSE position)
    BY DEF Ranges
  <2>3. CASE position > scan.high
    BY <2>1, <2>2, <2>3, RowAssumption
  <2>4. CASE ~(position > scan.high)
    BY <2>1, <2>2, <2>4
  <2> QED
    BY <2>3, <2>4
<1>2. scan.high \in 0..MaxRow
  BY DEF Types
<1> DEFINE first == [after |-> pivot, high |-> scan.high]
           second == [after |-> 0, high |-> pivot]
<1>3. first \in Span /\ second \in Span
  BY <1>2, RowAssumption DEF Span
<1>4. CASE pivot < scan.high /\ 0 < pivot
  <2>1. Ranges = <<first>> \o <<second>>
    BY <1>1, <1>4 DEF Around
  <2>2. /\ Ranges \in Seq(Span) /\ DOMAIN Ranges = 1..2
        /\ Ranges[1] = first /\ Ranges[2] = second
    BY <1>3, <2>1
  <2>3. \A i \in DOMAIN Ranges : Ranges[i].after <= scan.high /\ Ranges[i].high <= scan.high
    BY <1>1, <1>2, <2>2
  <2>4. \A i, j \in DOMAIN Ranges : i < j => Ranges[j].high <= Ranges[i].after
    BY <1>1, <1>2, <2>2
  <2>5. ASSUME NEW r \in Row, r <= scan.high
        PROVE  \E i \in DOMAIN Ranges : Ranges[i].after < r /\ r <= Ranges[i].high
    <3>1. r \in Nat /\ 0 < r
      BY DEF Row
    <3>2. CASE r <= pivot
      BY <2>2, <3>1, <3>2
    <3>3. CASE ~(r <= pivot)
      BY <1>1, <2>2, <2>5, <3>1, <3>3
    <3> QED
      BY <3>2, <3>3
  <2> QED
    BY <2>2, <2>3, <2>4, <2>5
<1>5. CASE pivot < scan.high /\ ~(0 < pivot)
  <2>1. Ranges = <<first>> /\ pivot = 0
    BY <1>1, <1>5 DEF Around
  <2> QED
    BY <1>1, <1>2, <1>3, <2>1 DEF Row
<1>6. CASE ~(pivot < scan.high) /\ 0 < pivot
  <2>1. Ranges = <<second>> /\ pivot = scan.high
    BY <1>1, <1>2, <1>6 DEF Around
  <2> QED
    BY <1>1, <1>2, <1>3, <2>1 DEF Row
<1>7. CASE ~(pivot < scan.high) /\ ~(0 < pivot)
  <2>1. Ranges = <<>> /\ scan.high = 0
    BY <1>1, <1>2, <1>7 DEF Around
  <2> QED
    BY <2>1 DEF Row
<1> QED
  BY <1>4, <1>5, <1>6, <1>7

LEMMA LocalEnds == ASSUME IInv, LocalDone PROVE IInv'
<1>1. /\ phase = "local" /\ scan.page = {} /\ reconciled = Captured /\ seen = {}
      /\ ~report.failed /\ stage = "rows"
      /\ UNCHANGED <<journal, stage, report, signals, trouble, history>>
  BY DEF IInv, Local, LocalDone, Unreconciled, Bounds
<1>2. CASE Online /\ report.candidates > 0
  <2>1. phase' = "online" /\ scan' = [scan EXCEPT !.ranges = Ranges]
    BY <1>2 DEF LocalDone
  <2>2. scan \in [high : 0..MaxRow, page : SUBSET Row, ranges : Seq(Span), row : 0..MaxRow]
    BY DEF IInv, Types
  <2>3. /\ Ranges \in Seq(Span)
        /\ \A i \in DOMAIN Ranges : Ranges[i].after <= scan.high /\ Ranges[i].high <= scan.high
        /\ \A i, j \in DOMAIN Ranges : i < j => Ranges[j].high <= Ranges[i].after
        /\ \A r \in Row : r <= scan.high =>
              \E i \in DOMAIN Ranges : Ranges[i].after < r /\ r <= Ranges[i].high
    BY RangesCover DEF IInv
  <2>4. /\ scan' \in [high : 0..MaxRow, page : SUBSET Row, ranges : Seq(Span), row : 0..MaxRow]
        /\ scan'.high = scan.high /\ scan'.page = {} /\ scan'.ranges = Ranges
        /\ scan'.row = scan.row
    BY <1>1, <2>1, <2>2, <2>3
  <2>5. Captured' = Captured
    BY <1>1, <2>4 DEF Captured, journal
  <2>6. Types'
    BY <1>1, <2>1, <2>4 DEF IInv, Types, journal, signals, history
  <2>7. Bounds'
    BY <1>1, <2>3, <2>4, <2>5 DEF IInv, Bounds, journal, history
  <2>8. \A r \in Captured : Left(r)'
    <3>1. ASSUME NEW r \in Captured PROVE Left(r)'
      <4>1. r \in Row /\ r <= scan.high
        BY DEF Captured, IInv, Types
      <4>2. PICK i \in DOMAIN Ranges : Ranges[i].after < r /\ r <= Ranges[i].high
        BY <2>3, <4>1
      <4> QED
        BY <2>4, <2>5, <4>2 DEF Left, Region
    <3> QED
      BY <3>1
  <2>9. Network'
    BY <1>1, <2>3, <2>4, <2>5, <2>8 DEF Network, history
  <2> QED
    BY <2>1, <2>6, <2>7, <2>9 DEF IInv, Closed, Local, Ready
<1>3. CASE ~(Online /\ report.candidates > 0)
  <2>1. phase' = "ready" /\ UNCHANGED scan
    BY <1>3 DEF LocalDone
  <2>2. Captured' = Captured
    BY <1>1, <2>1 DEF Captured, journal
  <2>3. Types'
    BY <1>1, <2>1 DEF IInv, Types, journal, signals, history
  <2>4. Bounds'
    BY <1>1, <2>1, <2>2 DEF IInv, Bounds, journal, history
  <2>5. Online => ~(report.observed < report.candidates)
    BY <1>3 DEF IInv, Types
  <2>6. Ready'
    BY <1>1, <2>2, <2>5 DEF Ready, history
  <2> QED
    BY <2>1, <2>3, <2>4, <2>6 DEF IInv, Closed, Local, Network
<1> QED
  BY <1>2, <1>3

-----------------------------------------------------------------------------
(* The network pass *)

\* What the network pass knows, with the scan in its parts.
LEMMA Scanning ==
    ASSUME IInv
    PROVE  /\ scan \in [high : 0..MaxRow, page : SUBSET Row, ranges : Seq(Span), row : 0..MaxRow]
           /\ rows \subseteq Row /\ Captured \subseteq rows /\ Row \subseteq Nat
           /\ DOMAIN scan.ranges = 1..Len(scan.ranges) /\ Len(scan.ranges) \in Nat
           /\ \A i \in DOMAIN scan.ranges :
                 /\ scan.ranges[i] \in Span
                 /\ scan.ranges[i].after \in Nat /\ scan.ranges[i].high \in Nat
                 /\ Region(i) = {r \in rows : scan.ranges[i].after < r
                                           /\ r <= scan.ranges[i].high}
<1>1. /\ scan \in [high : 0..MaxRow, page : SUBSET Row, ranges : Seq(Span), row : 0..MaxRow]
      /\ rows \subseteq Row /\ Captured \subseteq rows /\ Row \subseteq Nat
  BY DEF IInv, Types, Captured, Row
<1>2. DOMAIN scan.ranges = 1..Len(scan.ranges) /\ Len(scan.ranges) \in Nat
  BY <1>1
<1>3. ASSUME NEW i \in DOMAIN scan.ranges
      PROVE  /\ scan.ranges[i] \in Span
             /\ scan.ranges[i].after \in Nat /\ scan.ranges[i].high \in Nat
             /\ Region(i) = {r \in rows : scan.ranges[i].after < r /\ r <= scan.ranges[i].high}
  <2>1. scan.ranges[i] \in Span
    BY <1>1
  <2>2. scan.ranges[i].after \in Nat /\ scan.ranges[i].high \in Nat
    BY <2>1 DEF Span
  <2>3. scan.ranges[i].high <= scan.high /\ scan.high \in Nat
    BY <1>1 DEF IInv, Bounds
  <2>4. ASSUME NEW r \in rows, r <= scan.ranges[i].high PROVE r <= scan.high
    <3>1. r \in Nat
      BY <1>1
    <3> QED
      BY <2>2, <2>3, <2>4, <3>1
  <2> QED
    BY <2>1, <2>2, <2>4 DEF Region, Captured
<1> QED
  BY <1>1, <1>2, <1>3

LEMMA Fetches == ASSUME IInv, Fetch PROVE IInv'
<1> DEFINE range == scan.ranges[1]
           next == Page(range.after, range.high)
<1>1. /\ phase = "online" /\ stage = "rows" /\ ~report.failed /\ scan.page = {}
      /\ scan.ranges # <<>> /\ reconciled = Captured
      /\ UNCHANGED <<journal, phase, stage, report, signals, trouble, history>>
  BY DEF IInv, Network, Fetch, At
<1>2. /\ scan \in [high : 0..MaxRow, page : SUBSET Row, ranges : Seq(Span), row : 0..MaxRow]
      /\ rows \subseteq Row /\ Captured \subseteq rows
      /\ DOMAIN scan.ranges = 1..Len(scan.ranges) /\ Len(scan.ranges) \in Nat
  BY Scanning
<1>3. 1 \in DOMAIN scan.ranges /\ Head(scan.ranges) = range
  BY <1>1, <1>2
<1>4. Front(next, Region(1)) /\ (next = {} => Region(1) = {})
  <2>1. /\ range.after \in Nat /\ range.high \in Nat
        /\ Region(1) = {r \in rows : range.after < r /\ r <= range.high}
    BY <1>3, Scanning
  <2>2. Types
    BY DEF IInv
  <2> HIDE DEF range
  <2> QED
    BY <2>1, <2>2, PageIsFront
<1>5. scan' = IF next = {} THEN [scan EXCEPT !.ranges = Tail(@)] ELSE [scan EXCEPT !.page = next]
  BY <1>3 DEF Fetch
<1>6. CASE next = {}
  <2>1. /\ Tail(scan.ranges) \in Seq(Span) /\ DOMAIN Tail(scan.ranges) = 1..(Len(scan.ranges) - 1)
        /\ \A i \in DOMAIN Tail(scan.ranges) : /\ i + 1 \in DOMAIN scan.ranges
                                               /\ Tail(scan.ranges)[i] = scan.ranges[i + 1]
    BY <1>1, <1>2, <1>3
  <2>2. /\ scan' \in [high : 0..MaxRow, page : SUBSET Row, ranges : Seq(Span), row : 0..MaxRow]
        /\ scan'.high = scan.high /\ scan'.page = {} /\ scan'.ranges = Tail(scan.ranges)
        /\ scan'.row = scan.row
    BY <1>1, <1>2, <1>5, <1>6, <2>1
  <2>3. Captured' = Captured
    BY <1>1, <2>2 DEF Captured, journal
  <2>4. ASSUME NEW r PROVE Left(r)' <=> Left(r)
    <3>1. ASSUME Left(r)' PROVE Left(r)
      BY <2>1, <2>2, <2>3, <3>1 DEF Left, Region
    <3>2. ASSUME Left(r) PROVE Left(r)'
      <4>1. PICK i \in DOMAIN scan.ranges : r \in Region(i)
        BY <3>2 DEF Left
      <4>2. i # 1
        BY <1>4, <1>6, <4>1
      <4>3. i - 1 \in DOMAIN Tail(scan.ranges) /\ Tail(scan.ranges)[i - 1] = scan.ranges[i]
        BY <1>2, <2>1, <4>1, <4>2
      <4> QED
        BY <2>2, <2>3, <4>1, <4>3 DEF Left, Region
    <3> QED
      BY <3>1, <3>2
  <2>5. Types'
    BY <1>1, <2>2 DEF IInv, Types, journal, signals, history
  <2>6. Bounds'
    BY <1>1, <2>1, <2>2, <2>3 DEF IInv, Bounds, journal, history
  <2>7. \A i, j \in DOMAIN scan'.ranges :
           i < j => scan'.ranges[j].high <= scan'.ranges[i].after
    <3>1. ASSUME NEW i \in DOMAIN Tail(scan.ranges), NEW j \in DOMAIN Tail(scan.ranges), i < j
          PROVE  Tail(scan.ranges)[j].high <= Tail(scan.ranges)[i].after
      <4>1. i + 1 < j + 1
        BY <1>2, <2>1, <3>1
      <4> QED
        BY <1>1, <2>1, <4>1 DEF IInv, Network
    <3> QED
      BY <2>2, <3>1
  <2>8. Network'
    BY <1>1, <2>2, <2>3, <2>4, <2>7 DEF IInv, Network, history
  <2> QED
    BY <1>1, <2>5, <2>6, <2>8 DEF IInv, Closed, Local, Ready
<1>7. CASE next # {}
  <2>1. next \subseteq Captured /\ next \in SUBSET Row
    BY <1>2, <1>4 DEF Front, Region
  <2>2. /\ scan' \in [high : 0..MaxRow, page : SUBSET Row, ranges : Seq(Span), row : 0..MaxRow]
        /\ scan'.high = scan.high /\ scan'.page = next /\ scan'.ranges = scan.ranges
        /\ scan'.row = scan.row
    BY <1>2, <1>5, <1>7, <2>1
  <2>3. Captured' = Captured
    BY <1>1, <2>2 DEF Captured, journal
  <2>4. Region(1)' = Region(1) /\ \A r : Left(r)' <=> Left(r)
    BY <2>2, <2>3 DEF Left, Region
  <2>5. Types'
    BY <1>1, <2>2 DEF IInv, Types, journal, signals, history
  <2>6. Bounds'
    BY <1>1, <2>1, <2>2, <2>3 DEF IInv, Bounds, journal, history
  <2>7. Front(scan'.page, Region(1)')
    BY <1>4, <2>2, <2>4
  <2>8. Network'
    BY <1>1, <2>2, <2>3, <2>4, <2>7 DEF IInv, Network, Front, history
  <2> QED
    BY <1>1, <2>5, <2>6, <2>8 DEF IInv, Closed, Local, Ready
<1> QED
  BY <1>6, <1>7

LEMMA Takes == ASSUME IInv, Take PROVE IInv'
<1>1. /\ phase = "online" /\ stage = "rows" /\ ~report.failed /\ reconciled = Captured
      /\ UNCHANGED <<journal, phase, report, signals, trouble, history>>
  BY DEF IInv, Network, Take, At
<1>2. PICK r \in scan.page :
         /\ IsFirst(r, scan.page)
         /\ scan' = [scan EXCEPT !.page = @ \ {r}, !.row = r, !.ranges[1].after = r]
         /\ stage' = IF r \in Candidate THEN "observe" ELSE "position"
  BY DEF Take
<1>3. /\ scan \in [high : 0..MaxRow, page : SUBSET Row, ranges : Seq(Span), row : 0..MaxRow]
      /\ rows \subseteq Row /\ Captured \subseteq rows /\ Row \subseteq Nat
      /\ DOMAIN scan.ranges = 1..Len(scan.ranges) /\ Len(scan.ranges) \in Nat
  BY Scanning
<1>4. 1 \in DOMAIN scan.ranges /\ Front(scan.page, Region(1))
  BY <1>1, <1>2, <1>3 DEF IInv, Network
<1>5. /\ \A q \in Region(1) \ {r} : r < q
      /\ Front(scan.page \ {r}, Region(1) \ {r}) /\ r \in Region(1)
  <2>1. Region(1) \in SUBSET Nat
    BY <1>3 DEF Region
  <2> QED
    BY <1>2, <1>4, <2>1, FirstIsLeast
<1>6. r \in Captured /\ r \in Row /\ r \in Nat /\ r \in 0..MaxRow
  BY <1>3, <1>5, RowAssumption DEF Region, Row
<1> DEFINE rest == [scan.ranges EXCEPT ![1] = [scan.ranges[1] EXCEPT !.after = r]]
<1>7. /\ rest \in Seq(Span) /\ DOMAIN rest = DOMAIN scan.ranges
      /\ rest[1].after = r /\ rest[1].high = scan.ranges[1].high
      /\ \A i \in DOMAIN scan.ranges : i # 1 => rest[i] = scan.ranges[i]
  <2>1. scan.ranges[1] \in Span
    BY <1>4, Scanning
  <2>2. /\ [scan.ranges[1] EXCEPT !.after = r] \in Span
        /\ [scan.ranges[1] EXCEPT !.after = r].after = r
        /\ [scan.ranges[1] EXCEPT !.after = r].high = scan.ranges[1].high
    BY <1>6, <2>1 DEF Span
  <2> QED
    BY <1>3, <1>4, <2>2
<1>8. /\ scan' \in [high : 0..MaxRow, page : SUBSET Row, ranges : Seq(Span), row : 0..MaxRow]
      /\ scan'.high = scan.high /\ scan'.page = scan.page \ {r} /\ scan'.ranges = rest
      /\ scan'.row = r
  <2>1. scan' = [scan EXCEPT !.page = scan.page \ {r}, !.row = r, !.ranges = rest]
    BY <1>2, <1>3
  <2>2. scan.page \ {r} \in SUBSET Row
    BY <1>3
  <2> HIDE DEF rest
  <2> QED
    BY <1>3, <1>6, <1>7, <2>1, <2>2
<1> HIDE DEF rest
<1>9. Captured' = Captured
  BY <1>1, <1>8 DEF Captured, journal
<1>10. Region(1)' = Region(1) \ {r} /\ \A i \in DOMAIN scan.ranges : i # 1 => Region(i)' = Region(i)
  <2>1. ASSUME NEW q \in Captured
        PROVE  q \in Region(1)' <=> q \in Region(1) \ {r}
    <3>1. q \in Region(1)' <=> r < q /\ q <= scan.ranges[1].high
      BY <1>7, <1>8, <1>9 DEF Region
    <3>2. scan.ranges[1].after < r /\ scan.ranges[1].after \in Nat /\ q \in Nat
      BY <1>3, <1>4, <1>5, Scanning DEF Region
    <3>3. q \in Region(1) <=> scan.ranges[1].after < q /\ q <= scan.ranges[1].high
      BY DEF Region
    <3> QED
      BY <1>5, <1>6, <3>1, <3>2, <3>3
  <2>2. Region(1)' \subseteq Captured /\ Region(1) \subseteq Captured
    BY <1>9 DEF Region
  <2>3. \A i \in DOMAIN scan.ranges : i # 1 => Region(i)' = Region(i)
    BY <1>7, <1>8, <1>9 DEF Region
  <2> QED
    BY <2>1, <2>2, <2>3
<1>11. \A i, j \in DOMAIN scan.ranges : i < j => scan.ranges[j].high <= scan.ranges[i].after
  BY <1>1 DEF IInv, Network
<1>12. scan.ranges[1].after < r /\ scan.ranges[1].after \in Nat
       /\ \A i \in DOMAIN scan.ranges : scan.ranges[i].high \in Nat
  BY <1>4, <1>5, Scanning DEF Region
<1>13. \A j \in DOMAIN scan.ranges : j # 1 => scan.ranges[j].high < r
  BY <1>3, <1>4, <1>6, <1>11, <1>12
<1>14. ASSUME NEW q PROVE Left(q)' <=> Left(q) /\ q # r
  <2>1. \A i \in DOMAIN scan.ranges : i # 1 => r \notin Region(i)
    BY <1>6, <1>12, <1>13 DEF Region
  <2> QED
    BY <1>4, <1>7, <1>8, <1>10, <2>1 DEF Left
<1>15. Types'
  BY <1>1, <1>2, <1>8 DEF IInv, Types, journal, signals, history
<1>16. Bounds'
  <2>1. \A i \in DOMAIN scan'.ranges :
           scan'.ranges[i].after <= scan'.high /\ scan'.ranges[i].high <= scan'.high
    BY <1>6, <1>7, <1>8 DEF IInv, Bounds, Captured
  <2> QED
    BY <1>1, <1>6, <1>8, <1>9, <2>1 DEF IInv, Bounds, journal, history
<1>17. Network'
  <2>1. Left(r) /\ r \notin seen
    BY <1>1, <1>4, <1>5 DEF IInv, Network, Left
  <2>2. \A i, j \in DOMAIN scan'.ranges : i < j => scan'.ranges[j].high <= scan'.ranges[i].after
    <3>1. ASSUME NEW i \in DOMAIN scan.ranges, NEW j \in DOMAIN scan.ranges, i < j
          PROVE  rest[j].high <= rest[i].after
      <4>1. j # 1
        BY <1>3, <3>1
      <4>2. rest[j] = scan.ranges[j] /\ (i # 1 => rest[i] = scan.ranges[i])
        BY <1>7, <4>1
      <4>3. CASE i = 1
        BY <1>6, <1>7, <1>12, <1>13, <4>1, <4>2, <4>3
      <4>4. CASE i # 1
        BY <1>11, <3>1, <4>2, <4>4
      <4> QED
        BY <4>3, <4>4
    <3> QED
      BY <1>7, <1>8, <3>1
  <2>3. scan'.ranges # <<>> /\ Front(scan'.page, Region(1)')
    <3>1. scan'.ranges # <<>>
      BY <1>4, <1>7, <1>8
    <3> QED
      BY <1>5, <1>8, <1>10, <3>1
  <2>4. \A x \in Captured \cap Candidate :
           Left(x)' \/ x \in seen \/ (stage' = "observe" /\ x = r)
    BY <1>1, <1>2, <1>14 DEF IInv, Network
  <2> QED
    BY <1>1, <1>2, <1>6, <1>8, <1>9, <1>14, <2>1, <2>2, <2>3, <2>4
       DEF IInv, Network, Front, history
<1> QED
  BY <1>1, <1>15, <1>16, <1>17 DEF IInv, Closed, Local, Ready

\* The row in progress is observed.
LEMMA Observes == ASSUME IInv, Observed PROVE IInv'
<1>1. /\ phase = "online" /\ stage = "observe" /\ reconciled = Captured
      /\ scan.row \in Captured \cap Candidate /\ scan.row \notin seen /\ ~Left(scan.row)
      /\ ~report.failed
      /\ UNCHANGED <<journal, phase, scan, signals, trouble, reconciled>>
      /\ seen' = seen \cup {scan.row} /\ stage' \in {"rebroadcast", "position"}
  BY DEF IInv, Network, Observed, At
<1>2. report \in [operations : Nat, candidates : Nat, observed : Nat, failed : BOOLEAN]
  BY DEF IInv, Types
<1>3. /\ report' \in [operations : Nat, candidates : Nat, observed : Nat, failed : BOOLEAN]
      /\ report'.operations = report.operations /\ report'.candidates = report.candidates
      /\ report'.observed = report.observed + 1 /\ report'.failed = report.failed
  <2>1. report' = [report EXCEPT !.observed = report.observed + 1]
    BY <1>2 DEF Observed
  <2> QED
    BY <1>2, <2>1
<1>4. Captured' = Captured /\ (\A i : Region(i)' = Region(i)) /\ \A r : Left(r)' = Left(r)
  BY <1>1, SameRows DEF journal
<1>5. Types'
  BY <1>1, <1>3, Scanning DEF IInv, Types, journal, signals
<1>6. Bounds'
  <2>1. IsFiniteSet(seen)
    BY Counting DEF IInv, Types
  <2>2. Cardinality(seen') = Cardinality(seen) + 1
    BY <1>1, <2>1, FS_AddElement
  <2> QED
    BY <1>1, <1>3, <1>4, <2>2 DEF IInv, Bounds, journal
<1>7. Network'
  BY <1>1, <1>3, <1>4 DEF IInv, Network
<1> QED
  BY <1>1, <1>5, <1>6, <1>7 DEF IInv, Closed, Local, Ready

\* What the pass does with a row, once it is read, otherwise.
LEMMA RowMoves ==
    ASSUME IInv, phase = "online", UNCHANGED <<rows, phase, scan, history>>,
           position' \in 0..MaxRow, budget' \in [Candidate -> 0..MaxAttempts],
           expired' \in BOOLEAN, aborted' \in BOOLEAN, trouble' \in 0..MaxTrouble,
           NEW failed \in BOOLEAN, report' = [report EXCEPT !.failed = failed],
           \/ stage' = stage /\ failed = report.failed
           \/ stage = "rebroadcast" /\ stage' = "dispatch" /\ failed = report.failed
           \/ stage = "dispatch" /\ stage' = "rebroadcast" /\ failed = report.failed
           \/ stage = "rebroadcast" /\ stage' = "position"
           \/ stage = "observe" /\ stage' = "position" /\ failed
           \/ stage = "position" /\ stage' = "rows" /\ failed = report.failed
    PROVE  IInv'
<1>1. Captured' = Captured /\ (\A i : Region(i)' = Region(i)) /\ \A r : Left(r)' = Left(r)
  BY SameRows
<1>2. report \in [operations : Nat, candidates : Nat, observed : Nat, failed : BOOLEAN]
  BY DEF IInv, Types
<1>3. /\ report' \in [operations : Nat, candidates : Nat, observed : Nat, failed : BOOLEAN]
      /\ report'.operations = report.operations /\ report'.candidates = report.candidates
      /\ report'.observed = report.observed /\ report'.failed = failed
  BY <1>2
<1>4. Types'
  BY <1>3 DEF IInv, Types, history
<1>5. Bounds'
  BY <1>1, <1>3 DEF IInv, Bounds, history
<1>6. Network'
  BY <1>1, <1>3 DEF IInv, Network, history
<1> QED
  BY <1>4, <1>5, <1>6 DEF IInv, Closed, Local, Ready

\* The session ends, or the wallet is ready.
LEMMA EndMoves ==
    ASSUME IInv, phase' \in {"ready", "failed"},
           UNCHANGED <<journal, scan, stage, signals, history>>, trouble' \in 0..MaxTrouble,
           NEW failed \in BOOLEAN, report' = [report EXCEPT !.failed = failed],
           phase' = "ready" =>
              reconciled = Captured /\ (Online /\ report.observed < report.candidates => failed)
    PROVE  IInv'
<1>1. Captured' = Captured
  BY SameRows DEF journal
<1>2. report \in [operations : Nat, candidates : Nat, observed : Nat, failed : BOOLEAN]
  BY DEF IInv, Types
<1>3. /\ report' \in [operations : Nat, candidates : Nat, observed : Nat, failed : BOOLEAN]
      /\ report'.operations = report.operations /\ report'.candidates = report.candidates
      /\ report'.observed = report.observed /\ report'.failed = failed
  BY <1>2
<1>4. Types'
  BY <1>3 DEF IInv, Types, journal, signals, history
<1>5. Bounds'
  BY <1>1, <1>3 DEF IInv, Bounds, journal, history
<1>6. Ready'
  BY <1>1, <1>3 DEF Ready, history
<1> QED
  BY <1>4, <1>5, <1>6 DEF IInv, Closed, Local, Network

\* At the end of the pass the rows that nobody has seen have a reason.
LEMMA PassEnds == ASSUME IInv, Done PROVE IInv'
<1>1. /\ phase = "online" /\ stage = "rows" /\ reconciled = Captured
      /\ UNCHANGED <<journal, scan, stage, signals, trouble, history>>
      /\ phase' = IF aborted THEN "failed" ELSE "ready"
      /\ report' = [report EXCEPT !.failed = report.failed \/ expired]
  BY DEF IInv, Network, Done, At
<1>2. /\ report \in [operations : Nat, candidates : Nat, observed : Nat, failed : BOOLEAN]
      /\ (report.failed \/ expired) \in BOOLEAN
  BY DEF IInv, Types
<1>3. ASSUME phase' = "ready", ~(report.failed \/ expired)
      PROVE  ~(report.observed < report.candidates)
  <2>1. scan.page = {} /\ scan.ranges = <<>>
    BY <1>1, <1>3 DEF Done, Cut
  <2>2. \A r : ~Left(r)
    BY <2>1 DEF Left
  <2>3. Captured \cap Candidate \subseteq seen
    BY <1>1, <1>3, <2>2 DEF IInv, Network
  <2>4. seen = reconciled \cap Candidate
    BY <1>1, <2>3 DEF IInv, Bounds
  <2> QED
    BY <1>2, <2>4 DEF IInv, Bounds
<1> QED
  BY <1>1, <1>2, <1>3, EndMoves DEF IInv, Types

LEMMA NetworkMoves ==
    ASSUME IInv, \/ Failed \/ GiveUp \/ Declined \/ Begin \/ BeginCut \/ Dispatched
                 \/ DispatchCut \/ Position \/ Deadline
    PROVE  IInv'
<1>1. /\ position \in 0..MaxRow /\ budget \in [Candidate -> 0..MaxAttempts]
      /\ expired \in BOOLEAN /\ aborted \in BOOLEAN /\ trouble \in 0..MaxTrouble
      /\ report \in [operations : Nat, candidates : Nat, observed : Nat, failed : BOOLEAN]
      /\ scan.row \in 0..MaxRow
  BY Scanning DEF IInv, Types
<1>2. report = [report EXCEPT !.failed = report.failed] /\ report.failed \in BOOLEAN
  BY <1>1
<1>3. CASE Failed \/ GiveUp
  <2>1. /\ phase = "online" /\ stage \in {"observe", "rebroadcast"}
        /\ Finished(TRUE)
    BY <1>3 DEF Failed, GiveUp, At
  <2> QED
    BY <1>1, <2>1, RowMoves DEF Finished, journal, signals, history
<1>4. CASE Declined
  <2>1. PICK error \in BOOLEAN : Finished(error)
    BY <1>1, <1>4 DEF Declined, Cut
  <2>2. phase = "online" /\ stage = "rebroadcast"
    BY <1>4 DEF Declined, At
  <2> QED
    BY <1>1, <2>1, <2>2, RowMoves DEF Finished, journal, signals, history
<1>5. CASE Begin
  <2>1. /\ phase = "online" /\ stage = "rebroadcast" /\ stage' = "dispatch"
        /\ scan.row \in Candidate /\ budget[scan.row] > 0
        /\ budget' = [budget EXCEPT ![scan.row] = @ - 1]
        /\ UNCHANGED <<rows, position, phase, scan, report, signals, trouble, history>>
    BY <1>5 DEF IInv, Network, Begin, At
  <2>2. budget' \in [Candidate -> 0..MaxAttempts]
    BY <1>1, <2>1, PolicyAssumption
  <2> QED
    BY <1>1, <1>2, <2>1, <2>2, RowMoves DEF signals
<1>6. CASE Dispatched
  BY <1>1, <1>2, <1>6, RowMoves DEF Dispatched, At, journal, signals
<1>7. CASE Position
  BY <1>1, <1>2, <1>7, RowMoves DEF Position, At, signals
<1>8. CASE Deadline
  BY <1>1, <1>2, <1>8, RowMoves DEF Deadline, journal
<1>9. CASE BeginCut \/ DispatchCut
  BY <1>1, <1>2, <1>9, EndMoves DEF BeginCut, DispatchCut
<1> QED
  BY <1>3, <1>4, <1>5, <1>6, <1>7, <1>8, <1>9

-----------------------------------------------------------------------------
(* Trouble, and the next session *)

LEMMA Forgets == ASSUME IInv, Forget, trouble' \in 0..MaxTrouble PROVE IInv'
<1>1. /\ phase' = "closed" /\ scan' = NoScan /\ stage' = "rows" /\ report' = NoReport
      /\ expired' = FALSE /\ aborted' = FALSE /\ reconciled' = {} /\ seen' = {}
      /\ UNCHANGED journal
  BY DEF Forget
<1>2. /\ NoScan \in [high : 0..MaxRow, page : SUBSET Row, ranges : Seq(Span), row : 0..MaxRow]
      /\ NoReport \in [operations : Nat, candidates : Nat, observed : Nat, failed : BOOLEAN]
  BY RowAssumption DEF NoScan, NoReport
<1>3. Types'
  BY <1>1, <1>2 DEF IInv, Types, journal
<1>4. Bounds'
  BY <1>1, FS_EmptySet DEF Bounds, NoScan, NoReport
<1> QED
  BY <1>1, <1>3, <1>4 DEF IInv, Closed, Local, Network, Ready

LEMMA Creates == ASSUME IInv, Create PROVE IInv'
<1>1. PICK r \in 1..MaxRow : (\A s \in rows : s < r) /\ rows' = rows \cup {r}
  BY DEF Create
<1>2. phase = "ready"
      /\ UNCHANGED <<position, budget, phase, scan, stage, report, signals, trouble, history>>
  BY DEF Create
<1>3. scan.high < r
  BY <1>1 DEF IInv, Bounds
<1>4. Captured' = Captured
  <2>1. scan.high \in Nat /\ r \in Nat
    BY Scanning
  <2> QED
    BY <1>1, <1>2, <1>3, <2>1 DEF Captured
<1>5. Types'
  BY <1>1, <1>2 DEF IInv, Types, Row, signals, history
<1>6. Bounds'
  BY <1>1, <1>2, <1>4 DEF IInv, Bounds, history
<1>7. Ready'
  BY <1>2, <1>4 DEF IInv, Ready, history
<1> QED
  BY <1>2, <1>5, <1>6, <1>7 DEF IInv, Closed, Local, Network

LEMMA TroubleMoves == ASSUME IInv, Abort \/ Fail \/ Crash \/ Reopen PROVE IInv'
<1>1. /\ trouble \in 0..MaxTrouble /\ (Trouble => trouble' \in 0..MaxTrouble)
      /\ report \in [operations : Nat, candidates : Nat, observed : Nat, failed : BOOLEAN]
  BY PolicyAssumption DEF IInv, Types, Trouble
<1>2. report = [report EXCEPT !.failed = report.failed] /\ report.failed \in BOOLEAN
  BY <1>1
<1>3. CASE Abort
  <2>1. /\ trouble' \in 0..MaxTrouble /\ aborted' = TRUE /\ phase \in {"local", "online"}
        /\ UNCHANGED <<journal, phase, scan, stage, report, expired, history>>
    BY <1>1, <1>3 DEF Abort
  <2>2. CASE phase = "online"
    BY <1>2, <2>1, <2>2, RowMoves DEF journal, IInv, Types
  <2>3. CASE phase = "local"
    <3>1. Captured' = Captured /\ Unreconciled' = Unreconciled
      BY <2>1 DEF Captured, Unreconciled, journal, history
    <3>2. Types'
      BY <2>1 DEF IInv, Types, journal, history
    <3>3. Bounds'
      BY <2>1, <3>1 DEF IInv, Bounds, journal, history
    <3>4. Local'
      BY <2>1, <3>1 DEF IInv, Local, history
    <3> QED
      BY <2>1, <2>3, <3>2, <3>3, <3>4 DEF IInv, Closed, Network, Ready
  <2> QED
    BY <2>1, <2>2, <2>3
<1>4. CASE Fail
  <2>1. /\ phase' = "failed" /\ trouble' \in 0..MaxTrouble
        /\ UNCHANGED <<journal, scan, stage, report, signals, history>>
    BY <1>1, <1>4 DEF Fail
  <2> QED
    BY <1>2, <2>1, EndMoves
<1>5. CASE Crash \/ Reopen
  BY <1>1, <1>5, Forgets DEF Crash, Reopen
<1> QED
  BY <1>3, <1>4, <1>5

-----------------------------------------------------------------------------
(* The theorems *)

LEMMA InitOK == Init => IInv
<1> SUFFICES ASSUME Init PROVE IInv
  OBVIOUS
<1>1. /\ NoScan \in [high : 0..MaxRow, page : SUBSET Row, ranges : Seq(Span), row : 0..MaxRow]
      /\ NoReport \in [operations : Nat, candidates : Nat, observed : Nat, failed : BOOLEAN]
  BY RowAssumption DEF NoScan, NoReport
<1>2. Types
  <2>1. 0 \in 0..MaxTrouble /\ MaxAttempts \in 0..MaxAttempts
    BY PolicyAssumption
  <2>2. budget \in [Candidate -> 0..MaxAttempts]
    BY <2>1 DEF Init
  <2>3. rows \in SUBSET Row /\ position \in 0..MaxRow
    BY DEF Init, Row
  <2>4. scan = NoScan /\ report = NoReport /\ phase = "closed" /\ stage = "rows"
        /\ expired = FALSE /\ aborted = FALSE /\ trouble = 0 /\ reconciled = {} /\ seen = {}
    BY DEF Init
  <2> QED
    BY <1>1, <2>1, <2>2, <2>3, <2>4 DEF Types
<1>3. Bounds
  BY FS_EmptySet DEF Init, Bounds, NoScan, NoReport
<1> QED
  BY <1>2, <1>3 DEF Init, IInv, Closed, Local, Network, Ready

LEMMA StepOK == IInv /\ [Next]_vars => IInv'
<1> SUFFICES ASSUME IInv, [Next]_vars PROVE IInv'
  OBVIOUS
<1>1. CASE UNCHANGED vars
  <2>1. UNCHANGED <<rows, position, budget, phase, scan, stage, report, expired, aborted,
                    trouble, reconciled, seen>>
    BY <1>1 DEF vars, journal, signals, history
  <2>2. Captured' = Captured /\ (\A i : Region(i)' = Region(i)) /\ \A r : Left(r)' = Left(r)
    BY <2>1, SameRows
  <2>3. Types' /\ Bounds' /\ Closed' /\ Ready'
    BY <2>1, <2>2 DEF IInv, Types, Bounds, Closed, Ready
  <2>4. Local'
    BY <2>1, <2>2 DEF IInv, Local, Unreconciled
  <2>5. Network'
    BY <2>1, <2>2 DEF IInv, Network
  <2> QED
    BY <2>3, <2>4, <2>5 DEF IInv
<1> QED
  BY <1>1, Opens, Reconciles, LocalEnds, Fetches, Takes, Observes, NetworkMoves, PassEnds,
     TroubleMoves, Creates DEF Next, Step

LEMMA Invariance == Spec => []IInv
BY InitOK, StepOK, PTL DEF Spec

\* The journal and the session keep their types, and the page, the row in progress and the
\* ranges stay within the inventory that recover() captured.
THEOREM TypesAreKept == Spec => []TypeOK
<1>1. ASSUME IInv PROVE TypeOK
  <2>1. /\ report.operations \in 0..MaxRow /\ report.candidates \in 0..MaxRow
        /\ report.observed \in 0..MaxRow
    <3>1. reconciled \in SUBSET Row /\ reconciled \cap Candidate \in SUBSET Row
          /\ seen \in SUBSET Row
      BY <1>1 DEF IInv, Types
    <3> QED
      BY <1>1, <3>1, Counting DEF IInv, Bounds
  <2>2. report \in [operations : 0..MaxRow, candidates : 0..MaxRow,
                    observed : 0..MaxRow, failed : BOOLEAN]
    BY <1>1, <2>1 DEF IInv, Types
  <2>3. Captured \subseteq rows
    BY DEF Captured
  <2> QED
    BY <1>1, <2>2, <2>3 DEF IInv, Types, Bounds, TypeOK, Row
<1> QED
  BY <1>1, Invariance, PTL

\* recover() leaves no recorded operation out before the wallet is ready, and its report
\* counts what happened: what is deferred was not observed, and has a reason.
THEOREM ReportIsExact == Spec => []ReportExact
<1>1. ASSUME IInv PROVE ReportExact
  <2>1. SUFFICES ASSUME phase = "ready"
                 PROVE  report.candidates - report.observed
                          = Cardinality((reconciled \cap Candidate) \ seen)
    BY <1>1 DEF IInv, Ready, Bounds, ReportExact
  <2>2. IsFiniteSet(reconciled \cap Candidate) /\ IsFiniteSet(seen)
        /\ seen \subseteq reconciled \cap Candidate
    BY <1>1, Counting DEF IInv, Types, Bounds
  <2>3. (reconciled \cap Candidate) \cap seen = seen
    BY <2>2
  <2>4. Cardinality((reconciled \cap Candidate) \ seen)
          = Cardinality(reconciled \cap Candidate) - Cardinality(seen)
    BY <2>2, <2>3, FS_Difference
  <2> QED
    BY <1>1, <2>4 DEF IInv, Bounds
<1> QED
  BY <1>1, Invariance, PTL
=============================================================================
