--------------------------- MODULE Anchoring_proofs ---------------------------
(***************************************************************************)
(* From a source to a request, for every book a source can hand over: what *)
(* the gateway's pages leave out, what an anchor can be talked into, what  *)
(* an agent can be granted, what the figures count, and what a second run  *)
(* over more records may say.  The engine is the cascade, so its own       *)
(* invariant (SearchInv) is carried through a book it is given instead of  *)
(* the ones Cascade starts from.                                           *)
(***************************************************************************)
EXTENDS Anchoring, Cascade_proofs, SequenceTheorems

-----------------------------------------------------------------------------
(* The pull *)

\* Rows that arrive push the gateway's rows down and never out, and what lay
\* before `skip` when it was passed has been read.
PullInv ==
  /\ ledger \in Seq(RowType) /\ asked \in Seq(RowType) /\ items \in Seq(RowType)
  /\ skip \in Nat /\ arrivals \in Nat
  /\ pull = "idle" => arrivals = 0 /\ skip = 0
  /\ pull = "pulling" =>
       /\ Len(ledger) = arrivals + Len(asked)
       /\ \A k \in 1 .. Len(asked) :
            /\ ledger[arrivals + k] = asked[k]
            /\ arrivals + k <= skip => asked[k] \in Range(items)
  /\ CompleteOrWarned

LEMMA InitPull == GatewayInit => PullInv
BY EmptySeq DEF GatewayInit, PullInv, CompleteOrWarned

\* The page holds the rows after `skip`, all of them when it is short.
LEMMA PageHolds ==
  ASSUME PullInv
  PROVE  /\ Batch \in Seq(RowType) /\ Len(Batch) \in Nat
         /\ \A i \in skip + 1 .. skip + PageSize : i \in 1 .. Len(ledger) => ledger[i] \in Range(Batch)
         /\ Len(Batch) < PageSize =>
              \A i \in 1 .. Len(ledger) : i > skip => ledger[i] \in Range(Batch)
         /\ Range(Batch) \subseteq Range(ledger)
<1> DEFINE n == IF skip + PageSize <= Len(ledger) THEN skip + PageSize ELSE Len(ledger)
<1>1. PageSize \in Nat \ {0} /\ skip \in Nat /\ Len(ledger) \in Nat /\ ledger \in Seq(RowType)
  BY GatewayAssumption, LenProperties DEF PullInv
<1>2. Batch = SubSeq(ledger, skip + 1, n)
  <2>1. Ext!Min({skip + PageSize, Len(ledger)}) = n
    BY <1>1 DEF Ext!Min
  <2> QED
    BY <2>1 DEF Batch
<1>3. n \in Nat /\ n <= Len(ledger) /\ n <= skip + PageSize
      /\ (n < skip + PageSize => n = Len(ledger))
  BY <1>1
<1>4. /\ Batch \in Seq(RowType)
      /\ Len(Batch) = IF skip + 1 <= n THEN n - skip ELSE 0
      /\ \A i \in 1 .. (n - skip) : Batch[i] = ledger[skip + i]
  <2> HIDE DEF n
  <2>1. skip + 1 \in Int /\ n \in 0 .. Len(ledger)
    BY <1>1, <1>3
  <2>0. \A i \in skip + 1 .. n : ledger[i] \in RowType
    <3>1. \A i \in skip + 1 .. n : i \in 1 .. Len(ledger)
      BY <1>1, <2>1
    <3> QED
      BY <1>1, <3>1, ElementOfSeq
  <2>2. /\ SubSeq(ledger, skip + 1, n) \in Seq(RowType)
        /\ Len(SubSeq(ledger, skip + 1, n)) =
             IF skip + 1 <= n THEN n - (skip + 1) + 1 ELSE 0
        /\ \A i \in 1 .. n - (skip + 1) + 1 :
             SubSeq(ledger, skip + 1, n)[i] = ledger[skip + 1 + i - 1]
    BY <2>0, <2>1, SubSeqProperties
  <2>3. n - (skip + 1) + 1 = n - skip /\ \A i \in Int : skip + 1 + i - 1 = skip + i
    BY <1>1, <2>1
  <2>4. Batch \in Seq(RowType) /\ Len(Batch) = IF skip + 1 <= n THEN n - skip ELSE 0
    BY <1>2, <2>2, <2>3
  <2>5. ASSUME NEW i \in 1 .. (n - skip) PROVE Batch[i] = ledger[skip + i]
    <3>1. i \in Int /\ i \in 1 .. n - (skip + 1) + 1
      BY <2>3
    <3>2. SubSeq(ledger, skip + 1, n)[i] = ledger[skip + 1 + i - 1]
      BY <2>2, <3>1
    <3>3. skip + 1 + i - 1 = skip + i
      BY <2>3, <3>1
    <3> QED
      BY <1>2, <3>2, <3>3
  <2> QED
    BY <2>4, <2>5
<1>5. \A i \in 1 .. n : i > skip => ledger[i] \in Range(Batch)
  <2> SUFFICES ASSUME NEW i \in 1 .. n, i > skip PROVE ledger[i] \in Range(Batch)
    OBVIOUS
  <2> HIDE DEF n
  <2>1. i - skip \in 1 .. Len(Batch) /\ Batch[i - skip] = ledger[i]
    BY <1>1, <1>3, <1>4
  <2>2. DOMAIN Batch = 1 .. Len(Batch)
    BY <1>4, LenProperties
  <2> QED
    BY <2>1, <2>2 DEF Range
<1>6. Range(Batch) \subseteq Range(ledger)
  <2> SUFFICES ASSUME NEW i \in DOMAIN Batch PROVE Batch[i] \in Range(ledger)
    BY DEF Range
  <2> HIDE DEF n
  <2>1. i \in 1 .. Len(Batch)
    BY <1>4, LenProperties
  <2>2. i \in 1 .. (n - skip) /\ skip + i \in 1 .. Len(ledger)
    BY <1>1, <1>3, <1>4, <2>1
  <2>3. Batch[i] = ledger[skip + i]
    BY <1>4, <2>2
  <2>4. DOMAIN ledger = 1 .. Len(ledger)
    BY <1>1, LenProperties
  <2>5. PICK j \in DOMAIN ledger : Batch[i] = ledger[j]
    BY <2>2, <2>3, <2>4
  <2> QED
    BY <2>5 DEF Range
<1> HIDE DEF n
<1> QED
  BY <1>1, <1>3, <1>4, <1>5, <1>6

LEMMA NextPull ==
  ASSUME PullInv, Connect \/ NotConnected \/ GetPage \/ PageFails \/ Arrive
  PROVE  PullInv'
<1>0. /\ ledger \in Seq(RowType) /\ asked \in Seq(RowType) /\ items \in Seq(RowType)
      /\ skip \in Nat /\ arrivals \in Nat /\ PageSize \in Nat \ {0}
      /\ Ledgers \subseteq Seq(RowType) /\ Arriving \subseteq RowType
  BY GatewayAssumption DEF PullInv
<1>1. CASE Connect
  <2>1. ledger' \in Seq(RowType) /\ asked' = ledger' /\ arrivals = 0 /\ skip = 0
    BY <1>0, <1>1 DEF Connect, PullInv
  <2>2. Len(ledger') \in Nat
    BY <2>1, LenProperties
  <2> QED
    BY <1>0, <1>1, <2>1, <2>2 DEF Connect, PullInv, CompleteOrWarned
<1>2. CASE NotConnected
  BY <1>2 DEF NotConnected, PullInv, CompleteOrWarned
<1>3. CASE PageFails
  BY <1>3, EmptySeq DEF PageFails, PullInv, CompleteOrWarned
<1>4. CASE Arrive
  <2>1. PICK row \in RowType : ledger' = <<row>> \o ledger
    BY <1>0, <1>4 DEF Arrive
  <2>2. <<row>> \in Seq(RowType) /\ Len(<<row>>) = 1
    OBVIOUS
  <2>3. /\ ledger' \in Seq(RowType) /\ Len(ledger') = 1 + Len(ledger)
        /\ \A i \in 1 .. Len(ledger) : ledger'[1 + i] = ledger[i]
    BY <1>0, <2>1, <2>2
  <2>4. /\ pull = "pulling" /\ pull' = pull /\ arrivals' = arrivals + 1 /\ asked' = asked
        /\ items' = items /\ skip' = skip /\ warned' = warned
    BY <1>4 DEF Arrive
  <2>5. Len(ledger) \in Nat /\ Len(asked) \in Nat
    BY <1>0, LenProperties
  <2>6. ASSUME NEW k \in 1 .. Len(asked)
        PROVE  /\ ledger'[arrivals' + k] = asked[k]
               /\ arrivals' + k <= skip => asked[k] \in Range(items)
    <3>1. arrivals + k \in 1 .. Len(ledger)
      BY <1>0, <2>4, <2>5 DEF PullInv
    <3>2. 1 + (arrivals + k) = arrivals' + k
      BY <1>0, <2>4, <2>5
    <3>3. ledger'[arrivals' + k] = ledger[arrivals + k]
      BY <2>3, <3>1, <3>2
    <3> QED
      BY <1>0, <2>4, <2>5, <3>3 DEF PullInv
  <2>7. Len(ledger') = arrivals' + Len(asked) /\ arrivals' \in Nat
    BY <1>0, <2>3, <2>4, <2>5 DEF PullInv
  <2> QED
    BY <1>0, <2>3, <2>4, <2>6, <2>7 DEF PullInv, CompleteOrWarned
<1>5. CASE GetPage
  <2>1. /\ pull = "pulling" /\ items' = items \o Batch
        /\ skip' = IF Len(Batch) < PageSize THEN skip ELSE skip + PageSize
        /\ pull' = IF Len(Batch) < PageSize \/ skip' > MaxSkip THEN "fetched" ELSE "pulling"
        /\ warned' = IF skip' > MaxSkip THEN {"truncated"} ELSE {}
        /\ ledger' = ledger /\ arrivals' = arrivals /\ asked' = asked
    BY <1>5 DEF GetPage
  <2>2. /\ Len(ledger) = arrivals + Len(asked)
        /\ \A k \in 1 .. Len(asked) :
             /\ ledger[arrivals + k] = asked[k]
             /\ arrivals + k <= skip => asked[k] \in Range(items)
    BY <2>1 DEF PullInv
  <2>3. Batch \in Seq(RowType) /\ Len(Batch) \in Nat
    BY PageHolds
  <2>4. Len(asked) \in Nat /\ Len(ledger) \in Nat
    BY <1>0, LenProperties
  <2>5. items' \in Seq(RowType) /\ Range(items') = Range(items) \cup Range(Batch)
    BY <1>0, <2>1, <2>3, RangeConcatenation, ConcatProperties
  <2>6. skip' \in Nat /\ skip' >= skip
    BY <1>0, <2>1
  <2>7. ASSUME NEW k \in 1 .. Len(asked), arrivals + k <= skip' \/ Len(Batch) < PageSize
        PROVE  asked[k] \in Range(items')
    <3>1. CASE arrivals + k <= skip
      BY <2>2, <2>5, <3>1
    <3>2. CASE arrivals + k > skip
      <4>1. arrivals + k \in 1 .. Len(ledger)
        BY <1>0, <2>2, <2>4
      <4>2. ledger[arrivals + k] \in Range(Batch)
        <5>1. CASE Len(Batch) < PageSize
          BY <3>2, <4>1, <5>1, PageHolds
        <5>2. CASE ~(Len(Batch) < PageSize)
          <6>1. arrivals + k \in skip + 1 .. skip + PageSize
            BY <1>0, <2>1, <2>7, <3>2, <5>2
          <6> QED
            BY <4>1, <6>1, PageHolds
        <5> QED
          BY <5>1, <5>2
      <4> QED
        BY <2>2, <2>5, <4>2
    <3> QED
      BY <1>0, <3>1, <3>2
  <2>8. (pull' = "fetched" /\ "truncated" \notin warned') => Range(asked) \subseteq Range(items')
    <3> SUFFICES ASSUME pull' = "fetched", "truncated" \notin warned'
                 PROVE  Range(asked) \subseteq Range(items')
      OBVIOUS
    <3>1. Len(Batch) < PageSize
      BY <2>1
    <3>2. Range(asked) = {asked[k] : k \in 1 .. Len(asked)}
      BY <1>0, RangeEquality
    <3> QED
      BY <2>1, <2>7, <3>1, <3>2
  <2>9. CompleteOrWarned'
    BY <2>1, <2>8 DEF CompleteOrWarned
  <2> QED
    BY <1>0, <2>1, <2>2, <2>4, <2>5, <2>6, <2>7, <2>9 DEF PullInv
<1> QED
  BY <1>1, <1>2, <1>3, <1>4, <1>5

\* Only the adapter touches the pull; the snapshot adds warnings to it.
LEMMA AnchoringPull == PullInv /\ [AnchoringNext]_all => PullInv'
<1> SUFFICES ASSUME PullInv, [AnchoringNext]_all PROVE PullInv'
  OBVIOUS
<1>1. CASE FetchRazorpay
  BY <1>1, NextPull DEF FetchRazorpay, Reading
<1>2. CASE Load
  <2>1. UNCHANGED <<ledger, arrivals, asked, items, skip, pull>>
    <3>1. UNCHANGED <<walk, family, rest, source, ledger, arrivals, asked, items, skip, pull>>
      BY <1>2, Zenon DEF Load
    <3> QED
      BY <3>1
  <2>2. warned' = Normalised(items).warnings
    BY <1>2 DEF Load
  <2>3. warned \subseteq warned'
    BY <2>2 DEF Normalised
  <2> QED
    BY <2>1, <2>3 DEF PullInv, CompleteOrWarned
<1>3. CASE UNCHANGED gateway
  BY <1>3 DEF PullInv, CompleteOrWarned, gateway
<1>4. ASSUME ~FetchRazorpay, ~Load PROVE UNCHANGED gateway
  BY <1>4 DEF AnchoringNext, WalkStep, FetchSynthetic, Reconcile, Compare, Loop, Ask, all
<1> QED
  BY <1>1, <1>2, <1>3, <1>4

\* A pull that does not say it was cut short has read every row the gateway had
\* when it began, whatever the page size and however many rows arrive meanwhile.
THEOREM NoRowIsLost == AnchoringSpec => []CompleteOrWarned
<1>1. AnchoringInit => PullInv
  BY InitPull DEF AnchoringInit
<1>2. PullInv => CompleteOrWarned
  BY DEF PullInv
<1> QED
  BY <1>1, <1>2, AnchoringPull, PTL DEF AnchoringSpec

-----------------------------------------------------------------------------
(* The books a source hands over *)

\* The engine's invariant, over any book and from one run to the next.
RunInv ==
  /\ EngineOK /\ SearchInv
  /\ phase = "source" => turn = 1
  /\ turn = 1 => findings = [s \in Settlements |-> Undecided]
  /\ late # {} => whole \in [Orders -> Int]

LEMMA UndecidedIsFaithful ==
  /\ Undecided \in FindingType
  /\ \A n, x : Faithful(Undecided, n, x)
<1>1. /\ Undecided.verdict = "UNDECIDED" /\ Undecided.layer = ""
      /\ Undecided.space.members = {}
  BY DEF Undecided, EmptySpace
<1>2. \A n, x : Affordable(n, {}, x) = {}
  BY DEF Affordable
<1>3. Undecided \in FindingType
  BY DEF Undecided, FindingType, EmptySpace, SearchSpaces, LastRung, LagLadder
<1> QED
  BY <1>1, <1>2, <1>3 DEF Faithful

\* Where nothing is decided, any typed book will do.
LEMMA NothingDecided ==
  ASSUME net' \in [Orders -> Int], credit' \in [Settlements -> Int],
         turn' = 1, rung' \in 0 .. LastRung, spent' \subseteq Orders,
         findings' = [s \in Settlements |-> Undecided],
         late' # {} => whole' \in [Orders -> Int]
  PROVE  RunInv'
<1>1. findings' \in [Settlements -> FindingType]
  BY UndecidedIsFaithful
<1>2. EngineOK'
  BY <1>1 DEF EngineOK
<1>3. SearchInv'
  BY UndecidedIsFaithful DEF SearchInv
<1> QED
  BY <1>2, <1>3 DEF RunInv

LEMMA BookTyped ==
  ASSUME NEW records, NEW paid \in Int, NEW on, Book(records, paid, on),
         \A k \in DOMAIN records : records[k].net \in Int
  PROVE  /\ net' \in [Orders -> Int] /\ credit' \in [Settlements -> Int]
         /\ turn' = turn /\ rung' = rung /\ spent' = spent /\ findings' = findings
         /\ phase' = "cascade"
BY DEF Book

\* Amounts that no rounding of the book accounts for.
Large == {n \in Int : n > Cardinality(Orders)}

\* The records a family may add, and those of its bundle.
DrawnRecords == {Record(n, d) : n \in Large, d \in {start, start - ReversalAge}}

LEMMA NetsAreLarge ==
  /\ Cardinality(Orders) \in Nat /\ Nets \subseteq Int /\ Nets \subseteq Large
  /\ \A n \in Nets : n >= 3 * (Cardinality(Orders) + 1)
<1>1. Cardinality(Orders) \in Nat
  BY CardinalityIsInt
<1>2. Nets \subseteq Int /\ \A n \in Nets : n >= 3 * (Cardinality(Orders) + 1)
  BY CascadeAssumption, AnchoringAssumption
<1> QED
  BY <1>1, <1>2 DEF Large

LEMMA TotalOfBundle ==
  ASSUME NEW k \in 1 .. MaxBundle, NEW f \in [1 .. k -> Nets]
  PROVE  Total(f, DOMAIN f) >= 3 * (Cardinality(Orders) + 1)
<1>1. k \in Nat /\ 1 \in 1 .. k
  BY NetsAreLarge, PortfolioAssumption
<1>2. f \in [1 .. k -> Int] /\ \A i \in 1 .. k : f[i] >= 3 * (Cardinality(Orders) + 1)
  BY NetsAreLarge
<1>3. IsFiniteSet(1 .. k)
  BY <1>1, FS_Interval
<1> DEFINE D == 1 .. k
           others == D \ {1}
<1>4. Total(f, D) = f[1] + Total(f, others) /\ others \in SUBSET D
  <2> HIDE DEF D
  <2> QED
    BY <1>1, <1>2, <1>3, TotalRemove DEF D
<1>5. Total(f, others) >= 0 /\ Total(f, others) \in Int
  <2>1. \A i \in others : f[i] >= 0
    BY <1>2, NetsAreLarge
  <2> HIDE DEF others
  <2> QED
    BY <1>2, <1>3, <1>4, <2>1, TotalIsPositive, TotalStep
<1> QED
  BY <1>1, <1>2, <1>4, <1>5, NetsAreLarge

\* What a family makes of a bundle is typed, and no part of it is small.
LEMMA MadeIsTyped ==
  ASSUME NEW c, NEW k \in 1 .. MaxBundle, NEW f \in [1 .. k -> Nets], NEW made \in Made(c, f)
  PROVE  /\ made.credit \in Int
         /\ made.extra \in Seq(DrawnRecords)
<1> DEFINE R == DrawnRecords
           total == Total(f, DOMAIN f)
<1>1. k \in Nat /\ DOMAIN f = 1 .. k /\ f \in [1 .. k -> Int]
  <2>1. MaxBundle \in Nat
    <3>1. Cardinality(Orders) \in Nat
      BY CardinalityIsInt
    <3> QED
      BY <3>1, PortfolioAssumption
  <2>2. k \in Nat /\ Nets \subseteq Int
    BY <2>1, CascadeAssumption
  <2> QED
    BY <2>2
<1>2. total \in Int /\ Cardinality(DOMAIN f) = k
  <2>1. IsFiniteSet(1 .. k) /\ Cardinality(1 .. k) = k
    BY <1>1, FS_Interval
  <2> QED
    BY <1>1, <2>1, TotalStep
<1>3. f[Cardinality(DOMAIN f)] \in Int
  BY <1>1, <1>2
<1>4. Nets \subseteq Int /\ Nets \subseteq Large
  BY NetsAreLarge
<1>5. \A n \in Large : Record(n, start) \in R /\ Record(n, start - ReversalAge) \in R
  BY DEF DrawnRecords
<1>0. \A x \in (total \div 3) .. (total \div 2 - 1) : x \in Large /\ total - x \in Large
  <2>1. total >= 3 * (Cardinality(Orders) + 1)
    BY TotalOfBundle
  <2> HIDE DEF total
  <2> QED
    BY <1>2, <2>1, NetsAreLarge DEF Large
<1> HIDE DEF R, total
<1>6. /\ <<>> \in Seq(R)
      /\ \A n \in Large : <<Record(n, start)>> \in Seq(R) /\ <<Record(n, start - ReversalAge)>> \in Seq(R)
      /\ \A n, m \in Large : <<Record(n, start), Record(m, start)>> \in Seq(R)
  BY <1>5
<1> DEFINE M == [extra : Seq(R), credit : Int]
<1>7. \A e \in Seq(R), x \in Int : [extra |-> e, credit |-> x] \in M
  OBVIOUS
<1> SUFFICES made \in M
  BY DEF R
<1> HIDE DEF M
<1>8. CASE c = "refund_offset"
  <2>1. \A x \in LeastRefund .. (MostRefund - 1) : total - x \in Int
    BY <1>2, PortfolioAssumption
  <2>2. \A x \in LeastRefund .. (MostRefund - 1) : [extra |-> <<>>, credit |-> total - x] \in M
    BY <1>6, <1>7, <2>1
  <2> QED
    BY <1>8, <2>2 DEF Made, total
<1>9. CASE c = "chargeback_reversal"
  <2>1. \A n \in Nets : total - n \in Int /\ <<Record(n, start - ReversalAge)>> \in Seq(R)
    BY <1>2, <1>4, <1>6
  <2>2. \A n \in Nets :
          [extra |-> <<Record(n, start - ReversalAge)>>, credit |-> total - n] \in M
    BY <1>7, <2>1
  <2> QED
    BY <1>9, <2>2 DEF Made, total
<1>10. CASE c = "split_order"
  <2>1. total - f[Cardinality(DOMAIN f)] \div 2 \in Int
    BY <1>2, <1>3
  <2>2. [extra |-> <<>>, credit |-> total - f[Cardinality(DOMAIN f)] \div 2] \in M
    BY <1>6, <1>7, <2>1
  <2> QED
    BY <1>10, <2>2 DEF Made, total
<1>11. CASE c = "orphan_settlement"
  <2>1. \A n \in Nets : total + n \in Int
    BY <1>2, <1>4
  <2>2. \A n \in Nets : [extra |-> <<>>, credit |-> total + n] \in M
    BY <1>6, <1>7, <2>1
  <2> QED
    BY <1>11, <2>2 DEF Made, total
<1>12. CASE c = "ambiguous_subset"
  <2>1. \A x \in (total \div 3) .. (total \div 2 - 1) :
          <<Record(x, start), Record(total - x, start)>> \in Seq(R)
    BY <1>0, <1>6
  <2>2. \A x \in (total \div 3) .. (total \div 2 - 1) :
          [extra |-> <<Record(x, start), Record(total - x, start)>>, credit |-> total] \in M
    BY <1>2, <1>7, <2>1
  <2> QED
    BY <1>12, <2>2 DEF Made, total
<1>13. CASE c = "orphan_order"
  <2>1. \A n \in Nets : <<Record(n, start)>> \in Seq(R)
    BY <1>4, <1>6
  <2>2. \A n \in Nets : [extra |-> <<Record(n, start)>>, credit |-> total] \in M
    BY <1>2, <1>7, <2>1
  <2> QED
    BY <1>13, <2>2 DEF Made, total
<1>14. CASE c \notin Tampered \cup Crowded
  <2>1. [extra |-> <<>>, credit |-> total] \in M
    BY <1>2, <1>6, <1>7
  <2> QED
    BY <1>14, <2>1 DEF Made, total, Tampered, Crowded
<1> QED
  BY <1>8, <1>9, <1>10, <1>11, <1>12, <1>13, <1>14 DEF Tampered, Crowded

LEMMA DrawKeeps ==
  ASSUME RunInv, Draw, UNCHANGED days
  PROVE  RunInv'
<1>01. PICK c \in Cases : \E f \in Bundles(c) : \E made \in Made(c, f) :
        Book([i \in 1 .. Cardinality(DOMAIN f) |-> Record(f[i], start)] \o made.extra,
             made.credit, day)
  BY DEF Draw
<1>02. PICK f \in Bundles(c) : \E made \in Made(c, f) :
        Book([i \in 1 .. Cardinality(DOMAIN f) |-> Record(f[i], start)] \o made.extra,
             made.credit, day)
  BY <1>01
<1>1. PICK made \in Made(c, f) :
        Book([i \in 1 .. Cardinality(DOMAIN f) |-> Record(f[i], start)] \o made.extra,
             made.credit, day)
  BY <1>02
<1>2. PICK k \in 1 .. MaxBundle : f \in [1 .. k -> Nets]
  BY DEF Bundles
<1> DEFINE R == DrawnRecords
           bundle == [i \in 1 .. Cardinality(DOMAIN f) |-> Record(f[i], start)]
<1>3. k \in Nat /\ Cardinality(DOMAIN f) = k /\ \A i \in 1 .. k : f[i] \in Int
  <2>1. Cardinality(Orders) \in Nat
    BY CardinalityIsInt
  <2>2. k \in Nat
    BY <2>1, PortfolioAssumption
  <2>3. Cardinality(1 .. k) = k
    BY <2>2, FS_Interval
  <2> QED
    BY <1>2, <2>2, <2>3, CascadeAssumption
<1>4. bundle \in Seq(R)
  <2>1. bundle \in [1 .. k -> R]
    <3>1. \A i \in 1 .. k : Record(f[i], start) \in R
      BY <1>2, NetsAreLarge DEF DrawnRecords
    <3> QED
      BY <1>3, <3>1
  <2> HIDE DEF bundle, R
  <2> QED
    BY <1>3, <2>1, SeqDef
<1>5. made.credit \in Int /\ made.extra \in Seq(R)
  <2>1. k \in 1 .. MaxBundle /\ f \in [1 .. k -> Nets] /\ made \in Made(c, f)
    BY <1>1, <1>2
  <2> QED
    BY <2>1, MadeIsTyped
<1>6. \A r \in R : r.net \in Int
  BY DEF DrawnRecords, Record, Large
<1> HIDE DEF R, bundle
<1>7. bundle \o made.extra \in Seq(R)
  BY <1>4, <1>5, ConcatProperties
<1>8. \A i \in DOMAIN (bundle \o made.extra) : (bundle \o made.extra)[i].net \in Int
  BY <1>6, <1>7, LenProperties, ElementOfSeq
<1>9. Book(bundle \o made.extra, made.credit, day)
  BY <1>1 DEF bundle
<1>10. /\ net' \in [Orders -> Int] /\ credit' \in [Settlements -> Int]
       /\ turn' = turn /\ rung' = rung /\ spent' = spent /\ findings' = findings
  BY <1>5, <1>8, <1>9, BookTyped
<1>11. turn = 1 /\ findings = [s \in Settlements |-> Undecided]
  BY DEF RunInv, Draw
<1>12. late' = late /\ whole' = whole
  BY DEF days
<1> QED
  BY <1>10, <1>11, <1>12, NothingDecided DEF RunInv, EngineOK

\* Numbered as they sort, the elements of a finite set of numbers have the
\* numbers from 1 on, each one of its own.
LEMMA EveryNumberIsGiven ==
  ASSUME NEW S, S \subseteq Nat, IsFiniteSet(S)
  PROVE  /\ \A i \in S : Cardinality({j \in S : j <= i}) \in 1 .. Cardinality(S)
         /\ \A i, q \in S :
              Cardinality({j \in S : j <= i}) = Cardinality({j \in S : j <= q}) => i = q
         /\ \A k \in 1 .. Cardinality(S) : \E i \in S : Cardinality({j \in S : j <= i}) = k
<1> DEFINE n == Cardinality(S)
           P(i) == {j \in S : j <= i}
           h == [i \in S |-> Cardinality(P(i))]
<1>1. n \in Nat /\ IsFiniteSet(1 .. n) /\ Cardinality(1 .. n) = n
  <2>1. n \in Nat
    BY FS_CardinalityType
  <2> HIDE DEF n
  <2> QED
    BY <2>1, FS_Interval
<1>2. \A i \in S : IsFiniteSet(P(i)) /\ Cardinality(P(i)) \in 1 .. n
  <2> SUFFICES ASSUME NEW i \in S PROVE IsFiniteSet(P(i)) /\ Cardinality(P(i)) \in 1 .. n
    OBVIOUS
  <2>1. P(i) \in SUBSET S /\ i \in P(i)
    OBVIOUS
  <2> HIDE DEF P
  <2>2. IsFiniteSet(P(i)) /\ Cardinality(P(i)) <= n /\ Cardinality(P(i)) \in Nat
    BY <2>1, FS_Subset, FS_CardinalityType
  <2>3. Cardinality(P(i)) # 0
    BY <2>1, <2>2, FS_EmptySet
  <2> QED
    BY <1>1, <2>2, <2>3
<1>3. \A i, j \in S : i < j => Cardinality(P(i)) # Cardinality(P(j))
  <2> SUFFICES ASSUME NEW i \in S, NEW j \in S, i < j,
                      Cardinality(P(i)) = Cardinality(P(j))
               PROVE  FALSE
    OBVIOUS
  <2>0. /\ i \in Int /\ j \in Int /\ \A q \in S : q \in Int
        /\ \A q : q \in P(i) <=> q \in S /\ q <= i
        /\ \A q : q \in P(j) <=> q \in S /\ q <= j
    OBVIOUS
  <2>1. P(i) \in SUBSET P(j) /\ j \in P(j) /\ j \notin P(i)
    <3>1. ASSUME NEW q \in P(i) PROVE q \in P(j)
      <4>1. q \in S /\ q <= i /\ q \in Int
        BY <2>0, <3>1
      <4> HIDE DEF P
      <4>2. q <= j
        BY <2>0, <4>1
      <4> QED
        BY <2>0, <4>1, <4>2
    <3>2. j \in P(j)
      <4> HIDE DEF P
      <4> QED
        BY <2>0
    <3>3. j \notin P(i)
      <4> HIDE DEF P
      <4> QED
        BY <2>0
    <3> QED
      BY <3>1, <3>2, <3>3
  <2> HIDE DEF P
  <2> QED
    BY <1>2, <2>1, FS_Subset
<1> HIDE DEF P, n
<1>4. h \in [S -> 1 .. n]
  BY <1>2
<1>5. \A i, j \in S : i # j => h[i] # h[j]
  <2> SUFFICES ASSUME NEW i \in S, NEW j \in S, i # j PROVE h[i] # h[j]
    OBVIOUS
  <2>1. i < j \/ j < i
    OBVIOUS
  <2> QED
    BY <1>3, <2>1
<1>6. h \in Injection(S, 1 .. n)
  <2> HIDE DEF h
  <2> QED
    BY <1>4, <1>5 DEF Injection, IsInjective
<1>7. h \in Surjection(S, 1 .. n)
  <2>1. Cardinality(S) = Cardinality(1 .. n)
    BY <1>1 DEF n
  <2> HIDE DEF h
  <2> QED
    BY <1>1, <1>6, <2>1, FS_Injection
<1>8. \A k \in 1 .. n : \E i \in S : h[i] = k
  <2> HIDE DEF h
  <2> QED
    BY <1>7 DEF Surjection
<1>9. /\ \A i \in S : h[i] \in 1 .. n
      /\ \A i, q \in S : h[i] = h[q] => i = q
  <2> HIDE DEF h
  <2> QED
    BY <1>4, <1>5
<1> QED
  BY <1>8, <1>9 DEF P, n

\* What comes from the gateway is typed: every order has a net, and so has the
\* payout.
LEMMA NormalisedIsTyped ==
  ASSUME NEW rows \in Seq(RowType)
  PROVE  /\ Normalised(rows).net \in Int
         /\ \A k \in DOMAIN Normalised(rows).orders : Normalised(rows).orders[k].net \in Int
<1>1. /\ DOMAIN rows = 1 .. Len(rows) /\ Len(rows) \in Nat
      /\ IsFiniteSet(DOMAIN rows) /\ DOMAIN rows \subseteq Nat
      /\ \A i \in DOMAIN rows : rows[i] \in RowType
  <2>1. DOMAIN rows = 1 .. Len(rows) /\ Len(rows) \in Nat
    BY LenProperties
  <2>2. IsFiniteSet(1 .. Len(rows))
    BY <2>1, FS_Interval
  <2> QED
    BY <2>1, <2>2, ElementOfSeq
<1>2. /\ Composing(rows) \subseteq DOMAIN rows
      /\ {i \in Counted(rows) : rows[i].settled} \in SUBSET DOMAIN rows
  BY DEF Composing, Counted, Kept
<1>3. \A raw \in RawAmounts : Amount(raw) \in Int
  BY DEF Amount, RawAmounts
<1>4. SettlementNet(rows) \in Int
  <2> DEFINE D == DOMAIN rows
             b == BroughtIn(rows)
             T == {i \in Counted(rows) : rows[i].settled}
  <2>1. b \in [D -> Int]
    <3>1. \A i \in D : Amount(rows[i].credit) \in Int /\ Amount(rows[i].debit) \in Int
      BY <1>1, <1>3 DEF RowType
    <3> QED
      BY <3>1 DEF BroughtIn
  <2>2. SettlementNet(rows) = Total(b, T)
    BY DEF SettlementNet, Total, Ext!MapThenSumSet, Sets!MapThenSumSet,
           Ext!MapThenFoldSet, Sets!MapThenFoldSet
  <2>3. T \in SUBSET D /\ IsFiniteSet(D)
    BY <1>1, <1>2
  <2>4. Total(b, T) \in Int
    <3> HIDE DEF D, b, T
    <3> QED
      BY <2>1, <2>3, TotalStep
  <2> QED
    BY <2>2, <2>4
<1>5. ASSUME NEW k \in 1 .. Cardinality(Composing(rows))
      PROVE  OrderOf(RowOf(rows, k)).net \in Int
  <2>1. IsFiniteSet(Composing(rows)) /\ Composing(rows) \subseteq Nat
    BY <1>1, <1>2, FS_Subset
  <2>2. \E i \in Composing(rows) : NumberOf(rows, i) = k
    <3>1. \A q \in 1 .. Cardinality(Composing(rows)) :
            \E i \in Composing(rows) : Cardinality({j \in Composing(rows) : j <= i}) = q
      BY <2>1, EveryNumberIsGiven
    <3> QED
      BY <1>5, <3>1 DEF NumberOf
  <2>3. PICK i \in Composing(rows) : RowOf(rows, k) = rows[i]
    BY <2>2 DEF RowOf
  <2>4. rows[i] \in RowType /\ rows[i].method \in DOMAIN FeeBps
    BY <1>1, <1>2, <2>3 DEF Composing
  <2>5. PICK row \in RowType : row = rows[i] /\ row.method \in DOMAIN FeeBps
    BY <2>4
  <2>6. FeeBps[row.method] \in Int
    BY <2>5 DEF FeeBps
  <2>7. Amount(Gross(row)) \in Int
    <3>1. row.amount \in RawAmounts /\ row.credit \in RawAmounts /\ row.fee \in RawAmounts
          /\ row.tax \in RawAmounts
      BY <2>5 DEF RowType
    <3>2. \A n \in Int : Paise(n) \in RawAmounts
      BY DEF Paise, RawAmounts
    <3>3. Amount(row.credit) + Amount(row.fee) + Amount(row.tax) \in Int
      BY <1>3, <3>1
    <3>4. Gross(row) \in RawAmounts
      BY <3>1, <3>2, <3>3 DEF Gross
    <3> QED
      BY <1>3, <3>4
  <2>8. \A g, b \in Int : RoundHalfUp(g * b, 10000) \in Int
    BY DEF RoundHalfUp
  <2>9. PICK g \in Int : g = Amount(Gross(row))
    BY <2>7
  <2>10. FeePaise(g, row.method) \in Int
    BY <2>6, <2>8 DEF FeePaise
  <2>11. TaxPaise(FeePaise(g, row.method)) \in Int
    BY <2>8, <2>10 DEF TaxPaise
  <2>12. NetPaise(g, row.method) \in Int
    BY <2>10, <2>11 DEF NetPaise
  <2> QED
    BY <2>3, <2>5, <2>9, <2>12 DEF OrderOf
<1> QED
  BY <1>4, <1>5 DEF Normalised

LEMMA LoadKeeps ==
  ASSUME RunInv, PullInv, Load
  PROVE  RunInv'
<1> DEFINE snapshot == Normalised(items)
           records == [k \in DOMAIN snapshot.orders |-> Record(snapshot.orders[k].net, start)]
<1>1. Book(records, snapshot.net, day)
  BY DEF Load
<1>2. /\ snapshot.net \in Int
      /\ \A k \in DOMAIN snapshot.orders : snapshot.orders[k].net \in Int
  BY NormalisedIsTyped DEF PullInv
<1>3. UNCHANGED <<walk, family, rest, source, ledger, arrivals, asked, items, skip, pull>>
  BY DEF Load
<1>4. late' = late /\ whole' = whole
  BY <1>3 DEF rest, days
<1> HIDE DEF snapshot
<1>5. \A k \in DOMAIN records : records[k].net \in Int
  BY <1>2 DEF Record
<1> HIDE DEF records
<1>6. /\ net' \in [Orders -> Int] /\ credit' \in [Settlements -> Int]
      /\ turn' = turn /\ rung' = rung /\ spent' = spent /\ findings' = findings
  BY <1>1, <1>2, <1>5, BookTyped
<1>7. turn = 1 /\ findings = [s \in Settlements |-> Undecided]
  BY DEF RunInv, Load
<1> QED
  BY <1>4, <1>6, <1>7, NothingDecided DEF RunInv, EngineOK

LEMMA WithholdKeeps ==
  ASSUME RunInv, Withhold
  PROVE  RunInv'
<1>1. /\ turn = 1 /\ rung' = rung /\ turn' = turn /\ spent' = spent /\ findings' = findings
      /\ credit' = credit /\ whole' = net
  BY DEF Withhold
<1>2. net' \in [Orders -> Int]
  BY DEF Withhold, RunInv, EngineOK
<1> QED
  BY <1>1, <1>2, NothingDecided DEF RunInv, EngineOK

LEMMA RunAgainKeeps ==
  ASSUME RunInv, RunAgain
  PROVE  RunInv'
<1>1. /\ turn' = 1 /\ rung' = 0 /\ spent' = {} /\ credit' = credit
      /\ findings' = [s \in Settlements |-> Undecided]
      /\ net' = whole /\ whole' = whole /\ late' = late /\ late # {}
  BY DEF RunAgain
<1>2. 0 \in 0 .. LastRung
  BY DEF LastRung, LagLadder
<1> QED
  BY <1>1, <1>2, NothingDecided DEF RunInv, EngineOK

\* The cascade over the book it was given.
LEMMA ReconcileKeeps ==
  ASSUME RunInv, Next, UNCHANGED days
  PROVE  RunInv'
<1>1. EngineOK' /\ SearchInv'
  BY NextEngineOK, NextSearchInv DEF RunInv
<1>2. phase # "source" /\ phase' # "source"
  BY DEF Next, MatchSingle, Skip, Decide, Widen, Exhaust, Finish, AttachCores, Searched,
         Deciding, Conclude
<1>3. turn' = 1 => findings' = [s \in Settlements |-> Undecided]
  <2> SUFFICES ASSUME turn' = 1 PROVE findings' = [s \in Settlements |-> Undecided]
    OBVIOUS
  <2>1. turn \in Nat \ {0}
    BY DEF RunInv, EngineOK
  <2>2. CASE MatchSingle \/ Skip \/ Decide \/ Exhaust
    <3>1. turn' = turn + 1
      BY <2>2 DEF MatchSingle, Skip, Decide, Exhaust, Conclude
    <3> QED
      BY <2>1, <3>1
  <2>3. CASE Widen \/ Finish
    <3>1. UNCHANGED <<turn, findings>>
      BY <2>3 DEF Widen, Finish
    <3> QED
      BY <3>1 DEF RunInv
  <2>4. CASE AttachCores
    <3>1. turn = 1 /\ findings = [s \in Settlements |-> Undecided]
      BY <2>4 DEF AttachCores, RunInv
    <3>2. Undecided.verdict = "UNDECIDED"
      BY DEF Undecided
    <3>3. \A s \in Settlements : ~Explainable(findings[s])
      BY <3>1, <3>2 DEF Explainable
    <3>4. findings' = [s \in Settlements |-> findings[s]]
      BY <2>4, <3>3 DEF AttachCores
    <3> QED
      BY <3>1, <3>4
  <2> QED
    BY <2>2, <2>3, <2>4 DEF Next
<1>4. late' = late /\ whole' = whole
  BY DEF days
<1> QED
  BY <1>1, <1>2, <1>3, <1>4 DEF RunInv

LEMMA InitRunInv == AnchoringInit => RunInv
<1> SUFFICES ASSUME AnchoringInit PROVE RunInv
  OBVIOUS
<1>1. /\ net \in [Orders -> Int] /\ credit \in [Settlements -> Int]
      /\ turn = 1 /\ rung = 0 /\ spent = {} /\ findings = [s \in Settlements |-> Undecided]
      /\ late = {}
  BY DEF AnchoringInit, NoBook, DaysInit
<1>2. findings \in [Settlements -> FindingType]
  BY <1>1, UndecidedIsFaithful
<1>3. EngineOK
  BY <1>1, <1>2 DEF EngineOK, LastRung, LagLadder
<1>4. SearchInv
  BY <1>1, UndecidedIsFaithful DEF SearchInv
<1> QED
  BY <1>1, <1>3, <1>4 DEF RunInv

LEMMA AnchoringRun == PullInv /\ RunInv /\ [AnchoringNext]_all => RunInv'
<1> SUFFICES ASSUME PullInv, RunInv, [AnchoringNext]_all PROVE RunInv'
  OBVIOUS
<1>1. CASE Load
  BY <1>1, LoadKeeps
<1>2. CASE FetchSynthetic
  BY <1>2, DrawKeeps DEF FetchSynthetic, rest
<1>3. CASE Reconcile
  BY <1>3, ReconcileKeeps DEF Reconcile, rest
<1>4. CASE Compare
  BY <1>4, WithholdKeeps, RunAgainKeeps DEF Compare
<1>5. CASE UNCHANGED vars /\ UNCHANGED days
  BY <1>5 DEF RunInv, EngineOK, SearchInv, vars, days
<1>6. CASE WalkStep
  BY <1>5, <1>6 DEF WalkStep, Step, rest
<1>7. CASE FetchRazorpay
  BY <1>5, <1>7 DEF FetchRazorpay, rest
<1>8. CASE Loop
  <2>1. UNCHANGED vars /\ UNCHANGED days
    BY <1>8 DEF Loop, Investigate, AskModel, AskBatch, Round
  <2> QED
    BY <1>5, <2>1
<1>9. CASE Ask
  BY <1>5, <1>9 DEF Ask, Request
<1>10. CASE UNCHANGED all
  BY <1>5, <1>10 DEF all
<1> QED
  BY <1>1, <1>2, <1>3, <1>4, <1>6, <1>7, <1>8, <1>9, <1>10 DEF AnchoringNext

-----------------------------------------------------------------------------
(* The loop and the request *)

\* While the loop runs the answer stands still, and what it promotes is the
\* abstention with one of its explanations picked out by an accepted anchor.  A
\* request is made of an answer that stands still.
LoopInv ==
  /\ subject \in Settlements
  /\ loop \in {"idle", "running", "done"}
  /\ loop # "idle" => phase = "done" /\ late = {}
  /\ loop = "running" => proposed = findings[subject] /\ proposed.verdict = "AMBIGUOUS"
  /\ (loop = "done" /\ proposed # findings[subject]) =>
       /\ findings[subject].verdict = "AMBIGUOUS"
       /\ \E p \in Accepts(anchor, Listed) : proposed = Promoted(findings[subject], p)
  /\ attempt # "none" => loop = "done"
  /\ PermittedIsPosted

LEMMA InvestigateKeeps ==
  ASSUME LoopInv, Investigate, late = {}, UNCHANGED <<days, attempt>>
  PROVE  LoopInv'
<1>1. /\ loop = "idle" /\ phase = "done" /\ subject' = subject /\ UNCHANGED vars
      /\ proposed' = findings[subject]
      /\ loop' = IF findings[subject].verdict = "AMBIGUOUS" /\ MaxRounds > 0
                 THEN "running" ELSE "done"
  BY DEF Investigate
<1>2. findings' = findings /\ phase' = phase /\ late' = late /\ attempt' = attempt
  BY <1>1 DEF vars, days
<1>3. attempt = "none"
  BY <1>1 DEF LoopInv
<1>4. proposed' = findings'[subject']
      /\ (loop' = "running" => findings'[subject'].verdict = "AMBIGUOUS")
      /\ loop' \in {"running", "done"}
  BY <1>1, <1>2
<1> QED
  BY <1>1, <1>2, <1>3, <1>4 DEF LoopInv, PermittedIsPosted

LEMMA RoundKeeps ==
  ASSUME LoopInv, NEW proposal, Round(proposal), UNCHANGED <<days, attempt>>
  PROVE  LoopInv'
<1>0. /\ loop = "running" /\ subject' = subject /\ UNCHANGED vars
      /\ Accept(proposal) \/ Abstain(proposal) \/ Refute(proposal)
  BY DEF Round
<1>1. /\ phase = "done" /\ late = {} /\ attempt = "none"
      /\ proposed = findings[subject] /\ proposed.verdict = "AMBIGUOUS"
  BY <1>0 DEF LoopInv
<1>2. /\ findings' = findings /\ net' = net /\ credit' = credit /\ phase' = phase
      /\ late' = late /\ attempt' = attempt
  BY <1>0 DEF vars, days
<1>3. CASE Accept(proposal)
  <2>1. loop' = "done" /\ \E p \in Accepts(anchor', Listed) : proposed' = Promoted(proposed, p)
    BY <1>3 DEF Accept
  <2>2. \E p \in Accepts(anchor, Listed)' : proposed' = Promoted(findings[subject], p)'
    BY <1>0, <1>1, <1>2, <2>1 DEF Accepts, Listed, Candidates, Containing, KernelAccepts, Promoted
  <2> QED
    BY <1>0, <1>1, <1>2, <2>1, <2>2 DEF LoopInv, PermittedIsPosted
<1>4. CASE Abstain(proposal)
  <2>1. loop' = "done" /\ proposed' = proposed
    BY <1>4 DEF Abstain
  <2> QED
    BY <1>0, <1>1, <1>2, <2>1 DEF LoopInv, PermittedIsPosted
<1>5. CASE Refute(proposal)
  <2>1. loop' = loop /\ proposed' = proposed
    BY <1>5 DEF Refute
  <2> QED
    BY <1>0, <1>1, <1>2, <2>1 DEF LoopInv, PermittedIsPosted
<1> QED
  BY <1>0, <1>3, <1>4, <1>5

\* A permitted request is about the engine's own proof: nothing else carries the
\* candidates it was decided over.
LEMMA PermissionIsEarned ==
  ASSUME LoopInv, RunInv, Request(Requesters, Capabilities), attempt' = "action"
  PROVE  /\ findings[subject].verdict = "PROVEN"
         /\ ~Refused(subject, "AUTO_POST")
<1>1. loop = "done"
  BY DEF Request
<1>2. PICK q \in Requests(Requesters, Capabilities, {NoFinding, findings[subject], proposed},
                          Prices \cup {Unmeasured}) :
        StoppedAt(q) = "action"
  BY DEF Request
<1>3. q.finding \in {NoFinding, findings[subject], proposed}
  BY DEF Requests
<1>4. \A i \in DOMAIN Stages : Passes(Stages[i], q)
  <2> DEFINE refusing == {i \in DOMAIN Stages : ~Passes(Stages[i], q)}
  <2>1. refusing \subseteq 1 .. 4
    BY DEF Stages
  <2>2. ASSUME refusing # {} PROVE FALSE
    <3> DEFINE least == CHOOSE i \in refusing : \A j \in refusing : i <= j
    <3>1. refusing \subseteq Nat
      BY <2>1
    <3>2. \E i \in refusing : \A j \in refusing : i <= j
      <4> HIDE DEF refusing
      <4> QED
        BY <2>2, <3>1, LeastNumber
    <3>3. least \in refusing
      <4> HIDE DEF refusing
      <4> QED
        BY <3>2
    <3>4. StoppedAt(q) = Stages[least]
      BY <2>2 DEF StoppedAt
    <3>5. least \in 1 .. 4
      BY <2>1, <3>3
    <3> HIDE DEF least
    <3> QED
      BY <1>2, <3>4, <3>5 DEF Stages
  <2> QED
    BY <2>2
<1>5. /\ Postable(q.finding)
      /\ Judgement(q.finding.verdict, credit[subject], q.price) = "AUTO_POST"
  <2>1. Passes("verification", q) /\ Passes("policy", q)
    BY <1>4 DEF Stages
  <2> QED
    BY <2>1 DEF Passes
<1>6. q.finding = findings[subject]
  <2>1. q.finding.space.members # {}
    BY <1>5 DEF Postable
  <2>2. NoFinding.space.members = {}
    BY DEF NoFinding, Undecided, EmptySpace
  <2>3. proposed # findings[subject] => proposed.space.members = {}
    <3> SUFFICES ASSUME proposed # findings[subject] PROVE proposed.space.members = {}
      OBVIOUS
    <3>1. PICK p : proposed = Promoted(findings[subject], p)
      BY <1>1 DEF LoopInv
    <3>2. findings[subject] \in FindingType
      BY DEF RunInv, EngineOK, LoopInv
    <3>3. Promoted(findings[subject], p).space = EmptySpace
      BY <3>2 DEF Promoted, FindingType
    <3> QED
      BY <3>1, <3>3 DEF EmptySpace
  <2> QED
    BY <1>3, <2>1, <2>2, <2>3
<1>7. findings[subject].verdict = "PROVEN"
  BY <1>5, <1>6 DEF Judgement
<1>8. KernelAccepts(net, Cited(subject), credit[subject])
  <2>1. Faithful(findings[subject], net, credit[subject])
    BY DEF RunInv, SearchInv, LoopInv
  <2>2. PICK p \in findings[subject].proofs :
          findings[subject].proofs = {p} /\ KernelAccepts(net, p, credit[subject])
    BY <1>7, <2>1 DEF Faithful
  <2>3. Cited(subject) = p
    BY <2>2 DEF Cited
  <2> QED
    BY <2>2, <2>3
<1> QED
  BY <1>5, <1>6, <1>7, <1>8 DEF Refused

LEMMA AskKeeps ==
  ASSUME LoopInv, RunInv, Request(Requesters, Capabilities), UNCHANGED days
  PROVE  LoopInv'
<1>1. loop = "done" /\ UNCHANGED loopvars /\ UNCHANGED vars
  BY DEF Request
<1>2. /\ loop' = loop /\ proposed' = proposed /\ subject' = subject /\ anchor' = anchor
      /\ findings' = findings /\ net' = net /\ credit' = credit /\ phase' = phase /\ late' = late
  BY <1>1 DEF loopvars, vars, days
<1>3. PermittedIsPosted'
  BY <1>2, PermissionIsEarned
     DEF PermittedIsPosted, Refused, Cited, Postable, KernelAccepts
<1> QED
  BY <1>1, <1>2, <1>3 DEF LoopInv, Accepts, Listed, Candidates, Containing, KernelAccepts

LEMMA CascadeIsNotOver == Next => phase # "done"
BY DEF Next, MatchSingle, Skip, Decide, Widen, Exhaust, Finish, AttachCores, Searched, Deciding

LEMMA AnchoringLoop ==
  PullInv /\ RunInv /\ LoopInv /\ [AnchoringNext]_all => LoopInv'
<1> SUFFICES ASSUME RunInv, LoopInv, [AnchoringNext]_all PROVE LoopInv'
  OBVIOUS
<1>1. CASE Loop
  <2>1. UNCHANGED <<days, attempt>> /\ late = {}
    BY <1>1 DEF Loop
  <2> QED
    BY <1>1, <2>1, InvestigateKeeps, RoundKeeps DEF Loop, AskModel, AskBatch
<1>2. CASE Ask
  BY <1>2, AskKeeps DEF Ask
<1>3. CASE UNCHANGED <<vars, days, loopvars, attempt>>
  BY <1>3 DEF LoopInv, PermittedIsPosted, Refused, Cited, Accepts, Listed, Candidates, Containing,
              vars, days, loopvars
<1>4. ASSUME loop = "idle", UNCHANGED <<loopvars, attempt>> PROVE LoopInv'
  BY <1>4 DEF LoopInv, PermittedIsPosted, loopvars
<1>5. CASE Load \/ FetchSynthetic
  <2>1. phase = "source" /\ UNCHANGED <<loopvars, attempt>>
    BY <1>5 DEF Load, FetchSynthetic, Draw, rest
  <2> QED
    BY <1>4, <2>1 DEF LoopInv
<1>6. CASE Reconcile
  <2>1. Next /\ UNCHANGED <<loopvars, attempt>>
    BY <1>6 DEF Reconcile, rest
  <2>2. phase # "done"
    BY <2>1, CascadeIsNotOver
  <2> QED
    BY <1>4, <2>1, <2>2 DEF LoopInv
<1>7. CASE Compare
  <2>1. UNCHANGED <<loopvars, attempt>> /\ (phase = "cascade" \/ late # {})
    BY <1>7 DEF Compare, Withhold, RunAgain
  <2> QED
    BY <1>4, <2>1 DEF LoopInv
<1>8. CASE WalkStep \/ FetchRazorpay \/ UNCHANGED all
  <2>1. UNCHANGED <<vars, days, loopvars, attempt>>
    BY <1>8 DEF WalkStep, FetchRazorpay, Step, rest, all
  <2> QED
    BY <1>3, <2>1
<1> QED
  BY <1>1, <1>2, <1>5, <1>6, <1>7, <1>8 DEF AnchoringNext

LEMMA InitLoop == AnchoringInit => LoopInv
BY DEF AnchoringInit, LoopInit, AgentsInit, LoopInv, PermittedIsPosted

\* The inductive invariant, for every source, book and proposer: the pull, the
\* engine over the book it was given, and the loop and request over its answer.
THEOREM AnchoringInvariant == AnchoringSpec => [](PullInv /\ RunInv /\ LoopInv)
<1>1. AnchoringInit => PullInv /\ RunInv /\ LoopInv
  BY InitPull, InitRunInv, InitLoop DEF AnchoringInit
<1>2. PullInv /\ RunInv /\ LoopInv /\ [AnchoringNext]_all => (PullInv /\ RunInv /\ LoopInv)'
  BY AnchoringPull, AnchoringRun, AnchoringLoop
<1> QED
  BY <1>1, <1>2, PTL DEF AnchoringSpec

\* Whatever a proposer names, it chooses and never adds: what the loop promotes
\* is an explanation the engine listed, and after a complete search no other set
\* of candidates in reach holds the anchor unless a listed explanation is in it.
THEOREM AnchorsAddNothing == AnchoringSpec => []AnchorsOnlyChoose
<1>1. RunInv /\ LoopInv => AnchorsOnlyChoose
  <2> SUFFICES ASSUME RunInv, LoopInv, loop = "done", proposed # findings[subject]
               PROVE  /\ \E p \in Listed : proposed.proofs = {p} /\ anchor \subseteq p
                      /\ proposed.exhaustive =>
                           \A S \in SUBSET Candidates :
                             (anchor \subseteq S /\ InReach(net, Candidates, S, credit[subject])) =>
                                \E q \in Listed :
                                  q \subseteq S /\ ({q} = proposed.proofs \/ ~(anchor \subseteq q))
    BY DEF AnchorsOnlyChoose
  <2>1. findings[subject] \in FindingType /\ subject \in Settlements
        /\ findings[subject].verdict = "AMBIGUOUS" /\ Faithful(findings[subject], net, credit[subject])
    BY DEF RunInv, LoopInv, EngineOK, SearchInv
  <2>2. PICK p \in Accepts(anchor, Listed) : proposed = Promoted(findings[subject], p)
    BY DEF LoopInv
  <2>3. p \in Containing(anchor, Listed) /\ Cardinality(Containing(anchor, Listed)) = 1
    BY <2>2 DEF Accepts
  <2>4. IsFiniteSet(Containing(anchor, Listed))
    <3>1. IsFiniteSet(SUBSET Orders)
      BY SubsetSumAssumption, FS_SUBSET
    <3>2. Containing(anchor, Listed) \in SUBSET SUBSET Orders
      BY <2>1 DEF Containing, Listed, FindingType
    <3> QED
      BY <3>1, <3>2, FS_Subset
  <2>5. Containing(anchor, Listed) = {p}
    BY <2>3, <2>4, FS_Singleton
  <2>6. p \in Listed /\ anchor \subseteq p
    BY <2>3 DEF Containing
  <2>7. proposed.proofs = {p} /\ proposed.exhaustive = findings[subject].exhaustive
    BY <2>1, <2>2 DEF Promoted, FindingType
  <2>8. ASSUME proposed.exhaustive, NEW S \in SUBSET Candidates, anchor \subseteq S,
               InReach(net, Candidates, S, credit[subject])
        PROVE  \E q \in Listed : q \subseteq S /\ ({q} = proposed.proofs \/ ~(anchor \subseteq q))
    <3>1. Listed = Explanations(net, Candidates, credit[subject])
      BY <2>1, <2>7, <2>8 DEF Faithful, Listed, Candidates
    <3>2. PICK q \in Listed : q \subseteq S
      BY <2>1, <2>8, <3>1, ReachIsSearched DEF RunInv, Candidates
    <3>3. anchor \subseteq q => q = p
      BY <2>5 DEF Containing
    <3> QED
      BY <2>7, <3>2, <3>3
  <2> QED
    BY <2>6, <2>7, <2>8
<1> QED
  BY <1>1, AnchoringInvariant, PTL

\* An agent's request is granted only about a settlement the engine proved by
\* itself, and which the ledger would not refuse: whatever agents ask, for
\* whatever capability, and whatever the loop was talked into.
THEOREM OnlyProofsArePermitted == AnchoringSpec => []PermittedIsPosted
<1>1. LoopInv => PermittedIsPosted
  BY DEF LoopInv
<1> QED
  BY <1>1, AnchoringInvariant, PTL

-----------------------------------------------------------------------------
(* Once each *)

\* From the moment a payout of the gateway is handed over, the engine is asked
\* for the sum of the rows that count, and the truth is among the orders made
\* of them.
BookedInv ==
  (source = "razorpay" /\ phase # "source") =>
    /\ credit[Payout] = SettlementNet(items)
    /\ truth \subseteq 1 .. Cardinality(Composing(items))

LEMMA AnchoringBooked == BookedInv /\ [AnchoringNext]_all => BookedInv'
<1> SUFFICES ASSUME BookedInv, [AnchoringNext]_all PROVE BookedInv'
  OBVIOUS
<1>1. CASE Load
  <2> DEFINE snapshot == Normalised(items)
  <2>1. /\ credit' = [s \in Settlements |-> snapshot.net]
        /\ truth' = {k \in DOMAIN snapshot.orders : snapshot.orders[k].linked}
        /\ items' = items
    BY <1>1 DEF Load, Book
  <2>2. snapshot.net = SettlementNet(items)
        /\ DOMAIN snapshot.orders = 1 .. Cardinality(Composing(items))
    BY DEF Normalised
  <2>3. Payout \in Settlements
    <3>1. Settlements # {}
      BY PortfolioAssumption, FS_EmptySet
    <3> QED
      BY <3>1 DEF Payout
  <2> HIDE DEF snapshot
  <2>4. credit'[Payout] = SettlementNet(items)
    BY <2>1, <2>2, <2>3
  <2>5. truth' \subseteq 1 .. Cardinality(Composing(items))
    BY <2>1, <2>2
  <2>6. SettlementNet(items)' = SettlementNet(items) /\ Composing(items)' = Composing(items)
    BY <2>1
  <2> QED
    BY <2>4, <2>5, <2>6 DEF BookedInv
<1>2. CASE FetchSynthetic \/ Compare
  <2>1. source' = "synthetic"
    BY <1>2 DEF FetchSynthetic, Compare
  <2> QED
    BY <2>1 DEF BookedInv
<1>3. CASE FetchRazorpay
  <2>1. phase' = "source"
    BY <1>3 DEF FetchRazorpay, vars
  <2> QED
    BY <2>1 DEF BookedInv
<1>4. CASE Reconcile
  <2>1. UNCHANGED <<credit, items, truth, source>> /\ phase # "source"
    BY <1>4 DEF Reconcile, Next, MatchSingle, Skip, Decide, Widen, Exhaust, Finish,
                AttachCores, Searched, Deciding, Conclude, book, drawn, gateway
  <2> QED
    BY <2>1 DEF BookedInv
<1>5. CASE WalkStep \/ Loop \/ Ask \/ UNCHANGED all
  <2>1. UNCHANGED <<credit, phase, items, truth, source>>
    BY <1>5 DEF WalkStep, Step, Loop, Investigate, AskModel, AskBatch, Round, Ask, Request,
                all, vars, drawn, gateway
  <2> QED
    BY <2>1 DEF BookedInv
<1> QED
  BY <1>1, <1>2, <1>3, <1>4, <1>5 DEF AnchoringNext

\* A record that names itself is counted at one place among the rows, where it
\* was read first.
LEMMA OnePlaceEach ==
  ASSUME items \in Seq(RowType), Identified, NEW row \in Distinct
  PROVE  \E i \in Counted(items) :
           /\ items[i] = row
           /\ \A j \in Counted(items) : items[j] = row => j = i
<1> DEFINE Places == {k \in DOMAIN items : items[k] = row}
<1>1. DOMAIN items = 1 .. Len(items) /\ Len(items) \in Nat
  BY LenProperties
<1>2. Places \subseteq Nat /\ Places # {}
  BY <1>1 DEF Distinct, Range
<1>3. PICK i \in Places : \A k \in Places : i <= k
  <2> HIDE DEF Places
  <2> QED
    BY <1>2, LeastNumber
<1>4. /\ i \in DOMAIN items /\ i \in Nat /\ items[i] = row
      /\ NamesOf(row) # {} /\ ~Conflicted(row) /\ ColumnsRead(row)
  BY <1>2, <1>3 DEF Identified, Distinct
<1>5. ~\E j \in 1 .. (i - 1) : items[j].kind = row.kind /\ NamesOf(items[j]) = NamesOf(row)
  <2> SUFFICES ASSUME NEW j \in 1 .. (i - 1), items[j].kind = row.kind,
                      NamesOf(items[j]) = NamesOf(row)
               PROVE  FALSE
    OBVIOUS
  <2>1. j \in DOMAIN items /\ j \in Nat /\ j < i
    BY <1>1, <1>4
  <2>2. items[j] = row
    BY <2>1 DEF Identified, Range
  <2> QED
    BY <1>3, <1>4, <2>1, <2>2
<1>6. i \in Counted(items)
  BY <1>4, <1>5 DEF Counted, Kept
<1>7. ASSUME NEW j \in Counted(items), items[j] = row, j # i PROVE FALSE
  <2>1. j \in DOMAIN items /\ j \in Places
    BY <1>7 DEF Counted, Kept
  <2>2. i \in 1 .. (j - 1)
    BY <1>1, <1>3, <1>4, <1>7, <2>1
  <2> QED
    BY <1>4, <1>7, <2>2 DEF Counted, Kept
<1> QED
  BY <1>4, <1>6, <1>7

\* What counts is read from a record without conflict.
LEMMA CountedIsDistinct ==
  ASSUME NEW i \in Counted(items)
  PROVE  i \in DOMAIN items /\ items[i] \in Distinct
BY DEF Counted, Kept, Distinct, Range

LEMMA RowsAreFinite ==
  ASSUME items \in Seq(RowType)
  PROVE  /\ IsFiniteSet(DOMAIN items) /\ IsFiniteSet(Distinct)
         /\ Distinct \subseteq RowType
<1>1. DOMAIN items = 1 .. Len(items) /\ Len(items) \in Nat
  BY LenProperties
<1>2. IsFiniteSet(DOMAIN items)
  BY <1>1, FS_Interval
<1>3. IsFiniteSet({items[i] : i \in DOMAIN items})
  BY <1>2, ImageIsFinite
<1>4. Distinct \in SUBSET {items[i] : i \in DOMAIN items}
  BY DEF Distinct, Range
<1>5. \A i \in DOMAIN items : items[i] \in RowType
  BY <1>1, ElementOfSeq
<1> QED
  BY <1>2, <1>3, <1>4, <1>5, FS_Subset

\* The sum over the rows that count is the sum over the distinct records.
LEMMA SettledOnce ==
  ASSUME items \in Seq(RowType), Identified
  PROVE  SettlementNet(items)
           = Total([row \in Distinct |-> Amount(row.credit) - Amount(row.debit)],
                   {row \in Distinct : row.settled})
<1> DEFINE D == DOMAIN items
           b == BroughtIn(items)
           T == {i \in Counted(items) : items[i].settled}
           worth == [row \in Distinct |-> Amount(row.credit) - Amount(row.debit)]
           K == {row \in Distinct : row.settled}
           key == [i \in T |-> items[i]]
           sub == [row \in K |-> worth[row]]
<1>1. IsFiniteSet(D) /\ IsFiniteSet(Distinct) /\ K \in SUBSET Distinct /\ IsFiniteSet(K)
  BY RowsAreFinite, FS_Subset
<1>2. \A row \in RowType : Amount(row.credit) - Amount(row.debit) \in Int
  <2>1. \A raw \in RawAmounts : Amount(raw) \in Int
    BY DEF Amount, RawAmounts
  <2> QED
    BY <2>1 DEF RowType
<1>3. worth \in [Distinct -> Int]
  BY <1>2, RowsAreFinite
<1>4. b \in [D -> Int] /\ \A i \in D : items[i] \in Distinct => b[i] = worth[items[i]]
  <2>1. \A i \in D : items[i] \in RowType
    BY LenProperties, ElementOfSeq
  <2> QED
    BY <1>2, <2>1 DEF BroughtIn
<1>5. T \in SUBSET D /\ key \in [T -> K]
  BY CountedIsDistinct
<1>6. sub \in [K -> Int] /\ \A row \in K : sub[row] = worth[row]
  <2> HIDE DEF worth
  <2> QED
    BY <1>3
<1>7. ASSUME NEW row \in K PROVE sub[row] = Total(b, {i \in T : key[i] = row})
  <2>1. row \in Distinct /\ row.settled
    BY <1>7
  <2>2. PICK i \in Counted(items) :
          /\ items[i] = row
          /\ \A j \in Counted(items) : items[j] = row => j = i
    BY <2>1, OnePlaceEach
  <2>3. {j \in T : key[j] = row} = {i}
    BY <2>1, <2>2
  <2>4. i \in D /\ b[i] = worth[row] /\ b[i] \in Int
    <3>1. i \in D /\ items[i] \in Distinct
      BY <2>2, CountedIsDistinct
    <3> HIDE DEF D, b, worth
    <3> QED
      BY <1>4, <2>2, <3>1
  <2> HIDE DEF D, b, T, worth, K, key, sub
  <2>5. Total(b, {i}) = b[i] + Total(b, {i} \ {i})
    BY <1>1, <1>4, <2>4, TotalRemove
  <2>6. Total(b, {}) = 0
    BY <1>1, <1>4, TotalStep
  <2>7. Total(b, {i} \ {i}) = 0
    <3>1. {i} \ {i} = {}
      OBVIOUS
    <3> QED
      BY ONLY <2>6, <3>1, Zenon
  <2>8. Total(b, {i}) = b[i]
    BY ONLY <2>4, <2>5, <2>7, SMT
  <2> QED
    BY <1>6, <2>3, <2>4, <2>8
<1>8. SettlementNet(items) = Total(b, T)
  BY DEF SettlementNet, Total, Ext!MapThenSumSet, Sets!MapThenSumSet,
         Ext!MapThenFoldSet, Sets!MapThenFoldSet
<1>9. Total(worth, K) = Total(sub, K)
  <2> HIDE DEF D, b, T, worth, K, key, sub
  <2> QED
    BY <1>1, <1>3, <1>6, TotalSame
<1>10. Total(sub, K) = Total(b, T)
  <2> HIDE DEF D, b, T, worth, K, key, sub
  <2>1. /\ IsFiniteSet(D) /\ b \in [D -> Int] /\ T \in SUBSET D
        /\ IsFiniteSet(K) /\ key \in [T -> K] /\ sub \in [K -> Int]
    BY <1>1, <1>4, <1>5, <1>6
  <2>2. \A row \in K : sub[row] = Total(b, {i \in T : key[i] = row})
    BY <1>7
  <2> QED
    BY ONLY <2>1, <2>2, TotalByKey
<1> QED
  BY <1>8, <1>9, <1>10

\* No two orders are made of one record.
LEMMA OneOrderEach ==
  ASSUME items \in Seq(RowType), Identified
  PROVE  /\ IsFiniteSet(Composing(items))
         /\ Cardinality(Composing(items))
              <= Cardinality({row \in Distinct : row.kind = "payment"})
<1> DEFINE S == Composing(items)
           P == {row \in Distinct : row.kind = "payment"}
           f == [i \in S |-> items[i]]
<1>1. S \subseteq Counted(items) /\ S \in SUBSET DOMAIN items
  BY DEF Composing, Counted, Kept
<1>2. IsFiniteSet(S) /\ IsFiniteSet(P)
  <2>1. P \in SUBSET Distinct
    OBVIOUS
  <2> HIDE DEF S, P
  <2> QED
    BY <1>1, <2>1, RowsAreFinite, FS_Subset
<1>3. f \in [S -> P]
  BY CountedIsDistinct DEF Composing
<1>4. \A i, j \in S : f[i] = f[j] => i = j
  <2> SUFFICES ASSUME NEW i \in S, NEW j \in S, items[i] = items[j] PROVE i = j
    OBVIOUS
  <2>1. i \in Counted(items) /\ j \in Counted(items) /\ items[i] \in Distinct
    BY <1>1, CountedIsDistinct
  <2>2. PICK row \in Distinct : row = items[i]
    BY <2>1
  <2>3. PICK k \in Counted(items) : \A q \in Counted(items) : items[q] = row => q = k
    BY <2>2, OnePlaceEach
  <2> QED
    BY <2>1, <2>2, <2>3
<1>5. Cardinality(S) \in Nat /\ Cardinality(P) \in Nat
  BY <1>2, FS_CardinalityType
<1>6. ~(Cardinality(P) < Cardinality(S))
  <2> SUFFICES ASSUME Cardinality(P) < Cardinality(S) PROVE FALSE
    OBVIOUS
  <2> HIDE DEF S, P, f
  <2>1. \E x, y \in S : x # y /\ f[x] = f[y]
    BY <1>2, <1>3, FS_PigeonHole
  <2> QED
    BY <1>4, <2>1
<1> QED
  <2> HIDE DEF S, P
  <2>1. Cardinality(S) <= Cardinality(P)
    BY <1>5, <1>6
  <2> QED
    BY <1>2, <2>1 DEF S, P

\* Whatever pages overlapped while the ledger grew, what the engine is asked to
\* explain is the sum over the distinct records read, and none of them is two
\* orders of the truth (ADAPTER-001).
THEOREM EveryRecordCountsOnce == AnchoringSpec => []CountedOnce
<1>1. AnchoringInit => PullInv /\ BookedInv
  <2>1. AnchoringInit => BookedInv
    BY DEF AnchoringInit, BookedInv
  <2> QED
    BY <2>1, InitPull DEF AnchoringInit
<1>2. PullInv /\ BookedInv => CountedOnce
  <2> SUFFICES ASSUME PullInv, BookedInv, source = "razorpay", phase # "source", Identified
               PROVE  /\ credit[Payout]
                           = Total([row \in Distinct |-> Amount(row.credit) - Amount(row.debit)],
                                   {row \in Distinct : row.settled})
                      /\ Cardinality(truth) <= Cardinality({row \in Distinct : row.kind = "payment"})
    BY DEF CountedOnce
  <2>1. items \in Seq(RowType)
    BY DEF PullInv
  <2>2. /\ credit[Payout] = SettlementNet(items)
        /\ truth \subseteq 1 .. Cardinality(Composing(items))
    BY DEF BookedInv
  <2> DEFINE n == Cardinality(Composing(items))
             m == Cardinality({row \in Distinct : row.kind = "payment"})
  <2>3. n \in Nat /\ m \in Nat /\ n <= m
    <3>1. {row \in Distinct : row.kind = "payment"} \in SUBSET Distinct
      OBVIOUS
    <3> QED
      BY <2>1, <3>1, OneOrderEach, RowsAreFinite, FS_Subset, FS_CardinalityType
  <2>4. Cardinality(truth) \in Nat /\ Cardinality(truth) <= n
    <3>1. truth \subseteq 1 .. n
      BY <2>2
    <3> HIDE DEF n
    <3>2. IsFiniteSet(1 .. n) /\ Cardinality(1 .. n) = n
      BY <2>3, FS_Interval
    <3> QED
      BY <3>1, <3>2, FS_Subset, FS_CardinalityType
  <2>5. Cardinality(truth) <= m
    <3> HIDE DEF n, m
    <3> QED
      BY <2>3, <2>4
  <2> QED
    BY <2>1, <2>2, <2>5, SettledOnce
<1> QED
  BY <1>1, <1>2, AnchoringPull, AnchoringBooked, PTL DEF AnchoringSpec

-----------------------------------------------------------------------------
(* The walk *)

\* Two days of every seven are not business days.
Weekend(c, d) == ((d + 2) \div 7 - (c + 2) \div 7) + ((d + 1) \div 7 - (c + 1) \div 7)

\* The walk has counted the business days it passed, and stops on one.
WalkInv ==
  /\ start \in Nat /\ lag \in Nat \ {0} /\ day \in Nat /\ moved \in Nat
  /\ start <= day /\ moved <= lag
  /\ moved = Cardinality(BusinessDaysAfter(start, day))
  /\ moved = day - start - Weekend(start, day)
  /\ moved = lag => IsBusinessDay(day)
  /\ source = "razorpay" => moved = lag /\ lag = 2

LEMMA NextDay ==
  ASSUME NEW c \in Nat, NEW d \in Nat, c <= d
  PROVE  /\ Cardinality(BusinessDaysAfter(c, d)) \in Nat
         /\ Cardinality(BusinessDaysAfter(c, d + 1))
              = IF IsBusinessDay(d + 1) THEN Cardinality(BusinessDaysAfter(c, d)) + 1
                                        ELSE Cardinality(BusinessDaysAfter(c, d))
         /\ Weekend(c, d + 1) = IF IsBusinessDay(d + 1) THEN Weekend(c, d) ELSE Weekend(c, d) + 1
<1> DEFINE B == BusinessDaysAfter(c, d)
           B1 == BusinessDaysAfter(c, d + 1)
<1>1. IsFiniteSet(B)
  <2>1. IsFiniteSet((c + 1) .. d) /\ B \in SUBSET ((c + 1) .. d)
    BY FS_Interval DEF BusinessDaysAfter
  <2> QED
    BY <2>1, FS_Subset
<1>2. d + 1 \notin B
  BY DEF BusinessDaysAfter
<1>3. CASE IsBusinessDay(d + 1)
  <2>1. B1 = B \cup {d + 1}
    <3>1. \A x \in Int : x \in (c + 1) .. (d + 1) <=> x \in (c + 1) .. d \/ x = d + 1
      OBVIOUS
    <3>2. d + 1 \in Int /\ \A x : x \in (c + 1) .. (d + 1) \/ x \in (c + 1) .. d => x \in Int
      OBVIOUS
    <3> QED
      BY <1>3, <3>1, <3>2 DEF BusinessDaysAfter
  <2> HIDE DEF B, B1
  <2>2. Cardinality(B1) = Cardinality(B) + 1 /\ Cardinality(B) \in Nat
    BY <1>1, <1>2, <2>1, FS_AddElement, FS_CardinalityType
  <2>3. Weekend(c, d + 1) = Weekend(c, d)
    BY <1>3 DEF Weekend, IsBusinessDay
  <2> QED
    BY <1>3, <2>2, <2>3 DEF B, B1
<1>4. CASE ~IsBusinessDay(d + 1)
  <2>1. B1 = B
    <3>1. \A x \in Int : x \in (c + 1) .. (d + 1) <=> x \in (c + 1) .. d \/ x = d + 1
      OBVIOUS
    <3>2. \A x : x \in (c + 1) .. (d + 1) \/ x \in (c + 1) .. d => x \in Int
      OBVIOUS
    <3> QED
      BY <1>4, <3>1, <3>2 DEF BusinessDaysAfter
  <2>2. Weekend(c, d + 1) = Weekend(c, d) + 1
    BY <1>4 DEF Weekend, IsBusinessDay
  <2>3. Cardinality(B) \in Nat
    BY <1>1, FS_CardinalityType
  <2> QED
    BY <1>4, <2>1, <2>2, <2>3
<1> QED
  BY <1>3, <1>4

LEMMA InitWalk == AnchoringInit => WalkInv
<1> SUFFICES ASSUME AnchoringInit PROVE WalkInv
  OBVIOUS
<1>1. /\ start \in Nat /\ lag \in Nat \ {0} /\ day = start /\ moved = 0 /\ source = "none"
  BY PortfolioAssumption DEF AnchoringInit, WalkInit
<1>2. BusinessDaysAfter(start, start) = {}
  BY <1>1 DEF BusinessDaysAfter
<1>3. Weekend(start, start) = 0
  BY <1>1 DEF Weekend
<1> QED
  BY <1>1, <1>2, <1>3, FS_EmptySet DEF WalkInv

LEMMA AnchoringWalk == WalkInv /\ [AnchoringNext]_all => WalkInv'
<1> SUFFICES ASSUME WalkInv, [AnchoringNext]_all PROVE WalkInv'
  OBVIOUS
<1>1. CASE WalkStep
  <2>1. /\ moved < lag /\ day' = day + 1 /\ start' = start /\ lag' = lag
        /\ moved' = IF IsBusinessDay(day + 1) THEN moved + 1 ELSE moved
        /\ source = "none" /\ source' = source
    BY <1>1 DEF WalkStep, Step
  <2>2. /\ start \in Nat /\ day \in Nat /\ start <= day /\ moved \in Nat /\ lag \in Nat \ {0}
        /\ moved = Cardinality(BusinessDaysAfter(start, day))
        /\ moved = day - start - Weekend(start, day)
    BY DEF WalkInv
  <2>3. /\ Cardinality(BusinessDaysAfter(start, day + 1)) = moved'
        /\ Weekend(start, day + 1)
             = IF IsBusinessDay(day + 1) THEN Weekend(start, day) ELSE Weekend(start, day) + 1
    BY <2>1, <2>2, NextDay
  <2>4. Weekend(start, day) \in Int
    BY <2>2 DEF Weekend
  <2>5. /\ BusinessDaysAfter(start, day)' = BusinessDaysAfter(start, day + 1)
        /\ Weekend(start, day)' = Weekend(start, day + 1)
        /\ IsBusinessDay(day)' = IsBusinessDay(day + 1)
    BY <2>1 DEF BusinessDaysAfter, Weekend, IsBusinessDay
  <2>6. moved' = day' - start' - Weekend(start, day)'
    BY <2>1, <2>2, <2>3, <2>4, <2>5
  <2> QED
    BY <2>1, <2>2, <2>3, <2>5, <2>6 DEF WalkInv
<1>2. CASE FetchRazorpay
  <2>1. UNCHANGED walk /\ moved = lag /\ lag = 2
    BY <1>2 DEF FetchRazorpay
  <2> QED
    BY <2>1 DEF WalkInv, walk, BusinessDaysAfter, Weekend, IsBusinessDay
<1>3. CASE FetchSynthetic
  <2>1. UNCHANGED walk /\ source' = "synthetic"
    BY <1>3 DEF FetchSynthetic, Draw
  <2> QED
    BY <2>1 DEF WalkInv, walk, BusinessDaysAfter, Weekend, IsBusinessDay
<1>4. CASE Load \/ Reconcile \/ Compare \/ Loop \/ Ask \/ UNCHANGED all
  <2>1. UNCHANGED walk /\ source' = source
    BY <1>4 DEF Load, Reconcile, Compare, Loop, Ask, all
  <2> QED
    BY <2>1 DEF WalkInv, walk, BusinessDaysAfter, Weekend, IsBusinessDay
<1> QED
  BY <1>1, <1>2, <1>3, <1>4 DEF AnchoringNext

\* The windows of the engine invert the walks of the sources: the day the walk
\* began on is a capture date of the payout, at its own lag and at no other.
LEMMA WindowsInvertTheWalk ==
  ASSUME WalkInv, moved = lag, lag <= 4
  PROVE  /\ IsCaptureDate(start, day, lag)
         /\ \A other \in Int : IsCaptureDate(start, day, other) => other = lag
<1>1. day - start <= 12
  BY DEF WalkInv, Weekend
<1>2. start \in (day - Span) .. day
  BY <1>1 DEF WalkInv, Span
<1> QED
  BY <1>2 DEF WalkInv, IsCaptureDate, Settles

-----------------------------------------------------------------------------
(* The books that hold the truth *)

\* Nothing is read that the gateway does not serve.
RowsInv == Range(ledger) \subseteq Rows /\ Range(items) \subseteq Rows

LEMMA InitRows == AnchoringInit => RowsInv
BY EmptySeq DEF AnchoringInit, GatewayInit, RowsInv, Range

LEMMA AnchoringRows == PullInv /\ RowsInv /\ [AnchoringNext]_all => RowsInv'
<1> SUFFICES ASSUME PullInv, RowsInv, [AnchoringNext]_all PROVE RowsInv'
  OBVIOUS
<1>0. ledger \in Seq(RowType) /\ items \in Seq(RowType) /\ Arriving \subseteq RowType
  BY GatewayAssumption DEF PullInv
<1>1. CASE FetchRazorpay
  <2>1. CASE Connect
    <3>1. PICK rows \in Ledgers : ledger' = rows
      BY <2>1 DEF Connect
    <3>2. items' = items
      BY <2>1 DEF Connect
    <3> QED
      BY <3>1, <3>2 DEF RowsInv, Rows
  <2>2. CASE NotConnected
    BY <2>2 DEF NotConnected, RowsInv
  <2>3. CASE GetPage
    <3>1. ledger' = ledger /\ items' = items \o Batch
      BY <2>3 DEF GetPage
    <3>2. Batch \in Seq(RowType) /\ Range(Batch) \subseteq Range(ledger)
      BY PageHolds
    <3>3. Range(items') = Range(items) \cup Range(Batch)
      BY <1>0, <3>1, <3>2, RangeConcatenation
    <3> QED
      BY <3>1, <3>2, <3>3 DEF RowsInv
  <2>4. CASE PageFails
    <3>1. ledger' = ledger /\ items' = <<>>
      BY <2>4 DEF PageFails
    <3>2. Range(<<>>) = {}
      BY DEF Range
    <3> QED
      BY <3>1, <3>2 DEF RowsInv
  <2>5. CASE Arrive
    <3>1. PICK row \in Arriving : ledger' = <<row>> \o ledger
      BY <2>5 DEF Arrive
    <3>2. items' = items
      BY <2>5 DEF Arrive
    <3>3. PICK first \in Seq(RowType) : first = <<row>>
      <4>1. row \in RowType
        BY <1>0, <3>1
      <4>2. <<row>> \in Seq(RowType)
        BY <4>1
      <4> QED
        BY <4>2
    <3>4. Range(first) = {row}
      BY <3>3 DEF Range
    <3>5. Range(first \o ledger) = Range(first) \cup Range(ledger)
      BY ONLY <1>0, <3>3, RangeConcatenation, ZenonT(40)
    <3>6. Range(ledger') = {row} \cup Range(ledger)
      BY ONLY <3>1, <3>3, <3>4, <3>5
    <3>7. {row} \subseteq Rows
      BY <3>1 DEF Rows
    <3>8. Range(ledger) \subseteq Rows /\ Range(items) \subseteq Rows
      BY DEF RowsInv
    <3>9. Range(items)' = Range(items)
      BY <3>2
    <3>10. Rows' = Rows
      BY DEF Rows
    <3> QED
      BY ONLY <3>6, <3>7, <3>8, <3>9, <3>10 DEF RowsInv
  <2> QED
    BY <1>1, <2>1, <2>2, <2>3, <2>4, <2>5 DEF FetchRazorpay, Reading
<1>2. ASSUME ~FetchRazorpay PROVE UNCHANGED <<ledger, items>>
  BY <1>2 DEF AnchoringNext, WalkStep, FetchSynthetic, Load, Reconcile, Compare, Loop, Ask,
              all, gateway
<1> QED
  BY <1>1, <1>2 DEF RowsInv

\* A finding is decided in the only turn there is, before anything is spent; an
\* order file is the whole of it, or what was not withheld.
PlaceInv ==
  /\ work \in {<<Payout>>, <<>>}
  /\ turn = 1 => spent = {}
  /\ phase = "source" => work = <<Payout>> /\ late = {}
  /\ late # {} => \A o \in Orders : net[o] = whole[o] \/ net[o] = 0

LEMMA InitPlace == AnchoringInit => PlaceInv
BY DEF AnchoringInit, NoBook, DaysInit, PlaceInv

LEMMA AnchoringPlace == RunInv /\ PlaceInv /\ [AnchoringNext]_all => PlaceInv'
<1> SUFFICES ASSUME RunInv, PlaceInv, [AnchoringNext]_all PROVE PlaceInv'
  OBVIOUS
<1>1. CASE Load
  <2>1. /\ phase = "source" /\ phase' = "cascade" /\ spent' = spent /\ turn' = turn
        /\ work' \in {work, <<>>} /\ late' = late
    BY <1>1 DEF Load, Book, rest, days
  <2> QED
    BY <2>1 DEF PlaceInv
<1>2. CASE FetchSynthetic
  <2>1. /\ phase = "source" /\ phase' = "cascade" /\ spent' = spent /\ turn' = turn
        /\ work' = work /\ late' = late
    BY <1>2 DEF FetchSynthetic, Draw, Book, rest, days
  <2> QED
    BY <2>1 DEF PlaceInv
<1>3. CASE Reconcile
  <2>1. Next /\ UNCHANGED days
    BY <1>3 DEF Reconcile, rest
  <2>2. /\ work' = work /\ net' = net /\ late' = late /\ whole' = whole
        /\ phase # "source" /\ phase' # "source"
    BY <2>1 DEF Next, MatchSingle, Skip, Decide, Widen, Exhaust, Finish, AttachCores,
                Searched, Deciding, Conclude, book, days
  <2>3. turn' = 1 => spent' = {}
    <3>1. turn \in Nat \ {0}
      BY DEF RunInv, EngineOK
    <3>2. (turn' = turn + 1) \/ (turn' = turn /\ spent' = spent)
      BY <2>1 DEF Next, MatchSingle, Skip, Decide, Widen, Exhaust, Finish, AttachCores, Conclude
    <3> QED
      BY <3>1, <3>2 DEF PlaceInv
  <2> QED
    BY <2>2, <2>3 DEF PlaceInv
<1>4. CASE Compare
  <2>1. CASE Withhold
    <3>1. /\ phase = "cascade" /\ phase' = phase /\ work' = work /\ turn' = turn /\ spent' = spent
          /\ whole' = net /\ late' \subseteq Orders
          /\ net' = [o \in Orders |-> IF o \in late' THEN 0 ELSE net[o]]
      BY <2>1 DEF Withhold, Recorded
    <3> QED
      BY <3>1 DEF PlaceInv
  <2>2. CASE RunAgain
    <3>1. /\ work' = work /\ spent' = {} /\ net' = whole /\ whole' = whole /\ phase' = "cascade"
      BY <2>2 DEF RunAgain
    <3> QED
      BY <3>1 DEF PlaceInv
  <2> QED
    BY <1>4, <2>1, <2>2 DEF Compare
<1>5. CASE WalkStep \/ FetchRazorpay \/ Loop \/ Ask \/ UNCHANGED all
  <2>1. UNCHANGED <<work, turn, spent, phase, net, late, whole>>
    BY <1>5 DEF WalkStep, FetchRazorpay, Step, Loop, Investigate, AskModel, AskBatch, Round,
                Ask, Request, all, vars, rest, days
  <2> QED
    BY <2>1 DEF PlaceInv
<1> QED
  BY <1>1, <1>2, <1>3, <1>4, <1>5 DEF AnchoringNext

\* A book the generator draws: its records are large, and outside of the
\* families that tamper with the credit it is the sum of the bundle, of which
\* every order is captured on the day the walk began.
LEMMA DrawnBook ==
  ASSUME Draw
  PROVE  /\ moved = lag /\ lag \in {2, 4}
         /\ settledOn' = [s \in Settlements |-> day]
         /\ net' \in [Orders -> Int]
         /\ \A o \in Orders : net'[o] # 0 => net'[o] \in Large
         /\ truth' \subseteq Orders /\ truth' # {}
         /\ family' \notin Tampered =>
              /\ credit' = [s \in Settlements |-> Total(net', truth')]
              /\ \A o \in truth' : net'[o] \in Large /\ capturedOn'[o] = start
              /\ lag = 4 => \A o \in Orders : net'[o] # 0 => capturedOn'[o] = start
<1>1. PICK c \in Cases :
        /\ lag = LagOf(c) /\ family' = c
        /\ \E f \in Bundles(c) : \E made \in Made(c, f) :
             LET size == Cardinality(DOMAIN f)
             IN  /\ size + Len(made.extra) <= Cardinality(Orders)
                 /\ Book([i \in 1 .. size |-> Record(f[i], start)] \o made.extra,
                         made.credit, day)
                 /\ truth' = DOMAIN f
  BY DEF Draw
<1>2. PICK f \in Bundles(c) : \E made \in Made(c, f) :
        LET size == Cardinality(DOMAIN f)
        IN  /\ size + Len(made.extra) <= Cardinality(Orders)
            /\ Book([i \in 1 .. size |-> Record(f[i], start)] \o made.extra,
                    made.credit, day)
            /\ truth' = DOMAIN f
  BY <1>1
<1>3. PICK made \in Made(c, f) :
        LET size == Cardinality(DOMAIN f)
        IN  /\ size + Len(made.extra) <= Cardinality(Orders)
            /\ Book([i \in 1 .. size |-> Record(f[i], start)] \o made.extra,
                    made.credit, day)
            /\ truth' = DOMAIN f
  BY <1>2
<1>4. PICK k \in 1 .. MaxBundle : f \in [1 .. k -> Nets]
  BY DEF Bundles
<1>5. k \in Nat /\ k >= 1 /\ Cardinality(DOMAIN f) = k /\ DOMAIN f = 1 .. k
  <2>1. k \in Nat /\ k >= 1
    BY NetsAreLarge, PortfolioAssumption
  <2>2. Cardinality(1 .. k) = k
    BY <2>1, FS_Interval
  <2> QED
    BY <1>4, <2>1, <2>2
<1>6. made.extra \in Seq(DrawnRecords) /\ made.credit \in Int
  BY <1>3, <1>4, MadeIsTyped
<1> DEFINE bundle == [i \in 1 .. k |-> Record(f[i], start)]
           records == bundle \o made.extra
<1>7. Book(records, made.credit, day) /\ k + Len(made.extra) <= Cardinality(Orders) /\ truth' = 1 .. k
  BY <1>3, <1>5
<1>8. /\ bundle \in Seq(DrawnRecords) /\ Len(bundle) = k
      /\ \A i \in 1 .. k : bundle[i].net = f[i] /\ bundle[i].on = start /\ f[i] \in Large
  <2>1. \A i \in 1 .. k : f[i] \in Large /\ Record(f[i], start) \in DrawnRecords
    BY <1>4, NetsAreLarge DEF DrawnRecords
  <2>2. bundle \in [1 .. k -> DrawnRecords]
    BY <2>1
  <2>3. \A i \in 1 .. k : bundle[i].net = f[i] /\ bundle[i].on = start
    BY DEF Record
  <2> HIDE DEF bundle
  <2>4. bundle \in Seq(DrawnRecords)
    BY <1>5, <2>2, SeqDef
  <2>5. Len(bundle) = k
    BY <1>5, <2>2, <2>4, LenProperties
  <2> QED
    BY <2>1, <2>3, <2>4, <2>5
<1>9. \A r \in DrawnRecords : r.net \in Large
  BY DEF DrawnRecords, Record
<1> HIDE DEF bundle
<1>10. /\ records \in Seq(DrawnRecords) /\ Len(records) = k + Len(made.extra)
       /\ \A i \in 1 .. k : records[i] = bundle[i]
  <2>1. PICK t \in Seq(DrawnRecords) : t = made.extra
    BY <1>6
  <2>2. Len(t) \in Nat
    BY LenProperties
  <2>3. /\ bundle \o t \in Seq(DrawnRecords) /\ Len(bundle \o t) = Len(bundle) + Len(t)
        /\ \A i \in 1 .. (Len(bundle) + Len(t)) :
             (bundle \o t)[i] = IF i <= Len(bundle) THEN bundle[i] ELSE t[i - Len(bundle)]
    BY <1>8, ConcatProperties
  <2> QED
    BY <1>5, <1>8, <2>1, <2>2, <2>3
<1>11. Len(made.extra) \in Nat
  BY <1>6, LenProperties
<1> HIDE DEF records
<1>12. DOMAIN records = 1 .. (k + Len(made.extra))
       /\ \A i \in DOMAIN records : records[i] \in DrawnRecords
  BY <1>10, LenProperties, ElementOfSeq
<1>13. 1 .. k \subseteq Orders /\ 1 .. k \subseteq DOMAIN records
  BY <1>5, <1>7, <1>11, <1>12, NetsAreLarge, PortfolioAssumption
<1>14. /\ net' = [o \in Orders |-> IF o \in DOMAIN records THEN records[o].net ELSE 0]
       /\ capturedOn' = [o \in Orders |-> IF o \in DOMAIN records THEN records[o].on ELSE 0]
       /\ credit' = [s \in Settlements |-> made.credit]
       /\ settledOn' = [s \in Settlements |-> day]
  BY <1>7 DEF Book
<1>15. \A o \in Orders : net'[o] \in Large \/ net'[o] = 0
  BY <1>9, <1>12, <1>14
<1>16. net' \in [Orders -> Int]
  BY <1>14, <1>15 DEF Large
<1>17. \A o \in 1 .. k : net'[o] = f[o] /\ net'[o] \in Large /\ capturedOn'[o] = start
  BY <1>8, <1>10, <1>13, <1>14
<1>18. moved = lag /\ lag \in {2, 4}
  BY <1>1 DEF Draw, LagOf
<1>19. ASSUME c \notin Tampered
       PROVE  /\ credit' = [s \in Settlements |-> Total(net', truth')]
              /\ lag = 4 => \A o \in Orders : net'[o] # 0 => capturedOn'[o] = start
  <2>1. made.credit = Total(f, 1 .. k) /\ (c \notin Crowded => made.extra = <<>>)
    BY <1>3, <1>5, <1>19 DEF Made, Tampered, Crowded
  <2>2. Total(net', 1 .. k) = Total(f, 1 .. k)
    <3>0. IsFiniteSet(1 .. k) /\ IsFiniteSet(Orders)
      BY <1>5, FS_Interval, SubsetSumAssumption
    <3>1. f \in [1 .. k -> Int]
      BY <1>4, CascadeAssumption
    <3>2. PICK D : D = 1 .. k
      OBVIOUS
    <3>3. PICK n \in [Orders -> Int] : n = net'
      BY <1>16
    <3>4. D \in SUBSET Orders /\ D \subseteq D /\ \A o \in D : n[o] = f[o]
      BY <1>13, <1>17, <3>2, <3>3
    <3>5. f \in [D -> Int] /\ IsFiniteSet(D) /\ IsFiniteSet(Orders)
      BY <3>0, <3>1, <3>2
    <3>6. Total(n, D) = Total(f, D)
      BY ONLY <3>3, <3>4, <3>5, n \in [Orders -> Int], TotalSame
    <3> QED
      BY <3>2, <3>3, <3>6
  <2>3. ASSUME lag = 4, NEW o \in Orders, net'[o] # 0 PROVE capturedOn'[o] = start
    <3>1. c = "timing_gap"
      BY <1>1, <2>3 DEF LagOf
    <3>2. Len(made.extra) = 0
      BY <2>1, <3>1 DEF Crowded
    <3>3. o \in 1 .. k
      BY <1>5, <1>12, <1>14, <2>3, <3>2
    <3> QED
      BY <1>17, <3>3
  <2> QED
    BY <1>7, <1>14, <2>1, <2>2, <2>3
<1>20. truth' \subseteq Orders /\ truth' # {}
  <2>1. 1 \in 1 .. k /\ truth' = 1 .. k
    BY <1>5, <1>7
  <2> QED
    BY <1>13, <2>1
<1>21. /\ \A o \in Orders : net'[o] # 0 => net'[o] \in Large
       /\ \A o \in truth' : net'[o] \in Large /\ capturedOn'[o] = start
       /\ family' = c /\ settledOn' = [s \in Settlements |-> day]
  BY <1>1, <1>7, <1>14, <1>15, <1>17
<1> QED
  BY ONLY <1>16, <1>18, <1>19, <1>20, <1>21

\* Every order of the snapshot is one of the rows that compose the payout, and
\* every one of those is an order.
LEMMA OrdersAreRows ==
  ASSUME NEW rows \in Seq(RowType), Range(rows) \subseteq Rows
  PROVE  /\ IsFiniteSet(Composing(rows)) /\ Cardinality(Composing(rows)) \in Nat
         /\ DOMAIN Normalised(rows).orders = 1 .. Cardinality(Composing(rows))
         /\ \A i \in Composing(rows) : NumberOf(rows, i) \in 1 .. Cardinality(Composing(rows))
         /\ \A k \in 1 .. Cardinality(Composing(rows)) :
              /\ Normalised(rows).orders[k].net \in Large
              /\ \E i \in Composing(rows) :
                   /\ NumberOf(rows, i) = k
                   /\ \A j \in Composing(rows) : NumberOf(rows, j) = k => j = i
                   /\ Normalised(rows).orders[k] = OrderOf(rows[i])
                   /\ Ordinary(rows[i]) /\ rows[i] \in RowType
<1> DEFINE S == Composing(rows)
           m == Cardinality(S)
<1>1. /\ DOMAIN rows = 1 .. Len(rows) /\ Len(rows) \in Nat
      /\ \A i \in DOMAIN rows : rows[i] \in RowType
  BY LenProperties, ElementOfSeq
<1>2. S \in SUBSET DOMAIN rows /\ S \subseteq Nat
  BY <1>1 DEF Composing, Counted, Kept
<1>3. IsFiniteSet(S) /\ m \in Nat
  <2>1. IsFiniteSet(DOMAIN rows)
    BY <1>1, FS_Interval
  <2> HIDE DEF S
  <2> QED
    BY <1>2, <2>1, FS_Subset, FS_CardinalityType
<1>4. /\ \A i \in S : NumberOf(rows, i) \in 1 .. m
      /\ \A i, q \in S : NumberOf(rows, i) = NumberOf(rows, q) => i = q
      /\ \A k \in 1 .. m : \E i \in S : NumberOf(rows, i) = k
  <2>1. \A i \in S : NumberOf(rows, i) = Cardinality({j \in S : j <= i})
    BY DEF NumberOf
  <2>2. S \subseteq Nat /\ IsFiniteSet(S) /\ m = Cardinality(S)
    BY <1>2, <1>3
  <2> HIDE DEF S, m
  <2>3. /\ \A i \in S : Cardinality({j \in S : j <= i}) \in 1 .. Cardinality(S)
        /\ \A i, q \in S :
             Cardinality({j \in S : j <= i}) = Cardinality({j \in S : j <= q}) => i = q
        /\ \A k \in 1 .. Cardinality(S) : \E i \in S : Cardinality({j \in S : j <= i}) = k
    BY ONLY <2>2, EveryNumberIsGiven
  <2>4. /\ \A i \in S : NumberOf(rows, i) \in 1 .. m
        /\ \A k \in 1 .. m : \E i \in S : NumberOf(rows, i) = k
    BY ONLY <2>1, <2>2, <2>3
  <2>5. \A i, q \in S : NumberOf(rows, i) = NumberOf(rows, q) => i = q
    BY ONLY <2>1, <2>3
  <2> QED
    BY <2>4, <2>5
<1>5. /\ DOMAIN Normalised(rows).orders = 1 .. m
      /\ \A k \in 1 .. m : Normalised(rows).orders[k] = OrderOf(RowOf(rows, k))
  BY DEF Normalised
<1>6. \A i \in S : /\ Ordinary(rows[i]) /\ rows[i] \in RowType
                   /\ OrderOf(rows[i]).net > Cardinality(Orders)
  <2> SUFFICES ASSUME NEW i \in S
               PROVE  /\ Ordinary(rows[i]) /\ rows[i] \in RowType
                      /\ OrderOf(rows[i]).net > Cardinality(Orders)
    OBVIOUS
  <2>1. i \in DOMAIN rows /\ rows[i] \in Range(rows)
    BY <1>2 DEF Range
  <2>2. Ordinary(rows[i])
    BY <2>1, AnchoringAssumption
  <2>3. /\ ColumnsRead(rows[i]) /\ rows[i].kind = "payment"
        /\ rows[i].method \in DOMAIN FeeBps /\ Reads(Gross(rows[i]))
    BY DEF Composing, Counted
  <2> QED
    BY <1>1, <2>1, <2>2, <2>3 DEF Ordinary
<1>7. ASSUME NEW k \in 1 .. m
      PROVE  \E i \in S : /\ NumberOf(rows, i) = k
                          /\ \A j \in S : NumberOf(rows, j) = k => j = i
                          /\ Normalised(rows).orders[k] = OrderOf(rows[i])
  <2>1. \E i \in S : NumberOf(rows, i) = k
    BY <1>4
  <2>2. PICK i \in S : NumberOf(rows, i) = k /\ RowOf(rows, k) = rows[i]
    BY <2>1 DEF RowOf
  <2> QED
    BY <1>4, <1>5, <2>2
<1>8. ASSUME NEW k \in 1 .. m PROVE Normalised(rows).orders[k].net \in Large
  <2>1. Normalised(rows).orders[k].net \in Int
    BY <1>5, NormalisedIsTyped
  <2>2. PICK i \in S : Normalised(rows).orders[k] = OrderOf(rows[i])
    BY <1>7
  <2>3. Normalised(rows).orders[k].net > Cardinality(Orders)
    BY <1>6, <2>2
  <2> QED
    BY <2>1, <2>3 DEF Large
<1> HIDE DEF S, m
<1>9. \A k \in 1 .. m :
        /\ Normalised(rows).orders[k].net \in Large
        /\ \E i \in S :
             /\ NumberOf(rows, i) = k
             /\ \A j \in S : NumberOf(rows, j) = k => j = i
             /\ Normalised(rows).orders[k] = OrderOf(rows[i])
             /\ Ordinary(rows[i]) /\ rows[i] \in RowType
  BY <1>6, <1>7, <1>8
<1> QED
  BY <1>3, <1>4, <1>5, <1>9 DEF S, m

\* Sums matched one to one, to a paisa each.
LEMMA TotalMatched ==
  ASSUME NEW D, IsFiniteSet(D), NEW b \in [D -> Int], NEW T \in SUBSET D,
         NEW K, IsFiniteSet(K), NEW key \in [T -> K],
         \A i, j \in T : key[i] = key[j] => i = j,
         \A k \in K : \E i \in T : key[i] = k,
         NEW E, IsFiniteSet(E), NEW n \in [E -> Int], K \subseteq E,
         \A i \in T : b[i] <= n[key[i]] + 1 /\ n[key[i]] <= b[i] + 1
  PROVE  Magnitude(Total(b, T) - Total(n, K)) <= Cardinality(K)
<1> DEFINE sub == [k \in K |-> Total(b, {i \in T : key[i] = k})]
           part == [k \in K |-> n[k]]
<1>1. ASSUME NEW k \in K
      PROVE  sub[k] \in Int /\ sub[k] <= part[k] + 1 /\ part[k] <= sub[k] + 1
  <2>1. PICK i \in T : key[i] = k
    OBVIOUS
  <2>2. {j \in T : key[j] = k} = {i}
    BY <2>1
  <2>3. {i} \in SUBSET D /\ {} \in SUBSET D /\ i \in {i} /\ b[i] \in Int
    OBVIOUS
  <2>4. Total(b, {i}) = b[i] + Total(b, {i} \ {i})
    BY <2>3, TotalRemove
  <2>5. Total(b, {}) = 0
    BY <2>3, TotalStep
  <2>6. {i} \ {i} = {}
    OBVIOUS
  <2>7. Total(b, {i} \ {i}) = 0
    BY ONLY <2>5, <2>6, Zenon
  <2>8. Total(b, {i}) = b[i]
    BY ONLY <2>3, <2>4, <2>7, SMT
  <2>9. sub[k] = Total(b, {j \in T : key[j] = k})
    OBVIOUS
  <2>10. sub[k] = b[i]
    BY ONLY <2>2, <2>8, <2>9
  <2> QED
    BY <2>1, <2>3, <2>10
<1>2. sub \in [K -> Int] /\ part \in [K -> Int] /\ K \in SUBSET K
  BY <1>1
<1>3. \A k \in K : sub[k] = Total(b, {i \in T : key[i] = k})
  OBVIOUS
<1>4. \A k \in K : part[k] = n[k]
  OBVIOUS
<1> HIDE DEF sub, part
<1>5. Total(sub, K) = Total(b, T)
  BY <1>2, <1>3, TotalByKey
<1>6. Total(part, K) = Total(n, K)
  BY <1>2, <1>4, TotalSame
<1>7. Total(sub, K) <= Total(part, K) + Cardinality(K)
  BY <1>1, <1>2, TotalNear
<1>8. Total(part, K) <= Total(sub, K) + Cardinality(K)
  BY <1>1, <1>2, TotalNear
<1>9. Total(sub, K) \in Int /\ Total(part, K) \in Int
  BY <1>2, TotalStep
<1>10. Cardinality(K) \in Nat
  BY FS_CardinalityType
<1> QED
  BY <1>5, <1>6, <1>7, <1>8, <1>9, <1>10 DEF Magnitude

\* Where every row is a payment that can be read, the payout is the sum of the
\* orders linked to it, to a paisa for each of them.
LEMMA PayoutIsNear ==
  ASSUME NEW rows \in Seq(RowType), Range(rows) \subseteq Rows,
         \A row \in Range(rows) : HonestRow(row),
         NEW linked, linked = {k \in DOMAIN Normalised(rows).orders : Normalised(rows).orders[k].linked},
         NEW E, IsFiniteSet(E), NEW n \in [E -> Int], linked \subseteq E,
         \A k \in linked : n[k] = Normalised(rows).orders[k].net
  PROVE  /\ Magnitude(Normalised(rows).net - Total(n, linked)) <= Cardinality(linked)
         /\ Normalised(rows).payout => linked # {}
<1> DEFINE S == Composing(rows)
           b == BroughtIn(rows)
           T == {i \in Counted(rows) : rows[i].settled}
           D == DOMAIN rows
           key == [i \in T |-> NumberOf(rows, i)]
<1>1. Counted(rows) = S
  <2>1. \A i \in Counted(rows) : HonestRow(rows[i])
    BY DEF Counted, Kept, Range
  <2> QED
    BY <2>1 DEF Composing, HonestRow
<1>2. /\ IsFiniteSet(D) /\ b \in [D -> Int] /\ T \in SUBSET D
      /\ \A i \in D : b[i] = Amount(rows[i].credit) - Amount(rows[i].debit)
  <2>1. D = 1 .. Len(rows) /\ Len(rows) \in Nat /\ \A i \in D : rows[i] \in RowType
    BY LenProperties, ElementOfSeq
  <2>2. IsFiniteSet(D)
    BY <2>1, FS_Interval
  <2>3. \A raw \in RawAmounts : Amount(raw) \in Int
    BY DEF Amount, RawAmounts
  <2>4. \A i \in D : Amount(rows[i].credit) - Amount(rows[i].debit) \in Int
    BY <2>1, <2>3 DEF RowType
  <2>5. T \in SUBSET D
    BY DEF Counted, Kept
  <2> QED
    BY <2>2, <2>4, <2>5 DEF BroughtIn
<1>3. DOMAIN Normalised(rows).orders = 1 .. Cardinality(S) /\ Cardinality(S) \in Nat
  BY OrdersAreRows
<1>4. IsFiniteSet(linked)
  BY FS_Subset
<1>5. \A i \in T : /\ i \in S /\ NumberOf(rows, i) \in linked
  <2> SUFFICES ASSUME NEW i \in T PROVE i \in S /\ NumberOf(rows, i) \in linked
    OBVIOUS
  <2>1. i \in S /\ rows[i].settled
    BY <1>1
  <2>2. NumberOf(rows, i) \in 1 .. Cardinality(S)
    BY <2>1, OrdersAreRows
  <2>3. PICK q \in S : /\ \A j \in S : NumberOf(rows, j) = NumberOf(rows, i) => j = q
                       /\ Normalised(rows).orders[NumberOf(rows, i)] = OrderOf(rows[q])
    BY <2>2, OrdersAreRows
  <2>4. Normalised(rows).orders[NumberOf(rows, i)] = OrderOf(rows[i])
    BY <2>1, <2>3
  <2>5. Normalised(rows).orders[NumberOf(rows, i)].linked
    BY <2>1, <2>4 DEF OrderOf
  <2> QED
    BY <1>3, <2>1, <2>2, <2>5
<1>6. ASSUME NEW k \in linked
      PROVE  \E i \in T : /\ key[i] = k
                          /\ b[i] <= n[k] + 1 /\ n[k] <= b[i] + 1
  <2>1. k \in 1 .. Cardinality(S) /\ Normalised(rows).orders[k].linked
    BY <1>3
  <2>2. PICK i \in S : /\ NumberOf(rows, i) = k
                       /\ \A j \in S : NumberOf(rows, j) = k => j = i
                       /\ Normalised(rows).orders[k] = OrderOf(rows[i])
                       /\ Ordinary(rows[i]) /\ rows[i] \in RowType
    BY <2>1, OrdersAreRows
  <2>3. i \in T
    BY <1>1, <2>1, <2>2 DEF OrderOf
  <2>4. i \in D /\ b[i] \in Int /\ b[i] = Amount(rows[i].credit) - Amount(rows[i].debit)
    BY <1>2, <2>3
  <2>5. /\ rows[i].kind = "payment" /\ ColumnsRead(rows[i])
        /\ rows[i].method \in DOMAIN FeeBps /\ Reads(Gross(rows[i]))
    BY DEF Composing, Counted
  <2>6. n[k] = OrderOf(rows[i]).net /\ n[k] \in Int
    BY <2>2
  <2>7. Magnitude(b[i] - n[k]) <= 1
    <3> HIDE DEF b
    <3> QED
      BY <2>2, <2>4, <2>5, <2>6 DEF Ordinary
  <2>8. b[i] <= n[k] + 1 /\ n[k] <= b[i] + 1
    <3> HIDE DEF b
    <3> QED
      BY <2>4, <2>6, <2>7 DEF Magnitude
  <2>9. key[i] = k
    BY <2>2, <2>3
  <2> QED
    BY <2>3, <2>8, <2>9
<1>7. Normalised(rows).net = Total(b, T)
  BY DEF Normalised, SettlementNet, Total, Ext!MapThenSumSet, Sets!MapThenSumSet,
         Ext!MapThenFoldSet, Sets!MapThenFoldSet
<1>8. key \in [T -> linked]
  BY <1>5
<1>9. \A i, j \in T : key[i] = key[j] => i = j
  <2> SUFFICES ASSUME NEW i \in T, NEW j \in T, key[i] = key[j] PROVE i = j
    OBVIOUS
  <2>1. /\ i \in S /\ j \in S /\ NumberOf(rows, i) = NumberOf(rows, j)
        /\ NumberOf(rows, i) \in 1 .. Cardinality(S)
    BY <1>5, OrdersAreRows
  <2>2. PICK q \in S : \A h \in S : NumberOf(rows, h) = NumberOf(rows, i) => h = q
    BY <2>1, OrdersAreRows
  <2> QED
    BY <2>1, <2>2
<1>10. Magnitude(Total(b, T) - Total(n, linked)) <= Cardinality(linked)
  <2> HIDE DEF S, b, T, D, key
  <2>1. /\ \A k \in linked : \E i \in T : key[i] = k
        /\ \A i \in T : b[i] <= n[key[i]] + 1 /\ n[key[i]] <= b[i] + 1
    BY <1>6, <1>8, <1>9
  <2> QED
    BY <1>2, <1>4, <1>8, <1>9, <2>1, TotalMatched
<1>11. Normalised(rows).payout => linked # {}
  <2>1. Normalised(rows).payout => T # {}
    BY DEF Normalised
  <2> QED
    BY <1>5, <2>1
<1> QED
  BY <1>7, <1>10, <1>11

\* A book of the gateway: its orders are large, captured on the day the walk
\* began, and where every row is honest they are what was paid, to the rounding.
LEMMA LoadedBook ==
  ASSUME PullInv, RowsInv, WalkInv, Load
  PROVE  /\ moved = lag /\ lag = 2
         /\ settledOn' = [s \in Settlements |-> day]
         /\ net' \in [Orders -> Int]
         /\ \A o \in Orders : net'[o] # 0 => net'[o] \in Large
         /\ (\A row \in Range(items) : HonestRow(row)) =>
              /\ \A o \in truth' \cap Orders : net'[o] \in Large /\ capturedOn'[o] = start
              /\ truth' \subseteq Orders =>
                   \A s \in Settlements :
                     Magnitude(credit'[s] - Total(net', truth')) <= Cardinality(truth')
              /\ work' # <<>> => truth' # {}
<1> DEFINE snapshot == Normalised(items)
           records == [k \in DOMAIN snapshot.orders |-> Record(snapshot.orders[k].net, start)]
<1>0. items \in Seq(RowType) /\ Range(items) \subseteq Rows
  BY DEF PullInv, RowsInv
<1>1. /\ Book(records, snapshot.net, day)
      /\ work' = IF snapshot.payout THEN work ELSE <<>>
      /\ truth' = {k \in DOMAIN snapshot.orders : snapshot.orders[k].linked}
      /\ source = "razorpay"
  BY DEF Load
<1>2. moved = lag /\ lag = 2
  BY <1>1 DEF WalkInv
<1>3. \A k \in DOMAIN snapshot.orders : snapshot.orders[k].net \in Large
  BY <1>0, OrdersAreRows
<1> HIDE DEF snapshot
<1>4. /\ DOMAIN records = DOMAIN snapshot.orders
      /\ \A k \in DOMAIN records : records[k].net = snapshot.orders[k].net /\ records[k].on = start
  BY DEF Record
<1> HIDE DEF records
<1>5. /\ net' = [o \in Orders |-> IF o \in DOMAIN records THEN records[o].net ELSE 0]
      /\ capturedOn' = [o \in Orders |-> IF o \in DOMAIN records THEN records[o].on ELSE 0]
      /\ credit' = [s \in Settlements |-> snapshot.net]
      /\ settledOn' = [s \in Settlements |-> day]
  BY <1>1 DEF Book
<1>6. \A o \in Orders : net'[o] \in Large \/ net'[o] = 0
  BY <1>3, <1>4, <1>5
<1>7. net' \in [Orders -> Int]
  BY <1>5, <1>6 DEF Large
<1>8. \A o \in truth' \cap Orders :
        net'[o] = snapshot.orders[o].net /\ net'[o] \in Large /\ capturedOn'[o] = start
  BY <1>1, <1>3, <1>4, <1>5
<1>9. ASSUME \A row \in Range(items) : HonestRow(row), truth' \subseteq Orders,
             NEW s \in Settlements
      PROVE  Magnitude(credit'[s] - Total(net', truth')) <= Cardinality(truth')
  <2>1. PICK n \in [Orders -> Int] : n = net'
    BY <1>7
  <2>2. PICK linked : linked = truth'
    OBVIOUS
  <2>3. /\ linked = {k \in DOMAIN Normalised(items).orders : Normalised(items).orders[k].linked}
        /\ linked \subseteq Orders /\ IsFiniteSet(Orders)
        /\ \A k \in linked : n[k] = Normalised(items).orders[k].net
    BY <1>1, <1>8, <1>9, <2>1, <2>2, SubsetSumAssumption DEF snapshot
  <2>4. Magnitude(Normalised(items).net - Total(n, linked)) <= Cardinality(linked)
    BY <1>0, <1>9, <2>1, <2>3, PayoutIsNear
  <2> QED
    BY <1>5, <2>1, <2>2, <2>4 DEF snapshot
<1>10. ASSUME \A row \in Range(items) : HonestRow(row), work' # <<>>
       PROVE  truth' # {}
  <2>1. snapshot.payout
    BY <1>1, <1>10
  <2>2. PICK linked : linked = truth'
    OBVIOUS
  <2>3. linked = {k \in DOMAIN Normalised(items).orders : Normalised(items).orders[k].linked}
    BY <1>1, <2>2 DEF snapshot
  <2> DEFINE n == [k \in linked |-> Normalised(items).orders[k].net]
  <2>4. n \in [linked -> Int]
    BY <1>3, <2>3 DEF snapshot, Large
  <2>5. IsFiniteSet(linked)
    <3>1. linked \subseteq 1 .. Cardinality(Composing(items)) /\ Cardinality(Composing(items)) \in Nat
      BY <1>0, <2>3, OrdersAreRows
    <3>2. IsFiniteSet(1 .. Cardinality(Composing(items)))
      BY <3>1, FS_Interval
    <3> QED
      BY ONLY <3>1, <3>2, FS_Subset
  <2>6. \A k \in linked : n[k] = Normalised(items).orders[k].net
    OBVIOUS
  <2> HIDE DEF n
  <2>7. Normalised(items).payout => linked # {}
    BY <1>0, <1>10, <2>3, <2>4, <2>5, <2>6, PayoutIsNear
  <2> QED
    BY <2>1, <2>2, <2>7 DEF snapshot
<1> QED
  BY <1>2, <1>5, <1>6, <1>7, <1>8, <1>9, <1>10

\* The order file, whether or not some of it is withheld.
Whole == IF late = {} THEN net ELSE whole

\* The book against what it was made from: the day the walk reached, records
\* that no rounding accounts for, and, where the source is honest, a truth that
\* was captured when the walk began and adds up to the payout.
TruthInv ==
  phase # "source" =>
    /\ moved = lag /\ settledOn = [s \in Settlements |-> day]
    /\ Whole \in [Orders -> Int]
    /\ \A o \in Orders : Whole[o] # 0 => Whole[o] \in Large
    /\ Honest =>
         /\ lag \in {2, 4}
         /\ \A o \in truth \cap Orders : Whole[o] \in Large /\ capturedOn[o] = start
         /\ lag = 4 => \A o \in Orders : Whole[o] # 0 => capturedOn[o] = start
         /\ truth \subseteq Orders =>
              Magnitude(credit[Payout] - Total(Whole, truth)) <= Cardinality(truth)
         /\ work # <<>> => truth # {}

LEMMA PayoutIsASettlement == Payout \in Settlements
<1>1. Settlements # {}
  <2>1. Settlements = {} => Cardinality(Settlements) = 0
    BY FS_EmptySet
  <2> QED
    BY <2>1, PortfolioAssumption
<1> QED
  BY <1>1 DEF Payout

LEMMA InitTruth == AnchoringInit => TruthInv
BY DEF AnchoringInit, TruthInv

LEMMA DrawIsTrue ==
  ASSUME PlaceInv, FetchSynthetic
  PROVE  TruthInv'
<1>1. /\ Draw /\ UNCHANGED days /\ source' = "synthetic" /\ UNCHANGED walk
      /\ work' = work /\ phase = "source"
  BY DEF FetchSynthetic, rest, Draw
<1>2. Whole' = net'
  BY <1>1 DEF PlaceInv, Whole, days
<1>3. Honest' => family' \notin Tampered
  BY <1>1 DEF Honest
<1>4. /\ moved = lag /\ lag \in {2, 4}
      /\ settledOn' = [s \in Settlements |-> day]
      /\ net' \in [Orders -> Int]
      /\ \A o \in Orders : net'[o] # 0 => net'[o] \in Large
      /\ truth' \subseteq Orders /\ truth' # {}
      /\ family' \notin Tampered =>
           /\ credit' = [s \in Settlements |-> Total(net', truth')]
           /\ \A o \in truth' : net'[o] \in Large /\ capturedOn'[o] = start
           /\ lag = 4 => \A o \in Orders : net'[o] # 0 => capturedOn'[o] = start
  BY <1>1, DrawnBook
<1>5. ASSUME family' \notin Tampered
      PROVE  Magnitude(credit'[Payout] - Total(net', truth')) <= Cardinality(truth')
  <2>1. PICK n \in [Orders -> Int] : n = net'
    BY <1>4
  <2>2. PICK T \in SUBSET Orders : T = truth'
    BY <1>4
  <2>3. IsFiniteSet(Orders) /\ IsFiniteSet(T)
    BY FS_Subset, SubsetSumAssumption
  <2>4. Total(n, T) \in Int /\ Cardinality(T) \in Nat
    BY <2>3, TotalStep, FS_CardinalityType
  <2>5. credit'[Payout] = Total(n, T)
    BY <1>4, <1>5, <2>1, <2>2, PayoutIsASettlement
  <2> QED
    BY <2>1, <2>2, <2>4, <2>5 DEF Magnitude
<1>6. UNCHANGED <<start, lag, day, moved>>
  BY <1>1 DEF walk
<1> QED
  BY <1>2, <1>3, <1>4, <1>5, <1>6 DEF TruthInv

LEMMA LoadIsTrue ==
  ASSUME PullInv, RowsInv, WalkInv, PlaceInv, Load
  PROVE  TruthInv'
<1>1. /\ UNCHANGED days /\ source' = "razorpay" /\ UNCHANGED walk
      /\ items' = items /\ phase = "source"
  BY DEF Load, rest
<1>2. Whole' = net'
  BY <1>1 DEF PlaceInv, Whole, days
<1>3. Honest' => \A row \in Range(items) : HonestRow(row)
  BY <1>1 DEF Honest
<1>4. /\ moved = lag /\ lag = 2
      /\ settledOn' = [s \in Settlements |-> day]
      /\ net' \in [Orders -> Int]
      /\ \A o \in Orders : net'[o] # 0 => net'[o] \in Large
      /\ (\A row \in Range(items) : HonestRow(row)) =>
           /\ \A o \in truth' \cap Orders : net'[o] \in Large /\ capturedOn'[o] = start
           /\ truth' \subseteq Orders =>
                \A s \in Settlements :
                  Magnitude(credit'[s] - Total(net', truth')) <= Cardinality(truth')
           /\ work' # <<>> => truth' # {}
  BY LoadedBook
<1>5. UNCHANGED <<start, lag, day, moved>>
  BY <1>1 DEF walk
<1> QED
  BY <1>2, <1>3, <1>4, <1>5, PayoutIsASettlement DEF TruthInv

LEMMA AnchoringTruth ==
  PullInv /\ RowsInv /\ WalkInv /\ PlaceInv /\ TruthInv /\ [AnchoringNext]_all => TruthInv'
<1> SUFFICES ASSUME PullInv, RowsInv, WalkInv, PlaceInv, TruthInv, [AnchoringNext]_all
             PROVE  TruthInv'
  OBVIOUS
<1> DEFINE still == UNCHANGED <<capturedOn, credit, settledOn, work, start, lag, day, moved,
                                family, truth, items, source>>
<1>1. ASSUME still, Whole' = Whole, phase # "source" \/ phase' = "source"
      PROVE  TruthInv'
  <2>1. Honest' = Honest
    BY <1>1 DEF Honest
  <2> QED
    BY <1>1, <2>1 DEF TruthInv
<1>2. CASE Load
  BY <1>2, LoadIsTrue
<1>3. CASE FetchSynthetic
  BY <1>3, DrawIsTrue
<1>4. CASE WalkStep \/ FetchRazorpay
  <2>1. phase' = "source"
    BY <1>4 DEF WalkStep, FetchRazorpay, Step, vars
  <2> QED
    BY <2>1 DEF TruthInv
<1>5. CASE Reconcile
  <2>1. Next /\ UNCHANGED <<walk, drawn, gateway, rest, source>>
    BY <1>5 DEF Reconcile
  <2>2. phase # "source" /\ UNCHANGED book
    BY <2>1 DEF Next, MatchSingle, Skip, Decide, Widen, Exhaust, Finish, AttachCores, Searched,
                Deciding, Conclude
  <2> QED
    BY <1>1, <2>1, <2>2 DEF book, walk, drawn, gateway, rest, days, Whole
<1>6. CASE Compare
  <2>1. UNCHANGED <<walk, drawn, gateway, source>>
    BY <1>6 DEF Compare
  <2>2. CASE Withhold
    <3>1. /\ phase = "cascade" /\ late = {} /\ late' # {} /\ whole' = net
          /\ UNCHANGED <<capturedOn, credit, settledOn, work>>
      BY <2>2 DEF Withhold
    <3> QED
      BY <1>1, <2>1, <3>1 DEF walk, drawn, gateway, Whole
  <2>3. CASE RunAgain
    <3>1. /\ phase = "done" /\ late # {}
          /\ UNCHANGED <<capturedOn, credit, settledOn, work, late, whole>>
      BY <2>3 DEF RunAgain
    <3> QED
      BY <1>1, <2>1, <3>1 DEF walk, drawn, gateway, Whole
  <2> QED
    BY <1>6, <2>2, <2>3 DEF Compare
<1>7. CASE Loop \/ Ask \/ UNCHANGED all
  <2>1. UNCHANGED <<vars, walk, drawn, gateway, days, source>>
    BY <1>7 DEF Loop, Investigate, AskModel, AskBatch, Round, Ask, Request, all
  <2> QED
    BY <1>1, <2>1 DEF vars, walk, drawn, gateway, days, Whole
<1> QED
  BY <1>2, <1>3, <1>4, <1>5, <1>6, <1>7 DEF AnchoringNext

-----------------------------------------------------------------------------
(* The answer over such a book *)

\* What a reader of the answer counts on, beside its being faithful: which
\* window it was sought in, and that its proofs are candidates that fit, more
\* than one of them when it is ambiguous.
Sought(f) ==
  /\ f.rung \in 0 .. LastRung
  /\ f.space.members = Affordable(net, Window(Payout, f.rung), credit[Payout])
  /\ f.verdict = "CONTRADICTED" => f.rung = LastRung
  /\ f.layer = "L3-dp" => f.verdict \in {"PROVEN", "AMBIGUOUS"}
  /\ f.verdict = "PROVEN" => f.layer \in {"L2-single", "L3-dp"}
  /\ f.proofs # {} <=> f.verdict \in {"PROVEN", "AMBIGUOUS"}
  /\ f.verdict = "AMBIGUOUS" => \A p : f.proofs # {p}
  /\ \A p \in f.proofs :
       p # {} /\ p \subseteq f.space.members /\ Fits(net, p, credit[Payout])

DecidedInv ==
  findings[Payout].verdict # "UNDECIDED" =>
    phase # "source" /\ work = <<Payout>> /\ Sought(findings[Payout])

\* The payout is decided first, so its pool is what its window affords.
LEMMA PayoutIsCurrent ==
  ASSUME PlaceInv, Deciding, turn \in Nat \ {0}
  PROVE  /\ work = <<Payout>> /\ Current = Payout
         /\ Pool(Payout, rung) = Affordable(net, Window(Payout, rung), credit[Payout])
<1>1. work = <<Payout>>
  <2>1. work # <<>>
    BY DEF Deciding
  <2> QED
    BY <2>1 DEF PlaceInv
<1>2. turn = 1
  BY <1>1 DEF Deciding
<1>3. Current = Payout
  BY <1>1, <1>2 DEF Current
<1>4. spent = {} /\ \A W : W \ {} = W
  BY <1>2 DEF PlaceInv
<1> QED
  BY <1>1, <1>3, <1>4 DEF Pool

LEMMA AnswersAreSought ==
  ASSUME EngineOK, PlaceInv, MatchSingle \/ Skip \/ Decide \/ Exhaust
  PROVE  work = <<Payout>> /\ Current = Payout /\ \E f : Sought(f) /\ Conclude(f)
<1> DEFINE pool == Pool(Payout, rung)
<1>0. net \in [Orders -> Int] /\ rung \in 0 .. LastRung /\ turn \in Nat \ {0}
  BY DEF EngineOK
<1>1. Deciding
  BY DEF MatchSingle, Skip, Decide, Exhaust, Searched
<1>2. /\ work = <<Payout>> /\ Current = Payout
      /\ pool = Affordable(net, Window(Payout, rung), credit[Payout])
  BY <1>0, <1>1, PayoutIsCurrent
<1>3. /\ pool \in SUBSET Orders /\ Affordable(net, pool, credit[Payout]) = pool
      /\ SpaceOf(Payout, rung).members = pool
  BY PoolIsAffordable, SpaceTyped
<1>4. CASE MatchSingle
  <2> DEFINE p == Singles(Payout, rung)
             f == Finding(Payout, rung, "PROVEN", {p}, TRUE, "L2-single")
  <2>1. PICK o \in Orders : p = {o} /\ KernelAccepts(net, {o}, credit[Payout])
    BY <1>2, <1>4 DEF MatchSingle, SingleMatch
  <2>2. p # {} /\ p \subseteq pool /\ Fits(net, p, credit[Payout])
    BY <2>1 DEF Singles, KernelAccepts
  <2>3. /\ f.verdict = "PROVEN" /\ f.proofs = {p} /\ f.layer = "L2-single"
        /\ f.rung = rung /\ f.space.members = pool
    BY <1>3 DEF Finding
  <2>4. Conclude(f)
    BY <1>2, <1>4 DEF MatchSingle
  <2> HIDE DEF f, p, pool
  <2>5. Sought(f)
    BY <1>0, <1>2, <2>2, <2>3 DEF Sought
  <2> QED
    BY <1>2, <2>4, <2>5
<1>5. CASE Skip
  <2> DEFINE f == Finding(Payout, rung, "INSUFFICIENT", {}, FALSE, "L3-skipped")
  <2>1. /\ f.verdict = "INSUFFICIENT" /\ f.proofs = {} /\ f.layer = "L3-skipped"
        /\ f.rung = rung /\ f.space.members = pool
    BY <1>3 DEF Finding
  <2>2. Conclude(f)
    BY <1>2, <1>5 DEF Skip
  <2> HIDE DEF f, pool
  <2>3. Sought(f)
    BY <1>0, <1>2, <2>1 DEF Sought
  <2> QED
    BY <1>2, <2>2, <2>3
<1>6. CASE Exhaust
  <2> DEFINE f == Finding(Payout, rung, "CONTRADICTED", {}, FALSE, "L3-dp/exhausted")
  <2>1. /\ f.verdict = "CONTRADICTED" /\ f.proofs = {} /\ f.layer = "L3-dp/exhausted"
        /\ f.rung = rung /\ f.space.members = pool
    BY <1>3 DEF Finding
  <2>2. Conclude(f) /\ rung = LastRung
    BY <1>2, <1>6 DEF Exhaust
  <2> HIDE DEF f, pool
  <2>3. Sought(f)
    BY <1>0, <1>2, <2>1, <2>2 DEF Sought
  <2> QED
    BY <1>2, <2>2, <2>3
<1>7. CASE Decide
  <2> DEFINE proofs == Proofs(Payout, rung)
             e == Exhaustive(net, pool, credit[Payout])
             v == IF \E p \in proofs : proofs = {p} THEN "PROVEN" ELSE "AMBIGUOUS"
             f == Finding(Payout, rung, v, proofs, e, "L3-dp")
  <2>1. /\ f.verdict = v /\ f.proofs = proofs /\ f.layer = "L3-dp"
        /\ f.rung = rung /\ f.space.members = pool
    BY <1>3 DEF Finding
  <2>2. Conclude(f) /\ proofs # {}
    BY <1>2, <1>7 DEF Decide
  <2>3. \A p \in proofs : p # {} /\ p \subseteq pool /\ Fits(net, p, credit[Payout])
    <3>1. proofs = Found(net, pool, credit[Payout])
      BY ProofsAreFound
    <3>2. \A p \in proofs : p \in Explanations(net, pool, credit[Payout])
      BY <1>3, <3>1 DEF Found
    <3> QED
      BY <3>2 DEF Explanations
  <2>4. /\ v \in {"PROVEN", "AMBIGUOUS"}
        /\ v = "AMBIGUOUS" => \A p : proofs # {p}
    OBVIOUS
  <2> HIDE DEF f, v, e, proofs, pool
  <2>5. Sought(f)
    BY <1>0, <1>2, <2>1, <2>2, <2>3, <2>4 DEF Sought
  <2> QED
    BY <1>2, <2>2, <2>5
<1> QED
  BY <1>4, <1>5, <1>6, <1>7

LEMMA InitDecided == AnchoringInit => DecidedInv
<1>1. Undecided.verdict = "UNDECIDED"
  BY DEF Undecided
<1> QED
  BY <1>1, PayoutIsASettlement DEF AnchoringInit, NoBook, DecidedInv

LEMMA AnchoringDecided ==
  RunInv /\ PlaceInv /\ DecidedInv /\ [AnchoringNext]_all => DecidedInv'
<1> SUFFICES ASSUME RunInv, PlaceInv, DecidedInv, [AnchoringNext]_all PROVE DecidedInv'
  OBVIOUS
<1>0. EngineOK /\ Undecided.verdict = "UNDECIDED" /\ Payout \in Settlements
  BY PayoutIsASettlement DEF RunInv, Undecided
<1>1. ASSUME findings' = [s \in Settlements |-> Undecided] PROVE DecidedInv'
  BY <1>0, <1>1 DEF DecidedInv
<1>2. ASSUME UNCHANGED <<net, capturedOn, credit, settledOn, work>>,
             findings'[Payout] = findings[Payout],
             phase # "source" => phase' # "source"
      PROVE  DecidedInv'
  <2>1. \A r : Window(Payout, r)' = Window(Payout, r)
    BY <1>2 DEF Window
  <2>2. \A f : Sought(f)' <=> Sought(f)
    BY <1>2, <2>1 DEF Sought
  <2> QED
    BY <1>2, <2>2 DEF DecidedInv
<1>3. CASE Load \/ FetchSynthetic
  <2>1. phase = "source" /\ findings' = findings
    BY <1>3 DEF Load, FetchSynthetic, Draw, Book
  <2> QED
    BY <1>1, <2>1 DEF RunInv
<1>4. CASE Reconcile
  <2>0. Next
    BY <1>4 DEF Reconcile
  <2>1. /\ phase # "source" /\ phase' # "source"
        /\ UNCHANGED <<net, capturedOn, credit, settledOn, work>>
    BY <2>0 DEF Next, MatchSingle, Skip, Decide, Widen, Exhaust, Finish, AttachCores, Searched,
                Deciding, Conclude, book
  <2>2. CASE MatchSingle \/ Skip \/ Decide \/ Exhaust
    <3>1. work = <<Payout>> /\ Current = Payout
      BY <1>0, <2>2, AnswersAreSought
    <3>2. PICK f : Sought(f) /\ Conclude(f)
      BY <1>0, <2>2, AnswersAreSought
    <3>3. findings'[Payout] = f
      BY <1>0, <3>1, <3>2 DEF Conclude, EngineOK
    <3>4. \A r : Window(Payout, r)' = Window(Payout, r)
      BY <2>1 DEF Window
    <3>5. Sought(f)'
      BY <2>1, <3>2, <3>4 DEF Sought
    <3> QED
      BY <2>1, <3>1, <3>3, <3>5 DEF DecidedInv
  <2>3. CASE Widen \/ Finish
    <3>1. findings' = findings
      BY <2>3 DEF Widen, Finish
    <3> QED
      BY <1>2, <2>1, <3>1
  <2>4. CASE AttachCores
    <3>1. PICK f \in FindingType : f = findings[Payout]
      BY <1>0 DEF EngineOK
    <3>2. findings'[Payout] = f \/ findings'[Payout] = WithCore(f)
      BY <1>0, <2>4, <3>1 DEF AttachCores
    <3>3. /\ WithCore(f).verdict = f.verdict /\ WithCore(f).proofs = f.proofs
          /\ WithCore(f).layer = f.layer /\ WithCore(f).space = f.space
          /\ WithCore(f).rung = f.rung
      BY DEF WithCore, FindingType
    <3>4. PICK g : g = findings'[Payout]
      OBVIOUS
    <3>5. /\ g.verdict = f.verdict /\ g.proofs = f.proofs /\ g.layer = f.layer
          /\ g.space = f.space /\ g.rung = f.rung
      BY <3>2, <3>3, <3>4
    <3>6. Sought(f) => Sought(g)
      BY <3>5 DEF Sought
    <3>7. \A r : Window(Payout, r)' = Window(Payout, r)
      BY <2>1 DEF Window
    <3>8. Sought(g) => Sought(g)'
      BY <2>1, <3>7 DEF Sought
    <3>9. g.verdict # "UNDECIDED" => work' = <<Payout>> /\ Sought(g)'
      BY <2>1, <3>1, <3>5, <3>6, <3>8 DEF DecidedInv
    <3> QED
      BY <2>1, <3>4, <3>9 DEF DecidedInv
  <2> QED
    BY <2>0, <2>2, <2>3, <2>4 DEF Next
<1>5. CASE Compare
  <2>1. CASE Withhold
    <3>1. turn = 1 /\ findings' = findings
      BY <2>1 DEF Withhold
    <3> QED
      BY <1>1, <3>1 DEF RunInv
  <2>2. CASE RunAgain
    BY <1>1, <2>2 DEF RunAgain
  <2> QED
    BY <1>5, <2>1, <2>2 DEF Compare
<1>6. CASE WalkStep \/ FetchRazorpay \/ Loop \/ Ask \/ UNCHANGED all
  <2>1. UNCHANGED vars
    BY <1>6 DEF WalkStep, FetchRazorpay, Step, Loop, Investigate, AskModel, AskBatch, Round,
                Ask, Request, all
  <2> QED
    BY <1>2, <2>1 DEF vars
<1> QED
  BY <1>3, <1>4, <1>5, <1>6 DEF AnchoringNext

-----------------------------------------------------------------------------
(* The truth in the list *)

\* An order more or less is more than the rounding of any bundle.
LEMMA OrdersWeigh ==
  ASSUME NEW n \in [Orders -> Int], NEW S \in SUBSET Orders, \A o \in S : n[o] \in Large
  PROVE  /\ Total(n, S) \in Int
         /\ \A o \in S : n[o] <= Total(n, S)
         /\ \A P \in SUBSET S : P # S => Total(n, P) \in Int
                                         /\ Total(n, S) - Total(n, P) > Cardinality(Orders)
<1>0. IsFiniteSet(Orders) /\ Cardinality(Orders) \in Nat
  BY SubsetSumAssumption, FS_CardinalityType
<1>1. Total(n, S) \in Int
  BY <1>0, TotalStep
<1>2. ASSUME NEW o \in S, NEW T \in SUBSET S, o \in T PROVE n[o] <= Total(n, T)
  <2>1. T \in SUBSET Orders /\ T \ {o} \in SUBSET Orders
    OBVIOUS
  <2>2. Total(n, T) = n[o] + Total(n, T \ {o})
    BY <1>0, <1>2, <2>1, TotalRemove
  <2>3. \A p \in T \ {o} : n[p] >= 0
    BY <1>0 DEF Large
  <2>4. Total(n, T \ {o}) >= 0 /\ Total(n, T \ {o}) \in Int
    BY <1>0, <2>1, <2>3, TotalIsPositive, TotalStep
  <2> QED
    BY <2>2, <2>4
<1>3. ASSUME NEW P \in SUBSET S, P # S
      PROVE  Total(n, P) \in Int /\ Total(n, S) - Total(n, P) > Cardinality(Orders)
  <2>1. PICK o \in S : o \notin P
    BY <1>3
  <2>2. PICK T \in SUBSET S : T = S \ P
    OBVIOUS
  <2>3. /\ Total(n, S) = Total(n, P) + Total(n, T)
        /\ Total(n, P) \in Int /\ Total(n, T) \in Int
    BY <1>0, <2>2, TotalOfPart
  <2>4. n[o] <= Total(n, T) /\ n[o] \in Large
    BY <1>2, <2>1, <2>2
  <2> QED
    BY <1>0, <2>3, <2>4 DEF Large
<1> QED
  BY <1>1, <1>2, <1>3

\* What the answer had before it: the truth, in every window that reaches back
\* to the day it was captured on, and nothing at all in the others.
LEMMA TruthIsSought ==
  ASSUME RunInv, WalkInv, PlaceInv, TruthInv, DecidedInv, Honest,
         findings[Payout].verdict # "UNDECIDED", truth \subseteq Recorded,
         Residual(net, truth, credit[Payout]) >= 0
  PROVE  /\ truth \in SUBSET Orders /\ truth # {}
         /\ \A o \in truth : net[o] \in Large
         /\ Residual(net, truth, credit[Payout]) \in 0 .. Cardinality(truth)
         /\ \/ truth \subseteq findings[Payout].space.members
            \/ findings[Payout].space.members = {} /\ findings[Payout].rung # LastRung
<1> DEFINE f == findings[Payout]
           x == credit[Payout]
<1>0. /\ net \in [Orders -> Int] /\ x \in Int
      /\ phase # "source" /\ work = <<Payout>> /\ Sought(f)
      /\ IsFiniteSet(Orders) /\ Cardinality(Orders) \in Nat
  BY PayoutIsASettlement, SubsetSumAssumption, FS_CardinalityType DEF RunInv, EngineOK, DecidedInv
<1>1. truth \in SUBSET Orders /\ \A o \in truth : net[o] # 0
  BY DEF Recorded
<1>2. /\ moved = lag /\ settledOn[Payout] = day /\ lag \in {2, 4}
      /\ Whole \in [Orders -> Int]
      /\ \A o \in Orders : Whole[o] # 0 => Whole[o] \in Large
      /\ \A o \in truth : Whole[o] \in Large /\ capturedOn[o] = start
      /\ lag = 4 => \A o \in Orders : Whole[o] # 0 => capturedOn[o] = start
      /\ Magnitude(x - Total(Whole, truth)) <= Cardinality(truth)
      /\ truth # {}
  BY <1>0, <1>1, PayoutIsASettlement DEF TruthInv
<1>3. \A o \in Orders : net[o] # 0 => net[o] = Whole[o]
  BY DEF PlaceInv, Whole
<1>4. \A o \in truth : net[o] = Whole[o] /\ net[o] \in Large
  BY <1>1, <1>2, <1>3
<1>5. Total(net, truth) = Total(Whole, truth) /\ Total(net, truth) \in Int
  <2>1. PICK n \in [Orders -> Int] : n = net
    BY <1>0
  <2>2. PICK w \in [Orders -> Int] : w = Whole
    BY <1>2
  <2>3. PICK T \in SUBSET Orders : T = truth
    BY <1>1
  <2>4. T \subseteq Orders /\ \A o \in T : n[o] = w[o]
    BY <1>4, <2>1, <2>2, <2>3
  <2>5. Total(n, T) = Total(w, T)
    BY <1>0, <2>4, TotalSame
  <2>6. Total(n, T) \in Int
    BY <1>0, TotalStep
  <2> QED
    BY <2>1, <2>2, <2>3, <2>5, <2>6
<1>6. Cardinality(truth) \in Nat
  BY <1>0, <1>1, FS_Subset, FS_CardinalityType
<1>7. x - Total(net, truth) \in 0 .. Cardinality(truth)
  <2>1. x - Total(net, truth) >= 0
    BY DEF Residual
  <2> HIDE DEF x
  <2> QED
    BY <1>0, <1>2, <1>5, <1>6, <2>1 DEF Magnitude
<1>8. \A o \in truth : 0 < net[o] /\ net[o] <= x
  <2>1. \A o \in truth : net[o] <= Total(net, truth)
    BY <1>0, <1>1, <1>4, OrdersWeigh
  <2> HIDE DEF x
  <2> QED
    BY <1>0, <1>1, <1>4, <1>5, <1>7, <2>1 DEF Large
<1>9. /\ IsCaptureDate(start, day, lag)
      /\ \A other \in Int : IsCaptureDate(start, day, other) => other = lag
  BY <1>2, WindowsInvertTheWalk
<1>10. f.rung \in 0 .. LastRung /\ LastRung = 2 /\ f.space.members = Affordable(net, Window(Payout, f.rung), x)
  BY <1>0 DEF Sought, LastRung, LagLadder
<1>11. LagLadder[1] = 2 /\ LagLadder[2] = 3 /\ LagLadder[3] = 4
  BY DEF LagLadder
<1>12. CASE lag = 2 \/ f.rung = LastRung
  <2>1. PICK i \in 1 .. (f.rung + 1) : LagLadder[i] = lag
    <3>1. CASE lag = 2
      BY <1>10, <1>11, <3>1
    <3>2. CASE lag = 4
      BY <1>10, <1>11, <1>12, <3>2
    <3> QED
      BY <1>2, <3>1, <3>2
  <2>2. \A o \in truth : IsCaptureDate(capturedOn[o], settledOn[Payout], LagLadder[i])
    BY <1>2, <1>9, <2>1
  <2>3. truth \subseteq Window(Payout, f.rung)
    BY <1>1, <2>2 DEF Window
  <2>4. truth \subseteq f.space.members
    BY <1>8, <1>10, <2>3 DEF Affordable
  <2> QED
    BY <1>1, <1>2, <1>4, <1>7, <2>4 DEF Residual
<1>13. CASE lag = 4 /\ f.rung # LastRung
  <2>1. ASSUME NEW o \in f.space.members PROVE FALSE
    <3>1. o \in Window(Payout, f.rung) /\ 0 < net[o]
      BY <1>10, <2>1 DEF Affordable
    <3>2. o \in Orders
      BY <3>1 DEF Window
    <3>3. net[o] # 0 /\ net[o] \in Int
      BY <1>0, <3>1, <3>2
    <3>4. capturedOn[o] = start
      BY <1>2, <1>3, <1>13, <3>2, <3>3
    <3>5. PICK i \in 1 .. (f.rung + 1) : IsCaptureDate(start, day, LagLadder[i])
      BY <1>2, <3>1, <3>4 DEF Window
    <3>6. i \in {1, 2}
      BY <1>10, <1>13
    <3>7. LagLadder[i] \in {2, 3}
      BY <1>11, <3>6
    <3> QED
      BY <1>9, <1>13, <3>5, <3>7
  <2> QED
    BY <1>1, <1>2, <1>4, <1>7, <1>13, <2>1 DEF Residual
<1> QED
  BY <1>2, <1>12, <1>13

\* The list the answer gives, when the truth was among the candidates.
LEMMA TruthIsListed ==
  ASSUME RunInv, WalkInv, PlaceInv, TruthInv, DecidedInv, Honest,
         findings[Payout].verdict # "UNDECIDED", truth \subseteq Recorded,
         Residual(net, truth, credit[Payout]) \in 0 .. BandCap
  PROVE  /\ findings[Payout].verdict # "CONTRADICTED"
         /\ findings[Payout].layer = "L3-dp" =>
              /\ findings[Payout].exhaustive => truth \in findings[Payout].proofs
              /\ findings[Payout].verdict = "PROVEN" => findings[Payout].proofs = {truth}
<1> DEFINE f == findings[Payout]
           x == credit[Payout]
           pool == findings[Payout].space.members
<1>0. /\ net \in [Orders -> Int] /\ x \in Int /\ f \in FindingType
      /\ Sought(f) /\ Faithful(f, net, x) /\ EngineOK /\ SearchInv /\ Payout \in Settlements
      /\ IsFiniteSet(Orders) /\ Cardinality(Orders) \in Nat
  BY PayoutIsASettlement, SubsetSumAssumption, FS_CardinalityType
     DEF RunInv, EngineOK, SearchInv, DecidedInv
<1>1. /\ truth \in SUBSET Orders /\ truth # {}
      /\ \A o \in truth : net[o] \in Large
      /\ Residual(net, truth, x) \in 0 .. Cardinality(truth)
      /\ truth \subseteq pool \/ (pool = {} /\ f.rung # LastRung)
  BY TruthIsSought
<1>2. pool \in SUBSET Orders
  BY <1>0 DEF FindingType, SearchSpaces
<1>3. ASSUME truth \subseteq pool
      PROVE  truth \in Explanations(net, pool, x)
  <2>1. Cardinality(truth) \in Nat /\ Cardinality(truth) <= Cardinality(pool)
        /\ Cardinality(pool) \in Nat /\ Cardinality(truth) <= Cardinality(Orders)
    BY <1>0, <1>1, <1>2, <1>3, FS_Subset, FS_CardinalityType
  <2>2. Residual(net, truth, x) <= Cardinality(pool) /\ Residual(net, truth, x) <= BandCap
    BY <1>1, <2>1, SubsetSumAssumption
  <2>3. Residual(net, truth, x) \in 0 .. Band(pool)
    BY <1>1, <2>1, <2>2, SubsetSumAssumption DEF Band, Tolerance
  <2>4. Fits(net, truth, x)
    <3> HIDE DEF x
    <3> QED
      BY <1>1, <2>1 DEF Fits, Tolerance, Magnitude
  <2>5. InReach(net, pool, truth, x)
    BY <1>1, <2>3, <2>4 DEF InReach
  <2>6. PICK p \in Explanations(net, pool, x) : p \subseteq truth
    BY <1>0, <1>3, <2>5, ReachIsSearched
  <2>7. ASSUME p # truth PROVE FALSE
    <3>1. /\ Total(net, truth) - Total(net, p) > Cardinality(Orders)
          /\ Total(net, truth) \in Int /\ Total(net, p) \in Int
      BY <1>0, <1>1, <2>6, <2>7, OrdersWeigh
    <3>2. Fits(net, p, x)
      BY <2>6 DEF Explanations
    <3>3. Cardinality(p) \in Nat /\ Cardinality(p) <= Cardinality(Orders)
      BY <1>0, <1>1, <2>6, FS_Subset, FS_CardinalityType
    <3>4. x - Total(net, truth) >= 0 /\ x - Total(net, truth) \in Int
      BY <1>0, <1>1, <3>1 DEF Residual
    <3> HIDE DEF x
    <3> QED
      BY <1>0, <3>1, <3>2, <3>3, <3>4 DEF Fits, Residual, Tolerance, Magnitude
  <2> QED
    BY <2>6, <2>7
<1>4. ASSUME f.layer = "L3-dp" PROVE truth \subseteq pool
  <2>1. f.proofs # {} /\ \A p \in f.proofs : p # {} /\ p \subseteq pool
    BY <1>0, <1>4 DEF Sought
  <2>2. pool # {}
    BY <2>1
  <2> QED
    BY <1>1, <2>2
<1>5. f.verdict # "CONTRADICTED"
  <2> SUFFICES ASSUME f.verdict = "CONTRADICTED" PROVE FALSE
    OBVIOUS
  <2>1. f.rung = LastRung
    BY <1>0 DEF Sought
  <2>2. Explanations(net, pool, x) = {}
    BY <1>0 DEF Faithful
  <2> QED
    BY <1>1, <1>3, <2>1, <2>2
<1>6. ASSUME f.layer = "L3-dp"
      PROVE  /\ f.exhaustive => truth \in f.proofs
             /\ f.verdict = "PROVEN" => f.proofs = {truth}
  <2>1. truth \in Explanations(net, pool, x)
    BY <1>3, <1>4, <1>6
  <2>2. /\ f.exhaustive => f.proofs = Explanations(net, pool, x)
        /\ f.verdict = "PROVEN" => f.proofs = Explanations(net, pool, x)
        /\ f.verdict = "PROVEN" => \E p \in f.proofs : f.proofs = {p}
    BY <1>0, <1>6 DEF Faithful
  <2> QED
    BY <2>1, <2>2
<1> QED
  BY <1>5, <1>6

BooksInv == PullInv /\ RunInv /\ RowsInv /\ WalkInv /\ PlaceInv /\ TruthInv /\ DecidedInv

\* What is known of the book and of the answer, in every state.
LEMMA BooksInvariant == AnchoringSpec => []BooksInv
<1>1. AnchoringInit => BooksInv
  BY InitPull, InitRunInv, InitRows, InitWalk, InitPlace, InitTruth, InitDecided
     DEF AnchoringInit, BooksInv
<1>2. BooksInv /\ [AnchoringNext]_all => BooksInv'
  BY AnchoringPull, AnchoringRun, AnchoringRows, AnchoringWalk, AnchoringPlace, AnchoringTruth,
     AnchoringDecided DEF BooksInv
<1> QED
  BY <1>1, <1>2, PTL DEF AnchoringSpec

\* Honest books are never contradicted and a finished search lists what the
\* payout was made of, whatever the bundle, the calendar and the pages.
THEOREM TheTruthIsNeverLost == AnchoringSpec => []TheTruthIsListed
<1>1. BooksInv => TheTruthIsListed
  BY TruthIsListed DEF BooksInv, TheTruthIsListed
<1> QED
  BY <1>1, BooksInvariant, PTL

-----------------------------------------------------------------------------
(* The figures *)

\* A proof the engine gives may post, and nothing else may.
LEMMA ProvenMayPost ==
  ASSUME RunInv, DecidedInv, findings[Payout].verdict # "UNDECIDED"
  PROVE  /\ findings[Payout] \in FindingType /\ Sought(findings[Payout])
         /\ findings[Payout].space.members \in SUBSET Orders
         /\ UNION findings[Payout].proofs \subseteq findings[Payout].space.members
         /\ Postable(findings[Payout]) <=> findings[Payout].verdict = "PROVEN"
<1> DEFINE f == findings[Payout]
<1>1. f \in FindingType /\ Sought(f)
  BY PayoutIsASettlement DEF RunInv, EngineOK, DecidedInv
<1>2. f.space.members \in SUBSET Orders
  BY <1>1 DEF FindingType, SearchSpaces
<1>3. \A p \in f.proofs : p # {} /\ p \subseteq f.space.members
  BY <1>1 DEF Sought
<1>4. ASSUME f.verdict = "PROVEN" PROVE Postable(f)
  <2>1. f.proofs # {} /\ f.layer # ""
    BY <1>1, <1>4 DEF Sought
  <2>2. f.space.members # {} /\ Orders # {}
    BY <1>2, <1>3, <2>1
  <2> QED
    BY <1>3, <1>4, <2>1, <2>2 DEF Postable
<1>5. Postable(f) => f.verdict = "PROVEN"
  BY DEF Postable
<1> QED
  BY <1>1, <1>2, <1>3, <1>4, <1>5

\* The four readers, of one finding.
LEMMA StoriesAreTheSame ==
  ASSUME NEW f, NEW price, f.verdict = "PROVEN" <=> Postable(f)
  PROVE  SameStory(f, price)
<1> DEFINE got == UNION f.proofs
           posts == Judgement(f.verdict, credit[Payout], price) = "AUTO_POST"
           m == Measured(f, price)
           e == Evaluated(f)
           sim == Simulated(f, price)
<1>1. posts => f.verdict = "PROVEN"
  BY DEF Judgement
<1>2. Postable(f) => f.proofs # {}
  BY DEF Postable
<1>3. Claim(f) = IF Postable(f) THEN got ELSE {}
  BY DEF Claim
<1>4. /\ m.exact = (f.verdict = "PROVEN" /\ f.proofs # {} /\ Claim(f) = truth)
      /\ m.false_proof = (f.verdict = "PROVEN" /\ f.proofs # {} /\ Claim(f) # truth)
      /\ m.pairs = Pairs(Claim(f))
      /\ m.posted = (IF posts THEN credit[Payout] ELSE 0)
      /\ m.protected = (IF posts THEN 0 ELSE credit[Payout])
      /\ m.wrongly = (IF posts /\ Claim(f) # truth THEN credit[Payout] ELSE 0)
      /\ m.loss = (IF posts THEN ExpectedLoss(price, credit[Payout]) ELSE 0)
  BY DEF Measured
<1>5. /\ sim.posted = (IF posts THEN credit[Payout] ELSE 0)
      /\ sim.protected = (IF posts THEN 0 ELSE credit[Payout])
      /\ sim.loss = (IF posts THEN ExpectedLoss(price, credit[Payout]) ELSE 0)
      /\ sim.wrong = (posts /\ f.proofs # {} /\ got # truth)
  BY DEF Simulated
<1>6. /\ Postable(f) => /\ e.exact = (got = truth) /\ e.wrong = (got # truth)
                        /\ e.pairs = Pairs(got)
      /\ ~Postable(f) => /\ e.exact = FALSE /\ e.wrong = FALSE
                         /\ e.pairs = [Pairs({}) EXCEPT !.fn = Cardinality(truth)]
  BY DEF Evaluated
<1>7. [Pairs({}) EXCEPT !.fn = Cardinality(truth)] = Pairs({})
  <2>1. truth \ {} = truth
    OBVIOUS
  <2> QED
    BY <2>1 DEF Pairs
<1>8. Observation(f) = "error" <=> f.verdict = "PROVEN" /\ f.proofs # {} /\ got # truth
  BY DEF Observation
<1> HIDE DEF got, posts, m, e, sim
<1>9. m.exact = e.exact /\ m.false_proof = e.wrong /\ m.pairs = e.pairs
  <2>1. CASE Postable(f)
    <3>1. Claim(f) = got
      BY <1>3, <2>1
    <3> QED
      BY ONLY <1>2, <1>4, <1>6, <2>1, <3>1, f.verdict = "PROVEN" <=> Postable(f)
  <2>2. CASE ~Postable(f)
    <3>1. Claim(f) = {}
      BY <1>3, <2>2
    <3> QED
      BY ONLY <1>4, <1>6, <1>7, <2>2, <3>1, f.verdict = "PROVEN" <=> Postable(f)
  <2> QED
    BY <2>1, <2>2
<1>10. m.false_proof <=> Observation(f) = "error"
  BY <1>3, <1>4, <1>8
<1>11. m.posted = sim.posted /\ m.protected = sim.protected /\ m.loss = sim.loss
  BY <1>4, <1>5
<1>12. sim.wrong => m.false_proof
  BY <1>1, <1>3, <1>4, <1>5
<1>13. sim.wrong /\ credit[Payout] # 0 <=> m.wrongly # 0
  BY <1>1, <1>2, <1>3, <1>4, <1>5
<1> QED
  BY <1>9, <1>10, <1>11, <1>12, <1>13 DEF SameStory, m, e, sim

\* What every explanation of a payout has in common is less than the payout, by
\* an order at least, and all of them together are no less than it.
LEMMA AgreedAndDisputed ==
  ASSUME RunInv, PlaceInv, TruthInv, DecidedInv, findings[Payout].verdict = "AMBIGUOUS", NEW price
  PROVE  NothingCountedTwice(findings[Payout], price)
<1> DEFINE f == findings[Payout]
           x == credit[Payout]
           U == UNION f.proofs
           D == Disputed(f)
           C == U \ D
<1>0. /\ net \in [Orders -> Int] /\ x \in Int /\ phase # "source"
      /\ IsFiniteSet(Orders) /\ Cardinality(Orders) \in Nat
      /\ Sought(f) /\ f.space.members \in SUBSET Orders /\ U \subseteq f.space.members
  BY ProvenMayPost, PayoutIsASettlement, SubsetSumAssumption, FS_CardinalityType
     DEF RunInv, EngineOK, DecidedInv
<1>1. \A o \in f.space.members : net[o] \in Large
  <2>1. \A o \in f.space.members : o \in Orders /\ 0 < net[o]
    BY <1>0 DEF Sought, Affordable
  <2>2. \A o \in Orders : net[o] # 0 => net[o] = Whole[o]
    BY DEF PlaceInv, Whole
  <2>3. \A o \in Orders : Whole[o] # 0 => Whole[o] \in Large
    BY <1>0 DEF TruthInv
  <2>4. \A o \in f.space.members : net[o] # 0
    BY <1>0, <2>1
  <2> QED
    BY <2>1, <2>2, <2>3, <2>4
<1>2. /\ U \in SUBSET Orders /\ C \in SUBSET U /\ D = U \ C
      /\ \A o \in U : net[o] \in Large
  BY <1>0, <1>1 DEF Disputed
<1>3. PICK p \in f.proofs : C \subseteq p /\ C # p
  <2>1. f.proofs # {} /\ \A p : f.proofs # {p}
    BY <1>0 DEF Sought
  <2>2. PICK p, q \in f.proofs : p # q
    BY <2>1
  <2>3. C = {o \in U : \A r \in f.proofs : o \in r}
    BY <1>2 DEF Disputed
  <2> QED
    BY <2>2, <2>3
<1>4. p \in SUBSET U /\ p \in SUBSET Orders /\ C \in SUBSET p /\ Fits(net, p, x)
  BY <1>0, <1>2, <1>3 DEF Sought
<1>5. /\ Total(net, p) \in Int /\ Total(net, C) \in Int
      /\ Total(net, p) - Total(net, C) > Cardinality(Orders)
  <2>1. \A o \in p : net[o] \in Large
    BY <1>2, <1>4
  <2> HIDE DEF C, D, U, x, f
  <2> QED
    BY <1>0, <1>3, <1>4, <2>1, OrdersWeigh
<1>6. /\ Cardinality(p) \in Nat /\ Cardinality(p) <= Cardinality(Orders)
      /\ Cardinality(p) <= Cardinality(f.space.members) /\ Cardinality(f.space.members) \in Nat
  <2>1. p \subseteq f.space.members /\ IsFiniteSet(f.space.members)
    BY <1>0, <1>4, FS_Subset
  <2> QED
    BY <1>0, <1>4, <2>1, FS_Subset, FS_CardinalityType
<1>7. x - Total(net, p) <= Cardinality(p) /\ Total(net, p) - x <= Cardinality(p)
  <2> HIDE DEF x
  <2> QED
    BY <1>0, <1>4, <1>5, <1>6 DEF Fits, Residual, Tolerance, Magnitude
<1>8. Total(net, p) <= Total(net, U) /\ Total(net, U) \in Int
  <2>1. CASE p = U
    BY <1>5, <2>1
  <2>2. CASE p # U
    <3> HIDE DEF C, D, U, x, f
    <3>1. Total(net, U) \in Int /\ Total(net, U) - Total(net, p) > Cardinality(Orders)
      BY <1>0, <1>2, <1>4, <2>2, OrdersWeigh
    <3> QED
      BY <1>0, <1>5, <3>1
  <2> QED
    BY <2>1, <2>2
<1>9. Total(net, U) = Total(net, C) + Total(net, D) /\ Total(net, D) \in Int
  <2> HIDE DEF C, D, U, x, f
  <2>1. PICK T : T = U \ C
    OBVIOUS
  <2>2. Total(net, U) = Total(net, C) + Total(net, U \ C) /\ Total(net, U \ C) \in Int
    BY <1>0, <1>2, TotalOfPart
  <2> QED
    BY <1>2, <2>2
<1>10. /\ Measured(f, price).money.settled = Total(net, C)
       /\ Measured(f, price).money.disputed = Total(net, D)
       /\ Measured(f, price).posted = 0
  <2>1. /\ Accounted(f).settled = Total(net, C) /\ Accounted(f).disputed = Total(net, D)
    BY DEF Accounted, Nothing
  <2>2. Judgement(f.verdict, x, price) = "REVIEW"
    BY DEF Judgement
  <2> QED
    BY <2>1, <2>2 DEF Measured
<1> HIDE DEF C, D, U, x
<1>11. 0 + Total(net, C) <= x
  BY <1>0, <1>5, <1>6, <1>7
<1>12. x <= Total(net, C) + Total(net, D) + Cardinality(f.space.members)
  BY <1>0, <1>5, <1>6, <1>7, <1>8, <1>9
<1> QED
  BY <1>10, <1>11, <1>12 DEF NothingCountedTwice, Tolerance, x

\* What is recovered was in reach.
LEMMA RecoveredIsReachable ==
  ASSUME NEW f, f.space.members \in SUBSET Orders, UNION f.proofs \subseteq f.space.members
  PROVE  WithinTheCeiling(f)
<1> DEFINE U == UNION f.proofs
           P == f.space.members
<1>1. IsFiniteSet(truth \cap P)
  BY SubsetSumAssumption, FS_Subset
<1>2. Cardinality(truth \cap P) \in Nat
  BY <1>1, FS_CardinalityType
<1>3. Cardinality(U \cap truth) <= Cardinality(truth \cap P)
  <2>1. PICK X : X = truth \cap P
    OBVIOUS
  <2>2. PICK Y : Y = U \cap truth
    OBVIOUS
  <2>3. Y \subseteq X /\ IsFiniteSet(X)
    BY <1>1, <2>1, <2>2
  <2>4. Cardinality(Y) <= Cardinality(X)
    BY ONLY <2>3, FS_Subset
  <2> QED
    BY <2>1, <2>2, <2>4
<1>4. Cardinality({} \cap truth) = 0
  <2>1. {} \cap truth = {}
    OBVIOUS
  <2> QED
    BY <2>1, FS_EmptySet
<1>5. U = truth => Cardinality(truth \cap P) = Cardinality(truth)
  <2> SUFFICES ASSUME U = truth PROVE Cardinality(truth \cap P) = Cardinality(truth)
    OBVIOUS
  <2>1. truth \cap P = truth
    OBVIOUS
  <2> QED
    BY <2>1
<1>6. Evaluated(f).reachable = Cardinality(truth \cap P)
  BY DEF Evaluated
<1>7. Evaluated(f).pairs.tp \in {Cardinality(U \cap truth), Cardinality({} \cap truth)}
  BY DEF Evaluated, Pairs
<1>8. Evaluated(f).exact => U = truth
  BY DEF Evaluated
<1> HIDE DEF U, P
<1> QED
  BY <1>2, <1>3, <1>4, <1>5, <1>6, <1>7, <1>8 DEF WithinTheCeiling

\* The benchmark, the harness, the calibration and the simulation of the policy
\* agree over every book a source can hand over, and over an honest one a false
\* proof is never an answer of the search.
THEOREM FiguresAlwaysAgree == AnchoringSpec => []FiguresAgree
<1>1. BooksInv => FiguresAgree
  <2> DEFINE f == findings[Payout]
  <2> SUFFICES ASSUME BooksInv, f.verdict # "UNDECIDED", NEW price \in Prices
               PROVE  /\ SameStory(f, price)
                      /\ NothingCountedTwice(f, price)
                      /\ WithinTheCeiling(f)
                      /\ (/\ Honest /\ truth \subseteq Recorded
                          /\ Residual(net, truth, credit[Payout]) \in 0 .. BandCap
                          /\ Measured(f, price).false_proof)
                         => f.layer = "L2-single"
    BY DEF FiguresAgree
  <2>1. RunInv /\ WalkInv /\ PlaceInv /\ TruthInv /\ DecidedInv
    BY DEF BooksInv
  <2>2. /\ Sought(f) /\ f.space.members \in SUBSET Orders
        /\ UNION f.proofs \subseteq f.space.members
        /\ f.verdict = "PROVEN" <=> Postable(f)
    BY <2>1, ProvenMayPost
  <2>3. SameStory(f, price)
    BY <2>2, StoriesAreTheSame
  <2>4. NothingCountedTwice(f, price)
    <3>1. CASE f.verdict = "AMBIGUOUS"
      BY <2>1, <3>1, AgreedAndDisputed
    <3>2. CASE f.verdict # "AMBIGUOUS"
      BY <3>2 DEF NothingCountedTwice
    <3> QED
      BY <3>1, <3>2
  <2>5. WithinTheCeiling(f)
    BY <2>2, RecoveredIsReachable
  <2>6. ASSUME Honest, truth \subseteq Recorded, Residual(net, truth, credit[Payout]) \in 0 .. BandCap,
               Measured(f, price).false_proof
        PROVE  f.layer = "L2-single"
    <3>1. f.verdict = "PROVEN" /\ Claim(f) # truth
      BY <2>6 DEF Measured
    <3>2. f.layer \in {"L2-single", "L3-dp"}
      BY <2>2, <3>1 DEF Sought
    <3>3. f.layer = "L3-dp" => f.proofs = {truth}
      BY <2>1, <2>6, <3>1, TruthIsListed
    <3>4. Claim(f) = UNION f.proofs
      BY <2>2, <3>1 DEF Claim
    <3>5. UNION {truth} = truth
      OBVIOUS
    <3> QED
      BY <3>1, <3>2, <3>3, <3>4, <3>5
  <2> QED
    BY <2>3, <2>4, <2>5, <2>6
<1> QED
  BY <1>1, BooksInvariant, PTL

-----------------------------------------------------------------------------
(* The two runs *)

\* The order file n without the orders that are late.
Without(n, L) == [o \in Orders |-> IF o \in L THEN 0 ELSE n[o]]

\* What is there without the late orders is worth what it was.
LEMMA EarlyIsTheSame ==
  ASSUME NEW n \in [Orders -> Int], NEW L, NEW x \in Int, NEW S \in SUBSET (Orders \ L)
  PROVE  /\ Without(n, L) \in [Orders -> Int]
         /\ Total(n, S) \in Int /\ Total(Without(n, L), S) = Total(n, S)
         /\ Residual(n, S, x) \in Int /\ Residual(Without(n, L), S, x) = Residual(n, S, x)
         /\ Fits(Without(n, L), S, x) <=> Fits(n, S, x)
         /\ \A o, p \in Orders \ L : Before(Without(n, L), o, p) <=> Before(n, o, p)
<1> DEFINE m == Without(n, L)
<1>1. m \in [Orders -> Int] /\ \A o \in Orders \ L : m[o] = n[o]
  BY DEF Without
<1>2. IsFiniteSet(Orders) /\ S \in SUBSET Orders
  BY SubsetSumAssumption
<1> HIDE DEF m
<1>3. Total(n, S) \in Int
  BY <1>2, TotalStep
<1>4. Total(m, S) = Total(n, S)
  BY <1>1, <1>2, TotalSame
<1>5. Residual(n, S, x) \in Int /\ Residual(m, S, x) = Residual(n, S, x)
  BY <1>3, <1>4 DEF Residual
<1>6. Fits(m, S, x) <=> Fits(n, S, x)
  BY <1>5 DEF Fits
<1>7. \A o, p \in Orders \ L : Before(m, o, p) <=> Before(n, o, p)
  BY <1>1 DEF Before
<1> QED
  BY <1>1, <1>3, <1>4, <1>5, <1>6, <1>7 DEF m

\* More orders, more candidates, a band as wide at least.
LEMMA MoreCandidates ==
  ASSUME NEW n \in [Orders -> Int], NEW L, NEW W \in SUBSET Orders, NEW x \in Int
  PROVE  LET less == Affordable(Without(n, L), W, x)
             more == Affordable(n, W, x)
         IN  /\ less = more \ L /\ more \in SUBSET Orders /\ less \in SUBSET (Orders \ L)
             /\ Affordable(n, more, x) = more /\ Affordable(Without(n, L), less, x) = less
             /\ \A o \in more : n[o] > 0
             /\ Cardinality(less) \in Nat /\ Cardinality(more) \in Nat
             /\ Cardinality(less) <= Cardinality(more)
             /\ Band(less) \in Nat /\ Band(more) \in Nat /\ Band(less) <= Band(more)
<1> DEFINE m == Without(n, L)
           less == Affordable(m, W, x)
           more == Affordable(n, W, x)
<1>1. \A o \in Orders : m[o] = IF o \in L THEN 0 ELSE n[o]
  BY DEF Without
<1>2. less = more \ L /\ more \in SUBSET Orders /\ less \in SUBSET (Orders \ L)
  BY <1>1 DEF Affordable
<1>3. Affordable(n, more, x) = more /\ Affordable(m, less, x) = less /\ \A o \in more : n[o] > 0
  BY DEF Affordable
<1> HIDE DEF less, more
<1>4. IsFiniteSet(more) /\ IsFiniteSet(less) /\ Cardinality(less) <= Cardinality(more)
  BY <1>2, SubsetSumAssumption, FS_Subset
<1>5. Cardinality(less) \in Nat /\ Cardinality(more) \in Nat
  BY <1>4, FS_CardinalityType
<1>6. Band(less) \in Nat /\ Band(more) \in Nat
  BY <1>2, BandIsNat
<1>7. Band(less) <= Band(more)
  BY <1>4, <1>5, SubsetSumAssumption DEF Band, Tolerance
<1> QED
  BY <1>2, <1>3, <1>4, <1>5, <1>6, <1>7 DEF less, more, m

\* Nothing that was reported is lost to records that come later.
LEMMA NothingFoundIsLost ==
  ASSUME NEW n \in [Orders -> Int], NEW L, NEW W \in SUBSET Orders, NEW x \in Int
  PROVE  Explanations(Without(n, L), Affordable(Without(n, L), W, x), x)
           \subseteq Explanations(n, Affordable(n, W, x), x)
<1> DEFINE m == Without(n, L)
           less == Affordable(m, W, x)
           more == Affordable(n, W, x)
<1>0. IsFiniteSet(Orders)
  BY SubsetSumAssumption
<1>1. /\ less \subseteq more /\ more \in SUBSET Orders /\ less \in SUBSET (Orders \ L)
      /\ \A o \in more : n[o] > 0
      /\ Band(less) \in Nat /\ Band(more) \in Nat /\ Band(less) <= Band(more)
  BY MoreCandidates
<1>2. /\ m \in [Orders -> Int]
      /\ \A o, p \in Orders \ L : Before(m, o, p) <=> Before(n, o, p)
  BY EarlyIsTheSame
<1>3. \A S \in SUBSET less :
        /\ Total(n, S) \in Int /\ Total(m, S) = Total(n, S)
        /\ Residual(n, S, x) \in Int /\ Residual(m, S, x) = Residual(n, S, x)
        /\ Fits(m, S, x) <=> Fits(n, S, x)
  BY <1>1, EarlyIsTheSame
<1> HIDE DEF m, less, more
<1> DEFINE fewer == {S \in SUBSET less : S # {} /\ Fits(m, S, x)}
           fits == {S \in SUBSET more : S # {} /\ Fits(n, S, x)}
<1>4. Reachable(m, less, x) \subseteq Reachable(n, more, x)
  BY <1>1, <1>3 DEF Reachable
<1> SUFFICES ASSUME NEW S \in Explanations(m, less, x)
             PROVE  S \in Explanations(n, more, x)
  BY DEF m, less, more
<1>5. S \in SUBSET less /\ S # {} /\ Fits(m, S, x)
  BY DEF Explanations
<1>6. S \in fits
  BY <1>1, <1>3, <1>5
<1>7. ASSUME NEW o \in S
      PROVE  /\ Chosen(n, S, o) \notin fits
             /\ Uncut(n, more, Reachable(n, more, x), Residual(n, Chosen(n, S, o), x), o)
  <2>1. PICK P : P = Chosen(m, S, o)
    OBVIOUS
  <2>2. P \notin fewer /\ Uncut(m, less, Reachable(m, less, x), Residual(m, P, x), o)
    BY <2>1 DEF Explanations
  <2>3. Chosen(n, S, o) = P
    BY <1>1, <1>2, <1>5, <2>1 DEF Chosen
  <2>4. P \in SUBSET less
    BY <1>5, <2>1 DEF Chosen
  <2>5. P \notin fits
    BY <1>3, <2>2, <2>4
  <2>6. PICK r \in Int : r = Residual(n, P, x) /\ r = Residual(m, P, x)
    BY <1>3, <2>4
  <2>7. PICK A \in SUBSET less : A = {q \in less : ~Before(m, q, o)}
    OBVIOUS
  <2>8. PICK B \in SUBSET more : B = {q \in more : ~Before(n, q, o)}
    OBVIOUS
  <2>9. A \in SUBSET B /\ B \in SUBSET Orders /\ \A q \in B \ A : n[q] > 0
    BY <1>1, <1>2, <1>5, <2>7, <2>8
  <2>10. /\ Total(n, B) = Total(n, A) + Total(n, B \ A) /\ Total(n, B \ A) \in Int
         /\ Total(n, A) \in Int /\ Total(n, B) \in Int /\ Total(n, A) = Total(m, A)
    <3>1. /\ Total(n, B) = Total(n, A) + Total(n, B \ A) /\ Total(n, B \ A) \in Int
          /\ Total(n, B) \in Int
      BY <1>0, <2>9, TotalOfPart
    <3>2. Total(n, A) \in Int /\ Total(m, A) = Total(n, A)
      BY <1>3
    <3> QED
      BY <3>1, <3>2
  <2>11. Total(n, B \ A) >= 0
    <3>1. B \ A \in SUBSET Orders
      BY <2>9
    <3> QED
      BY <1>0, <2>9, <3>1, TotalIsPositive
  <2>12. r >= -Band(less) /\ Total(m, A) >= r - Band(less)
    BY <2>2, <2>6, <2>7 DEF Uncut
  <2>13. r >= -Band(more) /\ Total(n, B) >= r - Band(more)
    BY <1>1, <2>10, <2>11, <2>12
  <2>14. Attainable(Reachable(n, more, x), Band(more), r)
    <3>1. CASE r < 0
      BY <3>1 DEF Attainable
    <3>2. ASSUME NEW y \in Reachable(m, less, x), Magnitude(y - r) <= Band(less)
          PROVE  Attainable(Reachable(n, more, x), Band(more), r)
      <4>1. y \in Int
        BY <1>3 DEF Reachable
      <4>2. Magnitude(y - r) <= Band(more)
        BY <1>1, <3>2, <4>1 DEF Magnitude
      <4> QED
        BY <1>4, <4>2 DEF Attainable
    <3> QED
      BY <2>2, <2>6, <3>1, <3>2 DEF Uncut, Attainable
  <2>15. Uncut(n, more, Reachable(n, more, x), r, o)
    BY <2>8, <2>13, <2>14 DEF Uncut
  <2> QED
    BY <2>3, <2>5, <2>6, <2>15
<1> QED
  BY <1>6, <1>7 DEF Explanations

\* An order that explains the payout by itself is reported, if it is asked for.
LEMMA AloneIsReported ==
  ASSUME NEW n \in [Orders -> Int], NEW W \in SUBSET Orders, NEW x \in Int,
         NEW o \in Affordable(n, W, x), Fits(n, {o}, x)
  PROVE  {o} \in Explanations(n, Affordable(n, W, x), x)
<1> DEFINE pool == Affordable(n, W, x)
<1>0. IsFiniteSet(Orders)
  BY SubsetSumAssumption
<1>1. pool \in SUBSET Orders /\ o \in pool /\ \A q \in pool : 0 < n[q] /\ n[q] <= x /\ n[q] \in Int
  BY DEF Affordable
<1> HIDE DEF pool
<1>2. Band(pool) \in Nat /\ Band(pool) >= 1
  <2>1. IsFiniteSet(pool)
    BY <1>1, SubsetSumAssumption, FS_Subset
  <2>2. Cardinality(pool) \in Nat /\ Cardinality(pool) # 0
    BY <1>1, <2>1, FS_CardinalityType, FS_EmptySet
  <2> QED
    BY <2>2, SubsetSumAssumption DEF Band, Tolerance
<1>3. Total(n, {}) = 0 /\ Total(n, {o}) = n[o]
  <2>1. {o} \in SUBSET Orders /\ {o} \ {o} = {}
    BY <1>1
  <2>2. Total(n, {}) = 0
    BY <1>0, TotalStep
  <2>3. Total(n, {o}) = n[o] + Total(n, {o} \ {o})
    BY <1>0, <2>1, TotalRemove
  <2> QED
    BY <1>1, <2>1, <2>2, <2>3
<1>4. Residual(n, {}, x) = x /\ Residual(n, {o}, x) = x - n[o]
  BY <1>3 DEF Residual
<1>5. Magnitude(x - n[o]) <= 1
  <2>1. Cardinality({o}) = 1
    BY FS_Singleton
  <2> QED
    BY <1>4, <2>1 DEF Fits, Tolerance
<1>6. Chosen(n, {o}, o) = {}
  BY <1>1, BeforeIsTotal DEF Chosen
<1>7. Total(n, {q \in pool : ~Before(n, q, o)}) >= n[o]
  <2>1. PICK A \in SUBSET Orders : A = {q \in pool : ~Before(n, q, o)}
    BY <1>1
  <2>2. o \in A /\ A \ {o} \in SUBSET Orders /\ \A q \in A \ {o} : n[q] > 0
    BY <1>1, <2>1, BeforeIsTotal
  <2>3. Total(n, A) = n[o] + Total(n, A \ {o})
    BY <1>0, <2>1, <2>2, TotalRemove
  <2>4. Total(n, A \ {o}) >= 0 /\ Total(n, A \ {o}) \in Int
    <3>1. PICK B \in SUBSET Orders : B = A \ {o}
      BY <2>2
    <3>2. \A q \in B : n[q] >= 0
      BY <2>2, <3>1
    <3>3. Total(n, B) >= 0
      BY <1>0, <3>2, TotalIsPositive
    <3>4. Total(n, B) \in Int
      BY <1>0, TotalStep
    <3> QED
      BY <3>1, <3>3, <3>4
  <2>5. Total(n, A) >= n[o]
    <3>1. n[o] \in Int
      BY <1>1
    <3>2. PICK t \in Int : t = Total(n, A \ {o}) /\ t >= 0
      BY <2>4
    <3>3. Total(n, A) = n[o] + t
      BY <2>3, <3>2
    <3> QED
      BY <3>1, <3>2, <3>3
  <2> QED
    BY <2>1, <2>5
<1>8. n[o] \in Reachable(n, pool, x)
  <2>1. {o} \in SUBSET pool /\ n[o] \in 0 .. x
    BY <1>1
  <2> QED
    BY <1>3, <2>1 DEF Reachable
<1>9. Total(n, {q \in pool : ~Before(n, q, o)}) \in Int
  <2>1. {q \in pool : ~Before(n, q, o)} \in SUBSET Orders
    BY <1>1
  <2> QED
    BY <1>0, <2>1, TotalStep
<1>10. Uncut(n, pool, Reachable(n, pool, x), x, o)
  <2>1. x >= -Band(pool)
    BY <1>1, <1>2
  <2>2. Total(n, {q \in pool : ~Before(n, q, o)}) >= x - Band(pool)
    <3> DEFINE ahead == Total(n, {q \in pool : ~Before(n, q, o)})
    <3> HIDE DEF ahead
    <3>1. ahead \in Int /\ ahead >= n[o]
      BY <1>7, <1>9 DEF ahead
    <3>2. ahead >= x - Band(pool)
      BY <1>1, <1>2, <1>5, <3>1 DEF Magnitude
    <3> QED
      BY <3>2 DEF ahead
  <2>3. Magnitude(n[o] - x) <= Band(pool)
    BY <1>1, <1>2, <1>5 DEF Magnitude
  <2> QED
    BY <1>8, <2>1, <2>2, <2>3 DEF Uncut, Attainable
<1>11. {} \notin {S \in SUBSET pool : S # {} /\ Fits(n, S, x)}
  OBVIOUS
<1>12. \A q \in {o} : /\ Chosen(n, {o}, q) = {}
                      /\ Uncut(n, pool, Reachable(n, pool, x), Residual(n, {}, x), q)
  BY <1>4, <1>6, <1>10
<1>13. {o} \in SUBSET pool
  BY <1>1
<1>14. {o} \in Explanations(n, pool, x)
  BY <1>11, <1>12, <1>13 DEF Explanations
<1> QED
  BY <1>14 DEF pool

\* An explanation that needs no late order and does not overshoot would have
\* been reported without them.
LEMMA EarlyWasReported ==
  ASSUME NEW n \in [Orders -> Int], NEW L, NEW W \in SUBSET Orders, NEW x \in Int,
         NEW S \in Explanations(n, Affordable(n, W, x), x), S \cap L = {},
         Residual(n, S, x) \in 0 .. BandCap
  PROVE  S \in Explanations(Without(n, L), Affordable(Without(n, L), W, x), x)
<1> DEFINE m == Without(n, L)
           less == Affordable(m, W, x)
           more == Affordable(n, W, x)
<1>1. /\ less = more \ L /\ more \in SUBSET Orders /\ less \in SUBSET (Orders \ L)
      /\ \A o \in more : n[o] > 0
      /\ Cardinality(less) \in Nat
  BY MoreCandidates
<1>2. /\ m \in [Orders -> Int]
      /\ \A o, p \in Orders \ L : Before(m, o, p) <=> Before(n, o, p)
      /\ \A o \in Orders \ L : m[o] = n[o]
  <2>1. \A o \in Orders \ L : m[o] = n[o]
    BY DEF Without
  <2>2. {} \in SUBSET (Orders \ L)
    OBVIOUS
  <2> HIDE DEF m
  <2>3. /\ m \in [Orders -> Int]
        /\ \A o, p \in Orders \ L : Before(m, o, p) <=> Before(n, o, p)
    BY <2>2, EarlyIsTheSame DEF m
  <2> QED
    BY <2>1, <2>3
<1> HIDE DEF m, less, more
<1>3. \A T \in SUBSET less :
        /\ Residual(n, T, x) \in Int /\ Residual(m, T, x) = Residual(n, T, x)
        /\ Fits(m, T, x) <=> Fits(n, T, x)
  BY <1>1, EarlyIsTheSame DEF m
<1> DEFINE fewer == {T \in SUBSET less : T # {} /\ Fits(m, T, x)}
           fits == {T \in SUBSET more : T # {} /\ Fits(n, T, x)}
<1>4. S \in SUBSET more /\ S # {} /\ Fits(n, S, x)
      /\ \A o \in S : Chosen(n, S, o) \notin fits
  BY DEF Explanations, more
<1>5. S \in SUBSET less
  BY <1>1, <1>4
<1>6. S \in fewer
  BY <1>3, <1>4, <1>5
<1>7. Residual(m, S, x) <= Band(less)
  <2>1. IsFiniteSet(less) /\ IsFiniteSet(Orders)
    BY <1>1, SubsetSumAssumption, FS_Subset
  <2>2. Cardinality(S) <= Cardinality(less) /\ IsFiniteSet(S)
    BY <1>5, <2>1, FS_Subset
  <2>3. Cardinality(less) <= Cardinality(Orders) /\ Cardinality(Orders) \in Nat
    BY <1>1, <2>1, FS_Subset, FS_CardinalityType
  <2>4. Cardinality(S) \in Nat
    BY <2>2, FS_CardinalityType
  <2>5. Band(less) \in {Cardinality(less), BandCap}
    BY DEF Band, Tolerance
  <2>6. Residual(m, S, x) \in Int /\ Magnitude(Residual(m, S, x)) <= Cardinality(S)
    BY <1>3, <1>5, <1>6 DEF Fits, Tolerance
  <2>7. Residual(m, S, x) <= BandCap
    BY <1>3, <1>5, SubsetSumAssumption
  <2> QED
    BY <1>1, <2>2, <2>4, <2>5, <2>6, <2>7 DEF Magnitude
<1>8. ASSUME NEW o \in S
      PROVE  /\ Chosen(m, S, o) \notin fewer
             /\ Uncut(m, less, Reachable(m, less, x), Residual(m, Chosen(m, S, o), x), o)
  <2>1. PICK P : P = Chosen(m, S, o)
    OBVIOUS
  <2>2. P \in SUBSET S /\ P \in SUBSET less /\ \A q \in S \ P : ~Before(m, q, o)
    BY <1>5, <2>1 DEF Chosen
  <2>3. P = Chosen(n, S, o)
    BY <1>1, <1>2, <1>5, <2>1 DEF Chosen
  <2>4. P \notin fewer
    BY <1>1, <1>3, <1>4, <2>2, <2>3
  <2>5. \A q \in less : m[q] > 0
    BY <1>1, <1>2
  <2>6. Residual(m, S, x) >= 0 /\ less \in SUBSET Orders /\ o \in less
    BY <1>1, <1>3, <1>5
  <2>7. Uncut(m, less, Reachable(m, less, x), Residual(m, P, x), o)
    BY <1>2, <1>5, <1>7, <2>2, <2>5, <2>6, NoCutOnTheWay
  <2> QED
    BY <2>1, <2>4, <2>7
<1>9. S \in Explanations(m, less, x)
  BY <1>6, <1>8 DEF Explanations
<1> QED
  BY <1>9 DEF m, less

-----------------------------------------------------------------------------
(* Where a run stops *)

PoolAt(n, r) == Affordable(n, Window(Payout, r), credit[Payout])
Alone(n, r) == {o \in PoolAt(n, r) : Fits(n, {o}, credit[Payout])}
Reported(n, r) == Explanations(n, PoolAt(n, r), credit[Payout])

\* One order does it.
Single(n, r) == \E o \in Orders : Alone(n, r) = {o}

\* Nothing at this rung: the engine widens the window, if it can.
Unanswered(n, r) ==
  /\ ~Single(n, r)
  /\ InEnvelope(PoolAt(n, r), credit[Payout])
  /\ Reported(n, r) = {}

\* f is the engine's answer over the order file n: it came to this rung past
\* the others, and says there what the search said.
Stopped(n, f) ==
  /\ f.rung \in 0 .. LastRung
  /\ f.space.members = PoolAt(n, f.rung)
  /\ \A q \in 0 .. (f.rung - 1) : Unanswered(n, q)
  /\ \/ /\ f.layer = "L2-single" /\ f.verdict = "PROVEN"
        /\ Single(n, f.rung) /\ f.proofs = {Alone(n, f.rung)}
     \/ /\ f.layer = "L3-skipped" /\ f.verdict = "INSUFFICIENT"
        /\ ~Single(n, f.rung) /\ ~InEnvelope(PoolAt(n, f.rung), credit[Payout])
        /\ f.proofs = {}
     \/ /\ f.layer = "L3-dp/exhausted" /\ f.verdict = "CONTRADICTED"
        /\ f.rung = LastRung /\ Unanswered(n, f.rung)
        /\ f.proofs = {}
     \/ /\ f.layer = "L3-dp"
        /\ f.verdict = IF \E p \in f.proofs : f.proofs = {p} THEN "PROVEN" ELSE "AMBIGUOUS"
        /\ ~Single(n, f.rung) /\ InEnvelope(PoolAt(n, f.rung), credit[Payout])
        /\ f.proofs # {} /\ f.proofs = Found(n, PoolAt(n, f.rung), credit[Payout])
        /\ f.exhaustive = Exhaustive(n, PoolAt(n, f.rung), credit[Payout])

\* Both runs stopped where the search over their own order file did.
DaysInv ==
  /\ phase = "source" => rung = 0
  /\ turn = 1 => \A q \in 0 .. (rung - 1) : Unanswered(net, q)
  /\ \/ findings[Payout] = Undecided
     \/ findings[Payout].verdict # "UNDECIDED" /\ Stopped(net, findings[Payout])
  /\ (work = <<Payout>> /\ (turn # 1 \/ phase \notin {"source", "cascade"}))
       => findings[Payout] # Undecided
  /\ (work = <<Payout>> /\ late # {} /\ yesterday = Undecided) => net = Without(whole, late)
  /\ yesterday # Undecided =>
       /\ late # {} /\ net = whole
       /\ yesterday.verdict # "UNDECIDED" /\ Stopped(Without(whole, late), yesterday)

LEMMA TurnOfThePayout ==
  ASSUME EngineOK, PlaceInv, Deciding
  PROVE  /\ turn = 1 /\ Current = Payout
         /\ Pool(Payout, rung) = PoolAt(net, rung)
         /\ SpaceOf(Payout, rung).members = PoolAt(net, rung)
         /\ Singles(Payout, rung) = Alone(net, rung)
         /\ SingleMatch(Payout, rung) <=> Single(net, rung)
         /\ Proofs(Payout, rung) = Found(net, PoolAt(net, rung), credit[Payout])
         /\ Proofs(Payout, rung) = {} => Reported(net, rung) = {}
<1> DEFINE pool == Pool(Payout, rung)
<1>0. net \in [Orders -> Int] /\ turn \in Nat \ {0}
  BY DEF EngineOK
<1>1. work = <<Payout>> /\ Current = Payout /\ pool = PoolAt(net, rung)
  BY <1>0, PayoutIsCurrent DEF PoolAt
<1>2. turn = 1
  BY <1>1 DEF Deciding
<1>3. /\ pool \in SUBSET Orders /\ Affordable(net, pool, credit[Payout]) = pool
      /\ SpaceOf(Payout, rung).members = pool
  BY PoolIsAffordable, SpaceTyped
<1>4. Singles(Payout, rung) = Alone(net, rung)
  BY <1>1 DEF Singles, Alone
<1>5. SingleMatch(Payout, rung) <=> Single(net, rung)
  BY <1>4 DEF SingleMatch, Single, Alone, KernelAccepts
<1>6. Proofs(Payout, rung) = Found(net, pool, credit[Payout])
  BY ProofsAreFound
<1> HIDE DEF pool
<1>7. Proofs(Payout, rung) = {} => Explanations(net, pool, credit[Payout]) = {}
  BY <1>0, <1>3, <1>6, FoundIsSome
<1> QED
  BY <1>1, <1>2, <1>3, <1>4, <1>5, <1>6, <1>7 DEF Reported, pool

LEMMA WidensUnanswered ==
  ASSUME EngineOK, PlaceInv, Searched, Proofs(Current, rung) = {}
  PROVE  Unanswered(net, rung)
<1>1. Deciding
  BY DEF Searched
<1>2. /\ Current = Payout /\ Pool(Payout, rung) = PoolAt(net, rung)
      /\ SingleMatch(Payout, rung) <=> Single(net, rung)
      /\ Proofs(Payout, rung) = {} => Reported(net, rung) = {}
  BY <1>1, TurnOfThePayout
<1> QED
  BY <1>2 DEF Searched, Unanswered

LEMMA AnswersStop ==
  ASSUME EngineOK, PlaceInv, DaysInv, MatchSingle \/ Skip \/ Decide \/ Exhaust
  PROVE  Current = Payout /\ \E f : f.verdict # "UNDECIDED" /\ Stopped(net, f) /\ Conclude(f)
<1> DEFINE pool == PoolAt(net, rung)
<1>1. Deciding /\ rung \in 0 .. LastRung
  BY DEF MatchSingle, Skip, Decide, Exhaust, Searched, EngineOK
<1>2. /\ turn = 1 /\ Current = Payout
      /\ Pool(Payout, rung) = pool /\ SpaceOf(Payout, rung).members = pool
      /\ Singles(Payout, rung) = Alone(net, rung)
      /\ SingleMatch(Payout, rung) <=> Single(net, rung)
      /\ Proofs(Payout, rung) = Found(net, pool, credit[Payout])
  BY <1>1, TurnOfThePayout
<1>3. \A q \in 0 .. (rung - 1) : Unanswered(net, q)
  BY <1>2 DEF DaysInv
<1> HIDE DEF pool
<1>4. CASE MatchSingle
  <2> DEFINE f == Finding(Payout, rung, "PROVEN", {Singles(Payout, rung)}, TRUE, "L2-single")
  <2>1. Conclude(f) /\ Single(net, rung)
    BY <1>2, <1>4 DEF MatchSingle
  <2>2. /\ f.verdict = "PROVEN" /\ f.proofs = {Alone(net, rung)} /\ f.layer = "L2-single"
        /\ f.rung = rung /\ f.space.members = pool
    BY <1>2 DEF Finding
  <2> HIDE DEF f
  <2>3. Stopped(net, f)
    BY <1>1, <1>3, <2>1, <2>2 DEF Stopped, pool
  <2> QED
    BY <1>2, <2>1, <2>2, <2>3
<1>5. CASE Skip
  <2> DEFINE f == Finding(Payout, rung, "INSUFFICIENT", {}, FALSE, "L3-skipped")
  <2>1. Conclude(f) /\ ~Single(net, rung) /\ ~InEnvelope(pool, credit[Payout])
    BY <1>2, <1>5 DEF Skip
  <2>2. /\ f.verdict = "INSUFFICIENT" /\ f.proofs = {} /\ f.layer = "L3-skipped"
        /\ f.rung = rung /\ f.space.members = pool
    BY <1>2 DEF Finding
  <2> HIDE DEF f
  <2>3. Stopped(net, f)
    BY <1>1, <1>3, <2>1, <2>2 DEF Stopped, pool
  <2> QED
    BY <1>2, <2>1, <2>2, <2>3
<1>6. CASE Exhaust
  <2> DEFINE f == Finding(Payout, rung, "CONTRADICTED", {}, FALSE, "L3-dp/exhausted")
  <2>1. Conclude(f) /\ Unanswered(net, rung) /\ rung = LastRung
    BY <1>2, <1>6, WidensUnanswered DEF Exhaust
  <2>2. /\ f.verdict = "CONTRADICTED" /\ f.proofs = {} /\ f.layer = "L3-dp/exhausted"
        /\ f.rung = rung /\ f.space.members = pool
    BY <1>2 DEF Finding
  <2> HIDE DEF f
  <2>3. Stopped(net, f)
    BY <1>1, <1>3, <2>1, <2>2 DEF Stopped, pool
  <2> QED
    BY <1>2, <2>1, <2>2, <2>3
<1>7. CASE Decide
  <2> DEFINE proofs == Proofs(Payout, rung)
             e == Exhaustive(net, pool, credit[Payout])
             v == IF \E p \in proofs : proofs = {p} THEN "PROVEN" ELSE "AMBIGUOUS"
             f == Finding(Payout, rung, v, proofs, e, "L3-dp")
  <2>1. /\ Conclude(f) /\ proofs # {} /\ ~Single(net, rung) /\ InEnvelope(pool, credit[Payout])
    BY <1>2, <1>7 DEF Decide, Searched
  <2>2. /\ f.verdict = v /\ f.proofs = proofs /\ f.layer = "L3-dp" /\ f.exhaustive = e
        /\ f.rung = rung /\ f.space.members = pool
    BY <1>2 DEF Finding
  <2>3. v # "UNDECIDED" /\ proofs = Found(net, pool, credit[Payout])
    BY <1>2
  <2>4. v = IF \E p \in f.proofs : f.proofs = {p} THEN "PROVEN" ELSE "AMBIGUOUS"
    BY <2>2
  <2> HIDE DEF f, v, proofs
  <2>5. Stopped(net, f)
    BY <1>1, <1>3, <2>1, <2>2, <2>3, <2>4 DEF Stopped, pool
  <2> QED
    BY <1>2, <2>1, <2>2, <2>3, <2>5
<1> QED
  BY <1>4, <1>5, <1>6, <1>7

LEMMA InitDays == AnchoringInit => DaysInv
<1> SUFFICES ASSUME AnchoringInit PROVE DaysInv
  OBVIOUS
<1>1. /\ rung = 0 /\ turn = 1 /\ phase = "source"
      /\ findings[Payout] = Undecided /\ late = {} /\ yesterday = Undecided
  BY PayoutIsASettlement DEF AnchoringInit, NoBook, DaysInit
<1> QED
  BY <1>1 DEF DaysInv

\* A run starts over: at the first rung with nothing decided.
LEMMA RunStarts ==
  ASSUME rung' = 0, turn' = 1, phase' = "cascade", findings' = [s \in Settlements |-> Undecided],
         (work' = <<Payout>> /\ late' # {} /\ yesterday' = Undecided) => net' = Without(whole, late)',
         yesterday' # Undecided =>
           /\ late' # {} /\ net' = whole'
           /\ yesterday'.verdict # "UNDECIDED" /\ Stopped(Without(whole, late), yesterday)'
  PROVE  DaysInv'
<1>1. findings'[Payout] = Undecided
  BY PayoutIsASettlement
<1>2. \A q \in 0 .. (rung' - 1) : FALSE
  OBVIOUS
<1> QED
  BY <1>1, <1>2 DEF DaysInv

LEMMA AnchoringDays ==
  RunInv /\ PlaceInv /\ DecidedInv /\ DaysInv /\ [AnchoringNext]_all => DaysInv'
<1> SUFFICES ASSUME RunInv, PlaceInv, DecidedInv, DaysInv, [AnchoringNext]_all PROVE DaysInv'
  OBVIOUS
<1>0. EngineOK /\ Undecided.verdict = "UNDECIDED" /\ Payout \in Settlements
  BY PayoutIsASettlement DEF RunInv, Undecided
<1> DEFINE still == UNCHANGED <<capturedOn, credit, settledOn>>
<1>1. ASSUME still
      PROVE  /\ \A n, q : Unanswered(n, q)' <=> Unanswered(n, q)
             /\ \A n, f : Stopped(n, f)' <=> Stopped(n, f)
  <2>1. \A n, r : PoolAt(n, r)' = PoolAt(n, r)
    BY <1>1 DEF PoolAt, Window
  <2>2. \A n, r : Alone(n, r)' = Alone(n, r) /\ Reported(n, r)' = Reported(n, r)
    BY <1>1, <2>1 DEF Alone, Reported
  <2>3. \A n, r : Single(n, r)' <=> Single(n, r)
    BY <2>2 DEF Single
  <2>4. \A n, r : Unanswered(n, r)' <=> Unanswered(n, r)
    BY <1>1, <2>1, <2>2, <2>3 DEF Unanswered
  <2>5. \A n, f : Stopped(n, f)' <=> Stopped(n, f)
    BY <1>1, <2>1, <2>2, <2>3, <2>4 DEF Stopped
  <2> QED
    BY <2>4, <2>5
<1>2. ASSUME still, UNCHANGED <<net, late, whole, yesterday, work>>
      PROVE  /\ (work' = <<Payout>> /\ late' # {} /\ yesterday' = Undecided) => net' = Without(whole, late)'
             /\ yesterday' # Undecided =>
                  /\ late' # {} /\ net' = whole'
                  /\ yesterday'.verdict # "UNDECIDED" /\ Stopped(Without(whole, late), yesterday)'
  <2>1. Without(whole, late)' = Without(whole, late)
    BY <1>2 DEF Without
  <2>2. Stopped(Without(whole, late), yesterday)' <=> Stopped(Without(whole, late), yesterday)
    <3>1. PICK n : n = Without(whole, late)
      OBVIOUS
    <3>2. PICK f : f = yesterday
      OBVIOUS
    <3>3. Stopped(n, f)' <=> Stopped(n, f)
      BY <1>1, <1>2
    <3> QED
      BY <1>2, <2>1, <3>1, <3>2, <3>3 DEF Stopped
  <2> QED
    BY <1>2, <2>1, <2>2 DEF DaysInv
<1>3. CASE Load \/ FetchSynthetic
  <2>1. /\ phase = "source" /\ rung' = rung /\ findings' = findings
        /\ turn' = turn /\ phase' = "cascade"
        /\ UNCHANGED <<late, yesterday>>
    BY <1>3 DEF Load, FetchSynthetic, Draw, Book, rest, days
  <2>2. late' = {} /\ rung' = 0 /\ turn' = 1 /\ findings' = [s \in Settlements |-> Undecided]
    BY <2>1 DEF DaysInv, PlaceInv, RunInv
  <2>3. yesterday' = Undecided
    BY <2>1 DEF DaysInv, PlaceInv
  <2> QED
    BY <2>1, <2>2, <2>3, RunStarts
<1>4. CASE Compare
  <2>1. CASE Withhold
    <3>1. /\ rung' = 0 /\ findings' = findings /\ turn = 1 /\ late = {} /\ late' # {}
          /\ whole' = net /\ net' = [o \in Orders |-> IF o \in late' THEN 0 ELSE net[o]]
          /\ yesterday' = yesterday /\ turn' = 1 /\ phase' = "cascade"
      BY <2>1 DEF Withhold
    <3>2. yesterday' = Undecided
      BY <3>1 DEF DaysInv
    <3>3. net' = Without(whole, late)'
      BY <3>1 DEF Without
    <3>4. findings' = [s \in Settlements |-> Undecided]
      BY <3>1 DEF RunInv
    <3> QED
      BY <3>1, <3>2, <3>3, <3>4, RunStarts
  <2>2. CASE RunAgain
    <3>1. /\ rung' = 0 /\ findings' = [s \in Settlements |-> Undecided] /\ late # {}
          /\ net' = whole /\ whole' = whole /\ late' = late
          /\ yesterday = Undecided /\ yesterday' = findings[Payout]
          /\ still /\ work' = work /\ phase = "done" /\ turn' = 1 /\ phase' = "cascade"
      BY <2>2 DEF RunAgain
    <3>2. /\ work = <<Payout>> => net = Without(whole, late)
          /\ Without(whole, late)' = Without(whole, late)
      BY <3>1 DEF DaysInv, Without
    <3>3. PICK f : f = findings[Payout]
      OBVIOUS
    <3>4. PICK n : n = net
      OBVIOUS
    <3>5. f = Undecided \/ (f.verdict # "UNDECIDED" /\ Stopped(n, f))
      BY <3>3, <3>4 DEF DaysInv
    <3>6. /\ f.verdict # "UNDECIDED" => work = <<Payout>>
          /\ work = <<Payout>> => f # Undecided
      BY <3>1, <3>3 DEF DaysInv, DecidedInv
    <3>7. f = Undecided \/ (f.verdict # "UNDECIDED" /\ Stopped(n, f)')
      BY <1>1, <3>1, <3>5
    <3>8. work = <<Payout>> => (Stopped(n, f)' => Stopped(Without(whole, late), yesterday)')
      BY <3>1, <3>2, <3>3, <3>4 DEF Stopped
    <3>9. work' = <<Payout>> => yesterday' # Undecided
      BY <3>1, <3>3, <3>6
    <3>10. yesterday' # Undecided =>
             yesterday'.verdict # "UNDECIDED" /\ Stopped(Without(whole, late), yesterday)'
      BY <3>1, <3>3, <3>7, <3>8, <3>6
    <3> QED
      BY <3>1, <3>9, <3>10, RunStarts
  <2> QED
    BY <1>4, <2>1, <2>2 DEF Compare
<1>5. ASSUME still, UNCHANGED <<net, late, whole, yesterday, work>>,
             (work = <<Payout>> /\ (turn' # 1 \/ phase' \notin {"source", "cascade"}))
               => findings'[Payout] # Undecided,
             phase' = "source" => rung' = 0,
             turn' = 1 => \A q \in 0 .. (rung' - 1) : Unanswered(net, q),
             \/ findings'[Payout] = Undecided
             \/ findings'[Payout].verdict # "UNDECIDED" /\ Stopped(net, findings'[Payout])
      PROVE  DaysInv'
  <2>2. turn' = 1 => \A q \in 0 .. (rung' - 1) : Unanswered(net, q)'
    <3>1. \A q : Unanswered(net, q)' <=> Unanswered(net, q)
      <4>1. PICK n : n = net
        OBVIOUS
      <4>2. \A q : Unanswered(n, q)' <=> Unanswered(n, q)
        BY <1>1, <1>5
      <4> QED
        BY <1>5, <4>1, <4>2 DEF Unanswered
    <3> QED
      BY <1>5, <3>1
  <2>3. PICK f : f = findings'[Payout]
    OBVIOUS
  <2>4. f = Undecided \/ (f.verdict # "UNDECIDED" /\ Stopped(net, f))
    BY <1>5, <2>3
  <2>5. PICK n : n = net
    OBVIOUS
  <2>6. Stopped(n, f)' => Stopped(net, findings[Payout])'
    BY <1>5, <2>3, <2>5 DEF Stopped
  <2>7. Stopped(n, f) => Stopped(n, f)'
    BY <1>1, <1>5
  <2> QED
    BY <1>2, <1>5, <2>2, <2>3, <2>4, <2>5, <2>6, <2>7 DEF DaysInv
<1>6. CASE Reconcile
  <2>0. Next /\ UNCHANGED days
    BY <1>6 DEF Reconcile, rest
  <2>1. /\ still /\ UNCHANGED <<net, late, whole, yesterday, work>>
        /\ phase # "source" /\ phase' # "source" /\ turn \in Nat \ {0} /\ rung \in Nat
    <3>1. turn \in Nat \ {0} /\ rung \in Nat
      BY <1>0 DEF EngineOK
    <3> QED
      BY <2>0, <3>1 DEF Next, MatchSingle, Skip, Decide, Widen, Exhaust, Finish, AttachCores,
                        Searched, Deciding, Conclude, book, days
  <2>2. CASE MatchSingle \/ Skip \/ Decide \/ Exhaust
    <3>1. PICK f : f.verdict # "UNDECIDED" /\ Stopped(net, f) /\ Conclude(f)
      BY <1>0, <2>2, AnswersStop
    <3>2. findings'[Payout] = f /\ rung' = 0
      BY <1>0, <2>2, <3>1, AnswersStop DEF Conclude, EngineOK
    <3>3. \A q \in 0 .. (rung' - 1) : FALSE
      BY <3>2
    <3>4. f # Undecided
      BY <1>0, <3>1
    <3> QED
      BY <1>5, <2>1, <3>1, <3>2, <3>3, <3>4
  <2>3. CASE Widen
    <3>1. Unanswered(net, rung) /\ rung' = rung + 1 /\ UNCHANGED <<turn, findings>>
      BY <1>0, <2>3, WidensUnanswered DEF Widen
    <3>2. \A q \in 0 .. (rung' - 1) : q = rung \/ q \in 0 .. (rung - 1)
      BY <2>1, <3>1
    <3>3. turn' = 1 => \A q \in 0 .. (rung' - 1) : Unanswered(net, q)
      BY <3>1, <3>2 DEF DaysInv
    <3>4. phase' = phase
      BY <2>3 DEF Widen, Searched, Deciding
    <3> QED
      BY <1>5, <2>1, <3>1, <3>3, <3>4 DEF DaysInv
  <2>4. CASE Finish
    <3>1. /\ UNCHANGED <<turn, rung, findings>>
          /\ work = <<Payout>> => turn # 1
      BY <2>4 DEF Finish
    <3> QED
      BY <1>5, <2>1, <3>1 DEF DaysInv
  <2>5. CASE AttachCores
    <3>1. UNCHANGED <<turn, rung>> /\ phase = "cores"
      BY <2>5 DEF AttachCores
    <3>2. PICK f \in FindingType : f = findings[Payout]
      BY <1>0 DEF EngineOK
    <3>3. findings'[Payout] = f \/ (Explainable(f) /\ findings'[Payout] = WithCore(f))
      BY <1>0, <2>5, <3>2 DEF AttachCores
    <3>4. /\ WithCore(f).verdict = f.verdict /\ WithCore(f).proofs = f.proofs
          /\ WithCore(f).layer = f.layer /\ WithCore(f).space = f.space
          /\ WithCore(f).rung = f.rung /\ WithCore(f).exhaustive = f.exhaustive
      BY DEF WithCore, FindingType
    <3>5. PICK g : g = findings'[Payout]
      OBVIOUS
    <3>6. f = Undecided \/ (f.verdict # "UNDECIDED" /\ Stopped(net, f))
      BY <3>2 DEF DaysInv
    <3>7. CASE g = f
      <4>1. work = <<Payout>> => f # Undecided
        BY <3>1, <3>2 DEF DaysInv
      <4>2. turn' = 1 => \A q \in 0 .. (rung' - 1) : Unanswered(net, q)
        BY <3>1 DEF DaysInv
      <4> QED
        BY <1>5, <2>1, <3>5, <3>6, <3>7, <4>1, <4>2
    <3>8. CASE g # f
      <4>1. Explainable(f) /\ g = WithCore(f)
        BY <3>3, <3>5, <3>8
      <4>2. f.verdict # "UNDECIDED" /\ Stopped(net, f)
        BY <1>0, <3>6, <4>1 DEF Explainable
      <4>3. /\ g.verdict = f.verdict /\ g.proofs = f.proofs /\ g.layer = f.layer
            /\ g.space = f.space /\ g.rung = f.rung /\ g.exhaustive = f.exhaustive
        BY <3>4, <4>1
      <4>4. Stopped(net, g)
        BY <4>2, <4>3 DEF Stopped
      <4>5. turn' = 1 => \A q \in 0 .. (rung' - 1) : Unanswered(net, q)
        BY <3>1 DEF DaysInv
      <4> QED
        BY <1>0, <1>5, <2>1, <3>5, <4>2, <4>3, <4>4, <4>5
    <3> QED
      BY <3>7, <3>8
  <2> QED
    BY <2>0, <2>2, <2>3, <2>4, <2>5 DEF Next
<1>7. CASE WalkStep \/ FetchRazorpay \/ Loop \/ Ask \/ UNCHANGED all
  <2>1. UNCHANGED vars /\ UNCHANGED days
    BY <1>7 DEF WalkStep, FetchRazorpay, Step, Loop, Investigate, AskModel, AskBatch, Round,
                Ask, Request, all, rest
  <2> QED
    BY <1>5, <2>1 DEF vars, days, DaysInv
<1> QED
  BY <1>3, <1>4, <1>6, <1>7 DEF AnchoringNext

-----------------------------------------------------------------------------
(* What came between *)

\* The pools of the two runs at a rung, and what they report.
LEMMA PoolsOfTheRuns ==
  ASSUME EngineOK, NEW n \in [Orders -> Int], NEW L, NEW r
  PROVE  LET m == Without(n, L)
             x == credit[Payout]
         IN  /\ m \in [Orders -> Int] /\ x \in Int
             /\ PoolAt(m, r) = PoolAt(n, r) \ L /\ PoolAt(n, r) \in SUBSET Orders
             /\ InEnvelope(PoolAt(n, r), x) => InEnvelope(PoolAt(m, r), x)
             /\ Reported(m, r) \subseteq Reported(n, r)
             /\ Alone(m, r) = Alone(n, r) \ L
             /\ \A o \in Alone(m, r) : {o} \in Reported(m, r)
             /\ \A o \in Alone(n, r) : {o} \in Reported(n, r)
             /\ \A S \in Reported(n, r) :
                  (S \cap L = {} /\ Residual(n, S, x) \in 0 .. BandCap) => S \in Reported(m, r)
<1> DEFINE m == Without(n, L)
           x == credit[Payout]
           W == Window(Payout, r)
           less == PoolAt(m, r)
           more == PoolAt(n, r)
<1>0. W \in SUBSET Orders /\ x \in Int
  BY PayoutIsASettlement DEF Window, EngineOK
<1>1. less = Affordable(m, W, x) /\ more = Affordable(n, W, x)
  BY DEF PoolAt
<1>2. m \in [Orders -> Int]
  BY <1>0, EarlyIsTheSame
<1> HIDE DEF m, x, W, less, more
<1>3. /\ less = more \ L /\ more \in SUBSET Orders /\ less \in SUBSET (Orders \ L)
      /\ Cardinality(less) \in Nat /\ Cardinality(more) \in Nat
      /\ Cardinality(less) <= Cardinality(more)
  BY <1>0, <1>1, MoreCandidates DEF m
<1>4. InEnvelope(more, x) => InEnvelope(less, x)
  BY <1>3, SubsetSumAssumption DEF InEnvelope
<1>5. Explanations(m, less, x) \subseteq Explanations(n, more, x)
  BY <1>0, <1>1, NothingFoundIsLost DEF m
<1>6. \A o \in Orders \ L : Fits(m, {o}, x) <=> Fits(n, {o}, x)
  <2> TAKE o \in Orders \ L
  <2>1. {o} \in SUBSET (Orders \ L)
    OBVIOUS
  <2> QED
    BY <1>0, <2>1, EarlyIsTheSame DEF m
<1>7. {o \in less : Fits(m, {o}, x)} = {o \in more : Fits(n, {o}, x)} \ L
  BY <1>3, <1>6
<1>8. \A o \in less : Fits(m, {o}, x) => {o} \in Explanations(m, less, x)
  BY <1>0, <1>1, <1>2, AloneIsReported
<1>9. \A o \in more : Fits(n, {o}, x) => {o} \in Explanations(n, more, x)
  BY <1>0, <1>1, AloneIsReported
<1>10. \A S \in Explanations(n, more, x) :
         (S \cap L = {} /\ Residual(n, S, x) \in 0 .. BandCap) => S \in Explanations(m, less, x)
  BY <1>0, <1>1, EarlyWasReported DEF m
<1>11. /\ Alone(m, r) = {o \in less : Fits(m, {o}, x)}
       /\ Alone(n, r) = {o \in more : Fits(n, {o}, x)}
       /\ Reported(m, r) = Explanations(m, less, x)
       /\ Reported(n, r) = Explanations(n, more, x)
  BY DEF Alone, Reported, less, more, x
<1> QED
  BY <1>0, <1>2, <1>3, <1>4, <1>5, <1>7, <1>8, <1>9, <1>10, <1>11 DEF m, x, less, more

\* What the last rung reached has to show for itself.
LEMMA AnswersShow ==
  ASSUME EngineOK, NEW n \in [Orders -> Int], NEW f, Stopped(n, f)
  PROVE  LET x == credit[Payout]
             r == f.rung
         IN  /\ r \in Nat /\ r <= LastRung /\ LastRung \in Nat
             /\ f.verdict \in {"PROVEN", "AMBIGUOUS"} => Reported(n, r) # {}
             /\ f.verdict = "INSUFFICIENT" => ~InEnvelope(PoolAt(n, r), x)
             /\ f.verdict \notin {"PROVEN", "AMBIGUOUS", "INSUFFICIENT"} =>
                  f.verdict = "CONTRADICTED" /\ r = LastRung /\ Unanswered(n, r)
             /\ f.layer = "L2-single" => f.verdict = "PROVEN" /\ Single(n, r) /\ f.proofs = {Alone(n, r)}
             /\ f.verdict = "AMBIGUOUS" => f.layer = "L3-dp"
             /\ f.verdict = "PROVEN" => f.layer \in {"L2-single", "L3-dp"}
             /\ f.layer = "L3-dp" =>
                  /\ f.verdict = IF \E p \in f.proofs : f.proofs = {p} THEN "PROVEN" ELSE "AMBIGUOUS"
                  /\ ~Single(n, r) /\ InEnvelope(PoolAt(n, r), x)
                  /\ f.proofs # {} /\ f.proofs \subseteq Reported(n, r)
                  /\ f.exhaustive = Exhaustive(n, PoolAt(n, r), x)
                  /\ f.exhaustive => f.proofs = Reported(n, r)
<1> DEFINE x == credit[Payout]
           r == f.rung
           pool == PoolAt(n, r)
<1>1. pool \in SUBSET Orders /\ Affordable(n, pool, x) = pool
  BY DEF PoolAt, Affordable, Window
<1>2. r \in Nat /\ r <= LastRung /\ LastRung \in Nat
  <2>1. LastRung = 2
    BY DEF LastRung, LagLadder
  <2> QED
    BY <2>1 DEF Stopped
<1>3. ASSUME Single(n, r) PROVE Reported(n, r) # {}
  <2>1. PICK o : o \in Alone(n, r)
    BY <1>3 DEF Single
  <2>2. {o} \in Reported(n, r)
    BY <2>1, PoolsOfTheRuns
  <2> QED
    BY <2>2
<1>4. ASSUME f.layer = "L3-dp"
      PROVE  /\ f.proofs \subseteq Reported(n, r)
             /\ f.exhaustive => f.proofs = Reported(n, r)
  <2>1. /\ f.proofs = Found(n, pool, x) /\ f.exhaustive = Exhaustive(n, pool, x)
    BY <1>4 DEF Stopped
  <2>2. Reported(n, r) = Explanations(n, pool, x)
    BY DEF Reported
  <2> HIDE DEF pool, x
  <2>3. Found(n, pool, x) \subseteq Explanations(n, pool, x)
    BY <1>1 DEF Found
  <2>4. Exhaustive(n, pool, x) => Found(n, pool, x) = Explanations(n, pool, x)
    BY <1>1, FoundIsAll
  <2> QED
    BY <2>1, <2>2, <2>3, <2>4
<1>5. f.layer = "L3-dp" =>
        /\ f.verdict = IF \E p \in f.proofs : f.proofs = {p} THEN "PROVEN" ELSE "AMBIGUOUS"
        /\ ~Single(n, r) /\ InEnvelope(pool, x)
        /\ f.proofs # {} /\ f.exhaustive = Exhaustive(n, pool, x)
  BY DEF Stopped
<1>6. /\ f.layer = "L2-single" => f.verdict = "PROVEN" /\ Single(n, r) /\ f.proofs = {Alone(n, r)}
      /\ f.verdict = "INSUFFICIENT" => ~InEnvelope(pool, x)
      /\ f.verdict \notin {"PROVEN", "AMBIGUOUS", "INSUFFICIENT"} =>
           f.verdict = "CONTRADICTED" /\ r = LastRung /\ Unanswered(n, r)
      /\ f.verdict = "AMBIGUOUS" => f.layer = "L3-dp"
      /\ f.verdict = "PROVEN" => f.layer \in {"L2-single", "L3-dp"}
  BY DEF Stopped
<1>7. f.verdict \in {"PROVEN", "AMBIGUOUS"} => Reported(n, r) # {}
  BY <1>3, <1>4, <1>5, <1>6
<1> QED
  BY <1>2, <1>4, <1>5, <1>6, <1>7

\* The cap counts what is reported.
LEMMA CapIsOnTheReported ==
  ASSUME NEW n, NEW r
  PROVE  Exhaustive(n, PoolAt(n, r), credit[Payout]) <=> Cardinality(Reported(n, r)) <= MaxEnum
<1>1. Affordable(n, PoolAt(n, r), credit[Payout]) = PoolAt(n, r)
  BY DEF PoolAt, Affordable
<1> QED
  BY <1>1 DEF Exhaustive, Reported

\* More records, no wider a window.
LEMMA MoreRecordsStopSooner ==
  ASSUME EngineOK, NEW n \in [Orders -> Int], NEW L, NEW f, NEW g,
         Stopped(Without(n, L), f), Stopped(n, g)
  PROVE  g.rung <= f.rung
<1> DEFINE m == Without(n, L)
<1>1. /\ m \in [Orders -> Int]
      /\ InEnvelope(PoolAt(n, f.rung), credit[Payout]) => InEnvelope(PoolAt(m, f.rung), credit[Payout])
      /\ Reported(m, f.rung) \subseteq Reported(n, f.rung)
  BY PoolsOfTheRuns
<1>2. Stopped(m, f)
  OBVIOUS
<1> HIDE DEF m
<1>3. /\ f.rung \in Nat /\ f.rung <= LastRung /\ LastRung \in Nat
      /\ f.verdict \in {"PROVEN", "AMBIGUOUS"} => Reported(m, f.rung) # {}
      /\ f.verdict = "INSUFFICIENT" => ~InEnvelope(PoolAt(m, f.rung), credit[Payout])
      /\ f.verdict \notin {"PROVEN", "AMBIGUOUS", "INSUFFICIENT"} => f.rung = LastRung
  BY <1>1, <1>2, AnswersShow
<1>4. g.rung \in Nat /\ g.rung <= LastRung
  BY AnswersShow
<1>5. ASSUME f.rung < g.rung PROVE FALSE
  <2>1. f.rung \in 0 .. (g.rung - 1)
    BY <1>3, <1>4, <1>5
  <2>2. Unanswered(n, f.rung)
    BY <2>1 DEF Stopped
  <2>3. f.verdict \notin {"PROVEN", "AMBIGUOUS", "INSUFFICIENT"}
    BY <1>1, <1>3, <2>2 DEF Unanswered
  <2> QED
    BY <1>3, <1>4, <1>5, <2>3
<1> QED
  BY <1>3, <1>4, <1>5

\* Where the first run could have said all that the second one says, it said it.
LEMMA SaidBefore ==
  ASSUME EngineOK, NEW n \in [Orders -> Int], NEW L, NEW f, NEW g,
         Stopped(Without(n, L), f), Stopped(n, g),
         g.verdict \in {"PROVEN", "AMBIGUOUS"}, g.exhaustive,
         \A p \in g.proofs : p \cap L = {},
         g.layer = "L2-single" \/ \A p \in g.proofs : Residual(n, p, credit[Payout]) \in 0 .. BandCap
  PROVE  f.verdict = g.verdict /\ f.proofs = g.proofs
<1> DEFINE m == Without(n, L)
           x == credit[Payout]
           r == g.rung
<1>1. /\ m \in [Orders -> Int] /\ Stopped(m, f)
      /\ InEnvelope(PoolAt(n, r), x) => InEnvelope(PoolAt(m, r), x)
      /\ Reported(m, r) \subseteq Reported(n, r)
      /\ Alone(m, r) = Alone(n, r) \ L
      /\ \A o \in Alone(n, r) : {o} \in Reported(n, r)
      /\ \A o \in Alone(m, r) : {o} \in Reported(m, r)
      /\ \A S \in Reported(n, r) :
           (S \cap L = {} /\ Residual(n, S, x) \in 0 .. BandCap) => S \in Reported(m, r)
  BY PoolsOfTheRuns
<1> HIDE DEF m
<1>2. /\ r \in Nat
      /\ g.layer = "L2-single" => g.verdict = "PROVEN" /\ Single(n, r) /\ g.proofs = {Alone(n, r)}
      /\ g.layer \in {"L2-single", "L3-dp"}
      /\ g.layer = "L3-dp" =>
           /\ g.verdict = IF \E p \in g.proofs : g.proofs = {p} THEN "PROVEN" ELSE "AMBIGUOUS"
           /\ ~Single(n, r) /\ InEnvelope(PoolAt(n, r), x)
           /\ g.proofs # {} /\ g.exhaustive = Exhaustive(n, PoolAt(n, r), x)
           /\ g.proofs = Reported(n, r)
  BY AnswersShow
<1>3. r <= f.rung /\ f.rung \in Nat
  BY <1>1, AnswersShow, MoreRecordsStopSooner
<1>4. ASSUME ~Unanswered(m, r) PROVE f.rung = r
  <2>1. r \notin 0 .. (f.rung - 1)
    BY <1>1, <1>4 DEF Stopped
  <2> QED
    BY <1>2, <1>3, <2>1
<1>5. CASE g.layer = "L2-single"
  <2>1. PICK o \in Orders : Alone(n, r) = {o}
    BY <1>2, <1>5 DEF Single
  <2>2. o \notin L
    BY <1>2, <1>5, <2>1
  <2>3. Alone(m, r) = {o} /\ Single(m, r)
    BY <1>1, <2>1, <2>2 DEF Single
  <2>4. f.rung = r
    BY <1>4, <2>3 DEF Unanswered
  <2>5. f.layer = "L2-single"
    <3>1. Single(m, f.rung)
      BY <2>3, <2>4
    <3> HIDE DEF r
    <3> QED
      BY <1>1, <3>1 DEF Stopped, Unanswered
  <2>6. f.verdict = "PROVEN" /\ f.proofs = {Alone(m, f.rung)}
    BY <1>1, <2>5, AnswersShow
  <2> QED
    BY <1>2, <1>5, <2>1, <2>3, <2>4, <2>6
<1>6. CASE g.layer = "L3-dp"
  <2>1. Reported(n, r) \subseteq Reported(m, r)
    BY <1>1, <1>2, <1>6
  <2>2. Reported(m, r) = Reported(n, r) /\ Reported(m, r) # {}
    BY <1>1, <1>2, <1>6, <2>1
  <2>3. f.rung = r
    BY <1>4, <2>2 DEF Unanswered
  <2>4. ~Single(m, r)
    <3> SUFFICES ASSUME NEW o \in Orders, Alone(m, r) = {o} PROVE FALSE
      BY DEF Single
    <3>1. Alone(n, r) # {o}
      BY <1>2, <1>6 DEF Single
    <3>2. PICK q \in Alone(n, r) : q \in L
      BY <1>1, <3>1
    <3>3. {q} \in g.proofs
      BY <1>1, <1>2, <1>6, <3>2
    <3> QED
      BY <3>2, <3>3
  <2>5. InEnvelope(PoolAt(m, r), x)
    BY <1>1, <1>2, <1>6
  <2>6. f.layer = "L3-dp"
    <3>1. ~Single(m, f.rung) /\ InEnvelope(PoolAt(m, f.rung), x) /\ Reported(m, f.rung) # {}
      BY <2>2, <2>3, <2>4, <2>5
    <3> HIDE DEF r
    <3> QED
      BY <1>1, <3>1 DEF Stopped, Unanswered
  <2>7. Exhaustive(m, PoolAt(m, r), x)
    <3>1. Exhaustive(n, PoolAt(n, r), x)
      BY <1>2, <1>6
    <3> QED
      BY <2>2, <3>1, CapIsOnTheReported
  <2>8. /\ f.proofs = Reported(m, r)
        /\ f.verdict = IF \E p \in f.proofs : f.proofs = {p} THEN "PROVEN" ELSE "AMBIGUOUS"
    <3>1. /\ f.exhaustive = Exhaustive(m, PoolAt(m, f.rung), x)
          /\ f.exhaustive => f.proofs = Reported(m, f.rung)
          /\ f.verdict = IF \E p \in f.proofs : f.proofs = {p} THEN "PROVEN" ELSE "AMBIGUOUS"
      BY <1>1, <2>6, AnswersShow
    <3> QED
      BY <2>3, <2>7, <3>1
  <2> QED
    BY <1>2, <1>6, <2>2, <2>8
<1> QED
  BY <1>2, <1>5, <1>6

\* The comparison of the two runs says what there is to say of the late orders.
LEMMA ChangesAttributed ==
  ASSUME RunInv, DaysInv
  PROVE  ChangesAreAttributed
<1> DEFINE today == findings[Payout]
           m == Without(whole, late)
           x == credit[Payout]
           arrived == {c \in Causes(yesterday, today) : c.kind = "order_arrived"}
           exact == today.layer = "L2-single" \/ \A p \in today.proofs : Residual(net, p, x) \in 0 .. BandCap
<1> SUFFICES ASSUME Compared
             PROVE  /\ today.rung <= yesterday.rung
                    /\ \A c \in arrived : c.orders \subseteq late
                    /\ (Changed(yesterday, today) /\ today.verdict # "INSUFFICIENT") =>
                         /\ today.verdict # "CONTRADICTED"
                         /\ Direction(yesterday, today) = "reframed" =>
                              yesterday.verdict \in {"CONTRADICTED", "INSUFFICIENT"}
                         /\ (today.exhaustive /\ exact) => arrived # {}
  BY DEF ChangesAreAttributed
<1>0. EngineOK /\ Undecided.verdict = "UNDECIDED" /\ x \in Int
  BY PayoutIsASettlement DEF RunInv, Undecided, EngineOK
<1>1. /\ net \in [Orders -> Int] /\ net = whole
      /\ Stopped(net, today) /\ Stopped(Without(net, late), yesterday)
  BY <1>0 DEF DaysInv, Compared, EngineOK
<1>2. today.rung <= yesterday.rung /\ today.rung \in Nat /\ yesterday.rung \in Nat
      /\ yesterday.rung <= LastRung /\ LastRung \in Nat
  <2>1. Without(net, late) \in [Orders -> Int]
    BY <1>1 DEF Without
  <2> QED
    BY <1>0, <1>1, <2>1, MoreRecordsStopSooner, AnswersShow
<1>3. Arrived(yesterday, today) = late \cap OrdersCited(today) \cap today.space.members
  <2>1. /\ today.space.members = PoolAt(net, today.rung)
        /\ yesterday.space.members = PoolAt(Without(net, late), yesterday.rung)
    BY <1>1 DEF Stopped
  <2>2. PoolAt(Without(net, late), yesterday.rung) = PoolAt(net, yesterday.rung) \ late
    BY <1>0, <1>1, PoolsOfTheRuns
  <2>3. PoolAt(net, today.rung) \subseteq PoolAt(net, yesterday.rung)
    <3>1. 1 .. (today.rung + 1) \subseteq 1 .. (yesterday.rung + 1)
      BY <1>2
    <3>2. Window(Payout, today.rung) \subseteq Window(Payout, yesterday.rung)
      BY <3>1 DEF Window
    <3> QED
      BY <3>2 DEF PoolAt, Affordable
  <2> QED
    BY <2>1, <2>2, <2>3 DEF Arrived
<1>4. \A p \in today.proofs : p \subseteq today.space.members
  <2>1. today.verdict \in {"PROVEN", "AMBIGUOUS"} \/ today.proofs = {}
    BY <1>1 DEF Stopped
  <2>2. today.space.members = PoolAt(net, today.rung)
    BY <1>1 DEF Stopped
  <2>3. ASSUME today.layer = "L2-single"
        PROVE  \A p \in today.proofs : p \subseteq PoolAt(net, today.rung)
    <3>1. today.proofs = {Alone(net, today.rung)}
      BY <1>0, <1>1, <2>3, AnswersShow
    <3> QED
      BY <3>1 DEF Alone
  <2>4. ASSUME today.layer = "L3-dp"
        PROVE  \A p \in today.proofs : p \subseteq PoolAt(net, today.rung)
    <3>1. today.proofs \subseteq Reported(net, today.rung)
      BY <1>0, <1>1, <2>4, AnswersShow
    <3> QED
      BY <3>1 DEF Reported, Explanations
  <2> QED
    BY <1>1, <2>2, <2>3, <2>4 DEF Stopped
<1>5. /\ \A c \in arrived : c.orders = Arrived(yesterday, today)
      /\ Arrived(yesterday, today) # {} => arrived # {}
  <2> DEFINE a == [kind |-> "order_arrived", orders |-> Arrived(yesterday, today)]
             b == [kind |-> "order_left", orders |-> Left(yesterday, today)]
             d == [kind |-> "candidate_count", orders |-> {}]
  <2>1. /\ a.kind = "order_arrived" /\ a.orders = Arrived(yesterday, today)
        /\ b.kind # "order_arrived" /\ d.kind # "order_arrived"
    OBVIOUS
  <2>2. \/ Causes(yesterday, today) = {c \in {a, b} : c.orders # {}}
        \/ /\ Causes(yesterday, today) = {d}
           /\ {c \in {a, b} : c.orders # {}} = {}
    BY DEF Causes
  <2> HIDE DEF a, b, d
  <2> QED
    BY <2>1, <2>2
<1>6. \A c \in arrived : c.orders \subseteq late
  BY <1>3, <1>5
<1>7. ASSUME Changed(yesterday, today), today.verdict # "INSUFFICIENT"
      PROVE  /\ today.verdict # "CONTRADICTED"
             /\ Direction(yesterday, today) = "reframed" =>
                  yesterday.verdict \in {"CONTRADICTED", "INSUFFICIENT"}
             /\ (today.exhaustive /\ exact) => arrived # {}
  <2>1. today.verdict \in {"PROVEN", "AMBIGUOUS", "CONTRADICTED"}
    BY <1>1, <1>7 DEF Stopped
  <2>2. today.verdict # "CONTRADICTED"
    <3> SUFFICES ASSUME today.verdict = "CONTRADICTED" PROVE FALSE
      OBVIOUS
    <3>1. today.rung = LastRung /\ Unanswered(net, LastRung)
      BY <1>0, <1>1, AnswersShow
    <3>2. yesterday.rung = LastRung
      BY <1>2, <3>1
    <3>3. /\ Without(net, late) \in [Orders -> Int]
          /\ InEnvelope(PoolAt(Without(net, late), LastRung), x)
          /\ Reported(Without(net, late), LastRung) = {}
      BY <1>0, <1>1, <3>1, PoolsOfTheRuns DEF Unanswered
    <3>4. yesterday.verdict = "CONTRADICTED"
      BY <1>0, <1>1, <3>2, <3>3, AnswersShow
    <3> QED
      BY <1>7, <3>4 DEF Changed
  <2>3. ASSUME Direction(yesterday, today) = "reframed"
        PROVE  yesterday.verdict \in {"CONTRADICTED", "INSUFFICIENT"}
    <3>1. yesterday.verdict # "PROVEN" /\ today.verdict # "PROVEN"
      BY <2>3 DEF Direction
    <3>2. yesterday.verdict # today.verdict
      BY <1>7, <3>1 DEF Changed
    <3>3. yesterday.verdict \in {"PROVEN", "AMBIGUOUS", "CONTRADICTED", "INSUFFICIENT"}
      BY <1>1 DEF Stopped
    <3> QED
      BY <2>1, <2>2, <3>1, <3>2, <3>3
  <2>4. ASSUME today.exhaustive, exact, arrived = {} PROVE FALSE
    <3>1. \A p \in today.proofs : p \cap late = {}
      BY <1>3, <1>4, <1>5, <2>4 DEF OrdersCited
    <3>2. today.verdict \in {"PROVEN", "AMBIGUOUS"}
      BY <2>1, <2>2
    <3>3. yesterday.verdict = today.verdict /\ yesterday.proofs = today.proofs
      BY <1>0, <1>1, <2>4, <3>1, <3>2, SaidBefore
    <3> QED
      BY <1>7, <3>3 DEF Changed
  <2> QED
    BY <2>2, <2>3, <2>4
<1> QED
  BY <1>2, <1>6, <1>7

\* Whatever was late, the diff of two runs names late orders only, and one of
\* them at least wherever one is owed.
THEOREM ChangesHaveTheirCause == AnchoringSpec => []ChangesAreAttributed
<1>1. AnchoringInit => DaysInv
  BY InitDays
<1>2. BooksInv /\ DaysInv /\ [AnchoringNext]_all => DaysInv'
  BY AnchoringDays DEF BooksInv
<1>3. BooksInv /\ DaysInv => ChangesAreAttributed
  BY ChangesAttributed DEF BooksInv
<1> QED
  BY <1>1, <1>2, <1>3, BooksInvariant, PTL DEF AnchoringSpec
=============================================================================
