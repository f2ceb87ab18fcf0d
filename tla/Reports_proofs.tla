--------------------------- MODULE Reports_proofs ---------------------------
(* Theorems about the admin's figures. The chart, the best sellers and the    *)
(* ranges add up to the overview, what the listed customers, the deleted ones *)
(* and the guests spent is the revenue, and the overview's two statements     *)
(* hold together but for the payments that were taken back between them. For  *)
(* every number of orders, customers, products, categories and hours, every   *)
(* calendar and every range.                                                  *)
EXTENDS Reports, SumLemmas

-----------------------------------------------------------------------------
(* The sums of the queries *)

\* What each order comes to, and how many units it has.
TotalsOf == [b \in Bills |-> bill[b].total]

SizesOf == [b \in Bills |-> UnitsOf(b)]

\* Revenue is the sum of the totals.
LEMMA RevenueIsSum ==
  ASSUME NEW T \in SUBSET Bills
  PROVE  Revenue(T) = SumOf(TotalsOf, T)
<1> DEFINE f == TotalsOf
           own(h) == h = [t \in SUBSET T |->
             IF t = {} THEN 0 ELSE LET x == CHOOSE y \in t : TRUE IN bill[x].total + h[t \ {x}]]
           sum(h) == h = [t \in SUBSET T |->
             IF t = {} THEN 0 ELSE LET x == CHOOSE y \in t : TRUE IN f[x] + h[t \ {x}]]
<1>1. \A x \in T : f[x] = bill[x].total
  BY DEF TotalsOf
<1>2. Revenue(T) = (CHOOSE h : own(h))[T]
  BY DEF Revenue, MapThenSumSet, MapThenFoldSet
<1> HIDE DEF f
<1>3. \A h : own(h) <=> sum(h)
  BY <1>1
<1>4. (CHOOSE h : own(h)) = (CHOOSE h : sum(h))
  <2> HIDE DEF own, sum
  <2> QED BY <1>3
<1>5. SumOf(f, T) = (CHOOSE h : sum(h))[T]
  BY DEF SumOf, MapThenSumSet, MapThenFoldSet
<1> QED BY <1>2, <1>4, <1>5 DEF f

\* The units of some orders are the sum of their sizes.
LEMMA UnitsIsSum ==
  ASSUME NEW T \in SUBSET Bills
  PROVE  Units(T) = SumOf(SizesOf, T)
<1> DEFINE f == SizesOf
           own(h) == h = [t \in SUBSET T |->
             IF t = {} THEN 0 ELSE LET x == CHOOSE y \in t : TRUE IN UnitsOf(x) + h[t \ {x}]]
           sum(h) == h = [t \in SUBSET T |->
             IF t = {} THEN 0 ELSE LET x == CHOOSE y \in t : TRUE IN f[x] + h[t \ {x}]]
<1>1. \A x \in T : f[x] = UnitsOf(x)
  BY DEF SizesOf
<1>2. Units(T) = (CHOOSE h : own(h))[T]
  BY DEF Units, MapThenSumSet, MapThenFoldSet
<1> HIDE DEF f
<1>3. \A h : own(h) <=> sum(h)
  BY <1>1
<1>4. (CHOOSE h : own(h)) = (CHOOSE h : sum(h))
  <2> HIDE DEF own, sum
  <2> QED BY <1>3
<1>5. SumOf(f, T) = (CHOOSE h : sum(h))[T]
  BY DEF SumOf, MapThenSumSet, MapThenFoldSet
<1> QED BY <1>2, <1>4, <1>5 DEF f

\* The columns of an order that is stored.
LEMMA BillTypes ==
  ASSUME ReportsTypeOK, NEW b \in Bills
  PROVE  /\ bill[b] \in BillRow
         /\ bill[b].made \in BOOLEAN /\ bill[b].buyer \in Buyers \cup {Guest} /\ bill[b].at \in 0..LastHour
         /\ bill[b].total \in Nat /\ bill[b].units \in [Models -> 0..2]
         /\ \A p \in Models : bill[b].units[p] \in Nat
<1>1. bill[b] \in BillRow
  BY DEF ReportsTypeOK
<1>2. Totals \subseteq Nat
  BY ReportsAssumption
<1>3. bill[b].units \in [Models -> 0..2]
  BY <1>1 DEF BillRow, Basket
<1>4. \A p \in Models : bill[b].units[p] \in Nat
  BY <1>3
<1>5. /\ bill[b].made \in BOOLEAN /\ bill[b].buyer \in Buyers \cup {Guest}
      /\ bill[b].at \in 0..LastHour /\ bill[b].total \in Nat
  BY <1>1, <1>2 DEF BillRow
<1> QED BY <1>1, <1>3, <1>4, <1>5

\* An order's units are a natural number, none if it has none of any product.
LEMMA UnitsOfBill ==
  ASSUME ReportsTypeOK, NEW b \in Bills
  PROVE  /\ UnitsOf(b) = SumOf(bill[b].units, Models) /\ UnitsOf(b) \in Nat
         /\ \A p \in Models : bill[b].units[p] <= UnitsOf(b)
<1>1. UnitsOf(b) = SumOf(bill[b].units, Models)
  BY DEF UnitsOf, SumOf
<1>2. IsFiniteSet(Models) /\ \A p \in Models : bill[b].units[p] \in Nat
  BY BillTypes, ReportsAssumption
<1>3. PICK f : f = bill[b].units
  OBVIOUS
<1>4. SumOf(f, Models) \in Nat /\ \A p \in Models : f[p] <= SumOf(f, Models)
  BY <1>2, <1>3, SumNat
<1> QED BY <1>1, <1>3, <1>4

\* The sets of orders a query adds up are finite, and their sums are naturals.
LEMMA SumsAreNat ==
  ASSUME ReportsTypeOK, NEW T \in SUBSET Bills
  PROVE  IsFiniteSet(T) /\ Cardinality(T) \in Nat /\ Revenue(T) \in Nat /\ Units(T) \in Nat
<1>1. IsFiniteSet(T) /\ Cardinality(T) \in Nat
  BY ReportsAssumption, FS_Subset, FS_CardinalityType
<1>2. \A b \in T : TotalsOf[b] \in Nat /\ SizesOf[b] \in Nat
  BY BillTypes, UnitsOfBill DEF TotalsOf, SizesOf
<1>3. SumOf(TotalsOf, T) \in Nat
  BY <1>1, <1>2, SumNat
<1>4. SumOf(SizesOf, T) \in Nat
  BY <1>1, <1>2, SumNat
<1> QED BY <1>1, <1>3, <1>4, RevenueIsSum, UnitsIsSum

-----------------------------------------------------------------------------
(* The inductive invariant *)

\* A placed order has a unit, and was placed before now.
BillsAreSound ==
  /\ hour < LastHour
  /\ \A b \in Bills : bill[b].made => bill[b].at <= hour /\ \E p \in Models : bill[b].units[p] > 0

\* What the first statement counted is still there for the second, or was taken
\* back in between.
StillPaid == PaidIn(report.since, report.until) \cup takenBack

OverviewIsSound ==
  /\ report.at # "none" => report.paid <= report.orders
  /\ report.at = "half" => report.paid <= Cardinality(StillPaid)
  /\ report.at = "done" => report.paid <= report.units + Cardinality(takenBack)

ReportsInv == ReportsTypeOK /\ BillsAreSound /\ OverviewIsSound

-----------------------------------------------------------------------------
(* Every step *)

\* A set of placed orders has a unit for each of them at least.
LEMMA AUnitEach ==
  ASSUME ReportsTypeOK, BillsAreSound, NEW T \in SUBSET Bills, \A b \in T : bill[b].made
  PROVE  Cardinality(T) <= Units(T)
<1> DEFINE one == [b \in T |-> 1]
<1>1. IsFiniteSet(T)
  BY SumsAreNat
<1>2. ASSUME NEW b \in T PROVE one[b] \in Int /\ SizesOf[b] \in Int /\ one[b] <= SizesOf[b]
  <2>1. PICK p \in Models : bill[b].units[p] > 0
    BY DEF BillsAreSound
  <2>2. bill[b].units[p] \in Nat /\ UnitsOf(b) \in Nat /\ bill[b].units[p] <= UnitsOf(b)
    BY BillTypes, UnitsOfBill
  <2>3. SizesOf[b] = UnitsOf(b)
    BY DEF SizesOf
  <2> QED BY <2>1, <2>2, <2>3
<1>3. \A b \in T : one[b] = 1
  OBVIOUS
<1> HIDE DEF one
<1>4. SumOf(one, T) = Cardinality(T)
  BY <1>1, <1>3, SumOfOnes
<1>5. SumOf(one, T) <= SumOf(SizesOf, T)
  BY <1>1, <1>2, SumMono
<1> QED BY <1>4, <1>5, UnitsIsSum

\* The orders that were paid or taken back when the first statement ran.
LEMMA StillPaidType ==
  ASSUME ReportsTypeOK
  PROVE  /\ StillPaid \in SUBSET Bills /\ IsFiniteSet(StillPaid) /\ Cardinality(StillPaid) \in Nat
         /\ IsFiniteSet(takenBack) /\ Cardinality(takenBack) \in Nat
<1>1. takenBack \in SUBSET Bills
  BY DEF ReportsTypeOK
<1>2. StillPaid \in SUBSET Bills
  BY <1>1 DEF StillPaid, PaidIn, PlacedIn
<1> QED BY <1>1, <1>2, SumsAreNat

\* No step makes the orders that are paid or taken back fewer.
LEMMA PaidGrows ==
  ASSUME ReportsInv, ReportsTypeOK', UNCHANGED report, takenBack \subseteq takenBack',
         \A b \in Bills : bill[b].made =>
           /\ bill'[b].made /\ bill'[b].at = bill[b].at
           /\ bill[b].pay = "paid" => bill'[b].pay = "paid" \/ b \in takenBack'
  PROVE  Cardinality(StillPaid) \in Nat /\ Cardinality(StillPaid') \in Nat
         /\ Cardinality(StillPaid) <= Cardinality(StillPaid')
<1>1. StillPaid \subseteq StillPaid'
  <2>1. PaidIn(report.since, report.until) \subseteq PaidIn(report.since, report.until)' \cup takenBack'
    BY DEF PaidIn, PlacedIn, InRange, Paid
  <2> QED BY <2>1 DEF StillPaid
<1>2. takenBack' \in SUBSET Bills
  BY DEF ReportsTypeOK
<1>3. StillPaid' \in SUBSET Bills
  BY <1>2 DEF StillPaid, PaidIn, PlacedIn
<1>4. IsFiniteSet(StillPaid')
  BY <1>3, ReportsAssumption, FS_Subset
<1> QED BY <1>1, <1>4, FS_Subset, FS_CardinalityType

\* The tables start empty.
LEMMA InitReports == ReportsInit => ReportsInv
<1> SUFFICES ASSUME ReportsInit PROVE ReportsInv
  OBVIOUS
<1>1. 0 \in 0..LastHour /\ 0 < LastHour /\ 0 \in Totals
  BY ReportsAssumption
<1>2. NoBill \in BillRow
  <2>1. [p \in Models |-> 0] \in [Models -> 0..2]
    OBVIOUS
  <2> QED BY <1>1, <2>1 DEF NoBill, BillRow, Basket
<1>3. NoReport \in ReportRow
  BY <1>1 DEF NoReport, ReportRow
<1>4. ReportsTypeOK
  BY <1>1, <1>2, <1>3 DEF ReportsInit, ReportsTypeOK
<1>5. BillsAreSound /\ OverviewIsSound
  BY <1>1 DEF ReportsInit, BillsAreSound, OverviewIsSound, NoBill, NoReport
<1> QED BY <1>4, <1>5 DEF ReportsInv

\* A step that writes one order, and leaves it paid unless it takes it back.
LEMMA BillStep ==
  ASSUME ReportsInv, NEW b \in Bills, NEW row \in BillRow, bill' = [bill EXCEPT ![b] = row],
         UNCHANGED <<hour, report, deleted>>, row.made, row.at <= hour, \E p \in Models : row.units[p] > 0,
         takenBack' \in SUBSET Bills, takenBack \subseteq takenBack',
         report.at # "half" => takenBack' = takenBack,
         bill[b].made => row.at = bill[b].at,
         report.at = "half" /\ bill[b].made /\ bill[b].pay = "paid" => row.pay = "paid" \/ b \in takenBack'
  PROVE  ReportsInv'
<1>1. ReportsTypeOK'
  BY DEF ReportsInv, ReportsTypeOK
<1>2. \A c \in Bills : bill'[c] = IF c = b THEN row ELSE bill[c]
  BY DEF ReportsInv, ReportsTypeOK
<1>3. BillsAreSound'
  BY <1>2 DEF ReportsInv, BillsAreSound
<1>4. report.paid \in Nat
  BY DEF ReportsInv, ReportsTypeOK, ReportRow
<1>5. OverviewIsSound'
  <2>1. CASE report.at = "half"
    <3>1. \A c \in Bills : bill[c].made =>
            /\ bill'[c].made /\ bill'[c].at = bill[c].at
            /\ bill[c].pay = "paid" => bill'[c].pay = "paid" \/ c \in takenBack'
      BY <1>2, <2>1
    <3>2. /\ Cardinality(StillPaid) \in Nat /\ Cardinality(StillPaid') \in Nat
          /\ Cardinality(StillPaid) <= Cardinality(StillPaid')
      BY <1>1, <3>1, PaidGrows
    <3>3. report.paid <= Cardinality(StillPaid) /\ report.paid <= report.orders
      BY <2>1 DEF ReportsInv, OverviewIsSound
    <3>4. report.paid <= Cardinality(StillPaid')
      BY <1>4, <3>2, <3>3
    <3>5. Cardinality(StillPaid)' = Cardinality(StillPaid')
      OBVIOUS
    <3> QED BY <2>1, <3>3, <3>4, <3>5 DEF OverviewIsSound
  <2>2. CASE report.at # "half"
    BY <2>2 DEF ReportsInv, OverviewIsSound
  <2> QED BY <2>1, <2>2
<1> QED BY <1>1, <1>3, <1>5 DEF ReportsInv

\* The first statement counts the orders of the range as they are.
LEMMA BeginCounts ==
  ASSUME ReportsInv, NEW range \in Ranges, BeginOverview(range[1], range[2])
  PROVE  ReportsInv'
<1> DEFINE since == range[1]
           until == range[2]
<1>1. since \in 0..LastHour /\ until \in 0..LastHour
  BY ReportsAssumption
<1>2. PaidIn(since, until) \in SUBSET Bills /\ PlacedIn(since, until) \in SUBSET Bills
      /\ PaidIn(since, until) \subseteq PlacedIn(since, until)
  BY DEF PaidIn, PlacedIn
<1>3. /\ Cardinality(PlacedIn(since, until)) \in Nat /\ Cardinality(PaidIn(since, until)) \in Nat
      /\ Revenue(PaidIn(since, until)) \in Nat
      /\ Cardinality(PaidIn(since, until)) <= Cardinality(PlacedIn(since, until))
  BY <1>2, SumsAreNat, FS_Subset DEF ReportsInv
<1>4. PICK n \in Nat, m \in Nat, r \in Nat :
        /\ n = Cardinality(PlacedIn(since, until)) /\ m = Cardinality(PaidIn(since, until)) /\ m <= n
        /\ r = Revenue(PaidIn(since, until))
  BY <1>3
<1>5. /\ report' = [at |-> "half", since |-> since, until |-> until, units |-> 0,
                    orders |-> n, paid |-> m, revenue |-> r]
      /\ takenBack' = {} /\ UNCHANGED <<bill, hour, deleted>>
  BY <1>4 DEF BeginOverview
<1>6. PaidIn(since, until)' = PaidIn(since, until)
  BY <1>5 DEF PaidIn, PlacedIn, InRange, Paid
<1> HIDE DEF since, until
<1>7. ReportsTypeOK'
  BY <1>1, <1>5 DEF ReportsInv, ReportsTypeOK, ReportRow
<1>8. BillsAreSound'
  BY <1>5 DEF ReportsInv, BillsAreSound
<1>9. OverviewIsSound'
  <2>1. report'.at = "half" /\ report'.since = since /\ report'.until = until /\ report'.paid = m /\ report'.orders = n
    BY <1>5
  <2>2. PaidIn(report.since, report.until)' = PaidIn(since, until)
    BY <1>5, <1>6, <2>1
  <2>3. Cardinality(StillPaid)' = m
    BY <1>4, <1>5, <2>2 DEF StillPaid
  <2> QED BY <1>4, <2>1, <2>3 DEF OverviewIsSound
<1> QED BY <1>7, <1>8, <1>9 DEF ReportsInv

\* The second statement finds a unit for every order the first counted as paid.
LEMMA FinishHasUnits ==
  ASSUME ReportsInv, FinishOverview
  PROVE  ReportsInv'
<1> DEFINE T == PaidIn(report.since, report.until)
<1>1. T \in SUBSET Bills /\ \A b \in T : bill[b].made
  BY DEF PaidIn, PlacedIn, InRange
<1>2. Cardinality(T) \in Nat /\ Units(T) \in Nat /\ Cardinality(T) <= Units(T) /\ IsFiniteSet(T)
  BY <1>1, SumsAreNat, AUnitEach DEF ReportsInv
<1>3. /\ report' = [report EXCEPT !.at = "done", !.units = Units(T)]
      /\ UNCHANGED <<bill, hour, deleted, takenBack>>
      /\ report.at = "half" /\ report \in ReportRow
  BY DEF FinishOverview, ReportsInv, ReportsTypeOK
<1>4. report.paid <= Cardinality(T \cup takenBack) /\ report.paid <= report.orders
  BY <1>3 DEF ReportsInv, OverviewIsSound, StillPaid
<1>4a. IsFiniteSet(takenBack) /\ Cardinality(takenBack) \in Nat
  BY StillPaidType DEF ReportsInv
<1> HIDE DEF T
<1>5. ReportsTypeOK'
  BY <1>2, <1>3 DEF ReportsInv, ReportsTypeOK, ReportRow
<1>6. BillsAreSound'
  BY <1>3 DEF ReportsInv, BillsAreSound
<1>7. report'.at = "done" /\ report'.paid = report.paid /\ report'.orders = report.orders /\ report'.units = Units(T)
  BY <1>3 DEF ReportRow
<1>8. report.paid \in Nat
  BY <1>3 DEF ReportRow
<1>9. report.paid <= Units(T) + Cardinality(takenBack)
  <2>1. Cardinality(T \cup takenBack) = Cardinality(T) + Cardinality(takenBack) - Cardinality(T \cap takenBack)
    BY <1>2, <1>4a, FS_Union
  <2>2. Cardinality(T \cap takenBack) \in Nat
    BY <1>2, FS_Intersection, FS_CardinalityType
  <2> QED BY <1>2, <1>4, <1>4a, <1>8, <2>1, <2>2
<1>10. OverviewIsSound'
  BY <1>3, <1>4, <1>7, <1>9 DEF OverviewIsSound
<1> QED BY <1>5, <1>6, <1>10 DEF ReportsInv

\* A step that leaves the orders and the overview alone.
LEMMA OrdersUntouched ==
  ASSUME ReportsInv, UNCHANGED <<bill, hour, report, takenBack>>, deleted' \subseteq Buyers
  PROVE  ReportsInv'
<1>1. StillPaid' = StillPaid
  BY DEF StillPaid, PaidIn, PlacedIn, InRange, Paid
<1>2. ReportsTypeOK' /\ BillsAreSound'
  BY DEF ReportsInv, ReportsTypeOK, BillsAreSound
<1>3. OverviewIsSound'
  BY <1>1 DEF ReportsInv, OverviewIsSound
<1> QED BY <1>2, <1>3 DEF ReportsInv

\* Every step keeps the invariant.
LEMMA StepReports ==
  ASSUME ReportsInv, [ReportsNext]_reportVars
  PROVE  ReportsInv'
<1>0. bill \in [Bills -> BillRow] /\ hour \in 0..LastHour /\ hour < LastHour /\ LastHour \in Nat
  BY ReportsAssumption DEF ReportsInv, ReportsTypeOK, BillsAreSound
<1>1. ASSUME NEW range \in Ranges, BeginOverview(range[1], range[2]) PROVE ReportsInv'
  BY <1>1, BeginCounts
<1>2. CASE FinishOverview
  BY <1>2, FinishHasUnits
<1>3. ASSUME NEW b \in Bills, NEW buyer \in Buyers \cup {Guest}, NEW items \in Basket, NEW total \in Totals \ {0},
             PlaceBill(b, buyer, items, total)
      PROVE  ReportsInv'
  <2> DEFINE row == [made |-> TRUE, buyer |-> buyer, at |-> hour, total |-> total, units |-> items, pay |-> "pending"]
  <2>1. row \in BillRow
    BY <1>0 DEF BillRow
  <2>2. /\ bill' = [bill EXCEPT ![b] = row] /\ UNCHANGED <<hour, report, deleted, takenBack>> /\ ~bill[b].made
        /\ \E p \in Models : items[p] > 0
    BY <1>3 DEF PlaceBill
  <2>3. row.made /\ row.at <= hour /\ (\E p \in Models : row.units[p] > 0) /\ takenBack' \in SUBSET Bills
    BY <1>0, <2>2 DEF ReportsInv, ReportsTypeOK
  <2> HIDE DEF row
  <2> QED BY <2>1, <2>2, <2>3, BillStep
<1>4. ASSUME NEW b \in Bills, PayBill(b) \/ FailBill(b) PROVE ReportsInv'
  <2>1. PICK pay \in {"paid", "failed"} :
          /\ bill' = [bill EXCEPT ![b].pay = pay] /\ UNCHANGED <<hour, report, deleted>> /\ bill[b].made
          /\ takenBack' \in {takenBack, takenBack \cup {b}}
          /\ report.at # "half" => takenBack' = takenBack
          /\ report.at = "half" /\ bill[b].pay = "paid" => pay = "paid" \/ b \in takenBack'
    <3>1. CASE PayBill(b)
      BY <3>1 DEF PayBill
    <3>2. CASE FailBill(b)
      BY <3>2 DEF FailBill, Paid
    <3> QED BY <1>4, <3>1, <3>2
  <2> DEFINE row == [bill[b] EXCEPT !.pay = pay]
  <2>2. bill[b] \in BillRow
    BY <1>0
  <2>3. row \in BillRow /\ row.made = bill[b].made /\ row.at = bill[b].at /\ row.units = bill[b].units /\ row.pay = pay
    BY <2>2 DEF BillRow
  <2>4. bill' = [bill EXCEPT ![b] = row]
    BY <1>0, <2>1
  <2>5. row.at <= hour /\ \E p \in Models : row.units[p] > 0
    BY <2>1, <2>3 DEF ReportsInv, BillsAreSound
  <2>6. takenBack' \in SUBSET Bills /\ takenBack \subseteq takenBack'
    BY <2>1 DEF ReportsInv, ReportsTypeOK
  <2> HIDE DEF row
  <2> QED BY <2>1, <2>3, <2>4, <2>5, <2>6, BillStep
<1>5. CASE HourPasses
  <2>1. hour' = hour + 1 /\ hour < LastHour - 1 /\ UNCHANGED <<bill, report, deleted, takenBack>>
    BY <1>5 DEF HourPasses
  <2>2. hour' \in 0..LastHour /\ hour' < LastHour
    BY <1>0, <2>1
  <2>3. ReportsTypeOK'
    BY <2>1, <2>2 DEF ReportsInv, ReportsTypeOK
  <2>4. \A b \in Bills : bill[b].at \in 0..LastHour
    BY BillTypes DEF ReportsInv
  <2>5. BillsAreSound'
    BY <1>0, <2>1, <2>2, <2>4 DEF ReportsInv, BillsAreSound
  <2>6. StillPaid' = StillPaid
    BY <2>1 DEF StillPaid, PaidIn, PlacedIn, InRange, Paid
  <2>7. OverviewIsSound'
    BY <2>1, <2>6 DEF ReportsInv, OverviewIsSound
  <2> QED BY <2>3, <2>5, <2>7 DEF ReportsInv
<1>6. ASSUME NEW u \in Buyers, DeleteBuyer(u) PROVE ReportsInv'
  <2>1. UNCHANGED <<bill, hour, report, takenBack>> /\ deleted' \subseteq Buyers
    BY <1>6 DEF DeleteBuyer, ReportsInv, ReportsTypeOK
  <2> QED BY <2>1, OrdersUntouched
<1>7. CASE UNCHANGED reportVars
  <2>1. UNCHANGED <<bill, hour, report, takenBack>> /\ deleted' \subseteq Buyers
    BY <1>7 DEF reportVars, ReportsInv, ReportsTypeOK
  <2> QED BY <2>1, OrdersUntouched
<1> QED BY <1>1, <1>2, <1>3, <1>4, <1>5, <1>6, <1>7 DEF ReportsNext

\* The inductive invariant of the reports: what an overview has counted as paid
\* is paid still or was taken back since, and every order has a unit.
THEOREM ReportsInvariance == ReportsSpec => []ReportsInv
<1> QED BY InitReports, StepReports, PTL DEF ReportsSpec

\* The overview's two statements hold together, though payments commit between
\* them: it lacks at most those that a late failure took back meanwhile
\* (overview in analytics_repo.py, _mark_failed in payment_service.py).
THEOREM OverviewAlwaysHoldsTogether == ReportsSpec => []OverviewHoldsTogether
<1>1. ReportsInv => OverviewHoldsTogether
  <2> SUFFICES ASSUME ReportsInv PROVE OverviewHoldsTogether
    OBVIOUS
  <2>1. report.paid \in Nat /\ report.orders \in Nat /\ report.units \in Nat
    BY DEF ReportsInv, ReportsTypeOK, ReportRow
  <2> QED BY <2>1 DEF ReportsInv, OverviewIsSound, OverviewHoldsTogether
<1> QED BY <1>1, ReportsInvariance, PTL

-----------------------------------------------------------------------------
(* The calendar *)

\* The day of an hour has started by then, and days come in order.
LEMMA DayStarts ==
  ASSUME NEW s \in Nat, NEW t \in Nat, s <= t
  PROVE  /\ Day(s) \in Nat /\ Day(t) \in Nat /\ Day(s) <= Day(t)
         /\ Day(t) * HoursADay <= t
<1> DEFINE h == HoursADay
<1>1. h \in Nat \ {0}
  BY ReportsAssumption
<1> HIDE DEF h
<1>2. /\ s \div h \in Int /\ s = h * (s \div h) + (s % h) /\ s % h \in 0..(h - 1)
      /\ t \div h \in Int /\ t = h * (t \div h) + (t % h) /\ t % h \in 0..(h - 1)
  BY <1>1
<1>3. PICK a \in Int, b \in Int, p \in 0..(h - 1), q \in 0..(h - 1) :
        /\ a = s \div h /\ s = h * a + p
        /\ b = t \div h /\ t = h * b + q
  BY <1>2
<1>4. ASSUME NEW x \in Int, NEW y \in Int, x < y PROVE h * x + h <= h * y
  <2>1. PICK n \in Nat : y = x + 1 + n
    <3>1. y - x - 1 \in Nat
      BY <1>4
    <3> QED BY <3>1
  <2>2. h * y = h * x + h + h * n
    BY <1>1, <2>1
  <2>3. h * n \in Nat /\ h * x \in Int
    BY <1>1
  <2> QED BY <1>1, <2>2, <2>3
<1>5. h * a \in Int /\ h * b \in Int /\ h * 0 = 0 /\ b * h = h * b
  BY <1>1, <1>3
<1>6. ~(a < 0) /\ ~(b < 0)
  <2>1. a < 0 => h * a + h <= 0
    BY <1>4, <1>5
  <2>2. b < 0 => h * b + h <= 0
    BY <1>4, <1>5
  <2> QED BY <1>1, <1>3, <1>5, <2>1, <2>2
<1>7. ~(b < a)
  <2>1. b < a => h * b + h <= h * a
    BY <1>4
  <2> QED BY <1>1, <1>3, <1>5, <2>1
<1>8. b * h <= t
  BY <1>1, <1>3, <1>5
<1>9. Day(s) = a /\ Day(t) = b
  BY <1>3 DEF Day, h
<1> QED BY <1>3, <1>6, <1>7, <1>8, <1>9 DEF h

\* A bucket is the last to start by its day.
LEMMA BucketStarts ==
  ASSUME NEW g \in DOMAIN Calendar, NEW day \in Nat
  PROVE  /\ BucketOf(day, g) \in Calendar[g] /\ BucketOf(day, g) \in Int /\ BucketOf(day, g) <= day
         /\ \A d \in Calendar[g] : d <= day => d <= BucketOf(day, g)
<1> DEFINE starts == {d \in Calendar[g] : d <= day}
           waits == {day - d : d \in starts}
<1>1. Calendar[g] \subseteq Int /\ \E d \in Calendar[g] : d <= 0
  BY ReportsAssumption
<1>2. waits \in SUBSET Nat /\ waits # {}
  <2>1. PICK d \in Calendar[g] : d <= 0
    BY <1>1
  <2>2. d \in starts
    BY <1>1, <2>1
  <2>3. \A e \in starts : day - e \in Nat
    BY <1>1
  <2> QED BY <2>2, <2>3
<1>3. PICK w \in waits : \A v \in waits : w <= v
  BY <1>2, LeastNat
<1>4. PICK last \in starts : w = day - last
  BY <1>3
<1>5. ASSUME NEW d \in starts PROVE last >= d
  <2>1. day - last <= day - d /\ d \in Int /\ last \in Int
    BY <1>1, <1>3, <1>4
  <2> QED BY <2>1
<1>6. BucketOf(day, g) \in starts /\ \A d \in starts : BucketOf(day, g) >= d
  BY <1>5 DEF BucketOf, Max
<1> QED BY <1>1, <1>6

\* The bucket of each order.
BucketsOf(g) == [b \in Bills |-> BucketOf(Day(bill[b].at), g)]

\* The chart has a finite number of buckets, and that of every order in the range.
LEMMA ChartHasBuckets ==
  ASSUME ReportsTypeOK, NEW since \in 0..LastHour, NEW until \in 0..LastHour, since < until,
         NEW g \in DOMAIN Calendar
  PROVE  /\ IsFiniteSet(BucketRange(since, until, g))
         /\ \A b \in PlacedIn(since, until) : BucketsOf(g)[b] \in BucketRange(since, until, g)
<1>1. /\ since \in Nat /\ until \in Nat /\ HoursADay \in Nat \ {0} /\ Calendar[g] \subseteq Int
      /\ LastHour \in Nat
  BY ReportsAssumption
<1> DEFINE first == BucketOf(Day(since), g)
<1>2. first \in Int /\ first <= Day(since) /\ Day(since) \in Nat
  BY <1>1, DayStarts, BucketStarts
<1>3. IsFiniteSet(BucketRange(since, until, g))
  <2>1. ASSUME NEW d \in BucketRange(since, until, g) PROVE d \in first..until
    <3>1. d \in Int /\ first <= d /\ d * HoursADay < until
      BY <1>1 DEF BucketRange
    <3>2. CASE d < 0
      BY <1>1, <1>2, <3>1, <3>2
    <3>3. CASE d >= 0
      <4>1. PICK m \in Nat : HoursADay = m + 1
        <5>1. HoursADay - 1 \in Nat
          BY <1>1
        <5> QED BY <1>1, <5>1
      <4>2. d * HoursADay = d * m + d /\ d * m \in Nat
        BY <3>1, <3>3, <4>1
      <4> QED BY <1>1, <1>2, <3>1, <4>2
    <3> QED BY <3>1, <3>2, <3>3
  <2>2. IsFiniteSet(first..until)
    BY <1>1, <1>2, FS_Interval
  <2>3. BucketRange(since, until, g) \in SUBSET (first..until)
    BY <2>1
  <2> QED BY <2>2, <2>3, FS_Subset
<1>4. ASSUME NEW b \in PlacedIn(since, until) PROVE BucketsOf(g)[b] \in BucketRange(since, until, g)
  <2>1. b \in Bills /\ bill[b].at \in Nat /\ since <= bill[b].at /\ bill[b].at < until
    BY <1>1, BillTypes DEF PlacedIn, InRange
  <2>2. PICK t \in Nat : t = bill[b].at /\ since <= t /\ t < until
    BY <2>1
  <2>3. Day(since) \in Nat /\ Day(t) \in Nat /\ Day(since) <= Day(t) /\ Day(t) * HoursADay <= t
    BY <1>1, <2>2, DayStarts
  <2> DEFINE d == BucketOf(Day(t), g)
  <2>4. d \in Calendar[g] /\ d \in Int /\ d <= Day(t) /\ \A e \in Calendar[g] : e <= Day(t) => e <= d
    BY <2>3, BucketStarts
  <2>5. first \in Calendar[g]
    BY <1>2, BucketStarts
  <2>6. first <= d
    BY <1>2, <2>3, <2>4, <2>5
  <2>7. d * HoursADay <= Day(t) * HoursADay
    <3>1. PICK n \in Nat : Day(t) = d + n
      <4>1. Day(t) - d \in Nat
        BY <2>3, <2>4
      <4> QED BY <2>3, <2>4, <4>1
    <3>2. Day(t) * HoursADay = d * HoursADay + n * HoursADay /\ n * HoursADay \in Nat /\ d * HoursADay \in Int
      BY <1>1, <2>4, <3>1
    <3> QED BY <3>2
  <2>8. d * HoursADay < until
    <3>1. d * HoursADay \in Int /\ Day(t) * HoursADay \in Int
      BY <1>1, <2>3, <2>4
    <3> QED BY <1>1, <2>2, <2>3, <2>7, <3>1
  <2>9. BucketsOf(g)[b] = d
    BY <2>1, <2>2 DEF BucketsOf
  <2> QED BY <2>4, <2>6, <2>8, <2>9 DEF BucketRange
<1> QED BY <1>3, <1>4

-----------------------------------------------------------------------------
(* The chart and the best sellers *)

\* A column of the chart is the sum of its points.
LEMMA ChartTotalIsSum ==
  ASSUME NEW trend, NEW column
  PROVE  ChartTotal(trend, column) = SumOf([d \in DOMAIN trend |-> trend[d][column]], DOMAIN trend)
<1> DEFINE T == DOMAIN trend
           f == [d \in T |-> trend[d][column]]
           own(h) == h = [t \in SUBSET T |->
             IF t = {} THEN 0 ELSE LET x == CHOOSE y \in t : TRUE IN trend[x][column] + h[t \ {x}]]
           sum(h) == h = [t \in SUBSET T |->
             IF t = {} THEN 0 ELSE LET x == CHOOSE y \in t : TRUE IN f[x] + h[t \ {x}]]
<1>1. \A x \in T : f[x] = trend[x][column]
  OBVIOUS
<1>2. ChartTotal(trend, column) = (CHOOSE h : own(h))[T]
  BY DEF ChartTotal, MapThenSumSet, MapThenFoldSet
<1> HIDE DEF f, T
<1>3. \A h : own(h) <=> sum(h)
  BY <1>1
<1>4. (CHOOSE h : own(h)) = (CHOOSE h : sum(h))
  <2> HIDE DEF own, sum
  <2> QED BY <1>3
<1>5. SumOf(f, T) = (CHOOSE h : sum(h))[T]
  BY DEF SumOf, MapThenSumSet, MapThenFoldSet
<1>6. ChartTotal(trend, column) = SumOf(f, T)
  BY <1>2, <1>4, <1>5
<1> QED BY <1>6 DEF f, T

\* The chart adds up whatever its points add up, order by order.
LEMMA ChartAddsUp ==
  ASSUME ReportsTypeOK, NEW since \in 0..LastHour, NEW until \in 0..LastHour, since < until,
         NEW g \in DOMAIN Calendar, NEW column, NEW f, \A b \in Bills : f[b] \in Int,
         NEW T \in SUBSET PlacedIn(since, until),
         \A d \in BucketRange(since, until, g) :
           Trend(since, until, g)[d][column] = SumOf(f, {b \in T : BucketsOf(g)[b] = d})
  PROVE  ChartTotal(Trend(since, until, g), column) = SumOf(f, T)
<1> DEFINE K == BucketRange(since, until, g)
           trend == Trend(since, until, g)
           c == [d \in DOMAIN trend |-> trend[d][column]]
           class == BucketsOf(g)
<1>1. DOMAIN trend = K
  BY DEF Trend
<1>2. IsFiniteSet(K) /\ \A b \in T : class[b] \in K
  BY ChartHasBuckets
<1>3. IsFiniteSet(T) /\ \A b \in T : f[b] \in Int
  <2>1. T \in SUBSET Bills
    BY DEF PlacedIn
  <2> QED BY <2>1, SumsAreNat
<1>4. \A d \in K : c[d] = SumOf(f, {b \in T : class[b] = d})
  BY <1>1
<1>5. ChartTotal(trend, column) = SumOf(c, K)
  BY <1>1, ChartTotalIsSum
<1> HIDE DEF K, trend, c, class
<1>6. Classes(T, K, f, class, c)
  BY <1>2, <1>3, <1>4 DEF Classes
<1>7. SumOf(f, T) = SumOf(c, K)
  BY <1>2, <1>3, <1>6, SumByClass
<1> QED BY <1>5, <1>7 DEF trend

\* The orders of a point of the chart.
LEMMA BucketHas ==
  ASSUME ReportsTypeOK, NEW since, NEW until, NEW g, NEW d \in BucketRange(since, until, g)
  PROVE  LET here == {b \in PlacedIn(since, until) : BucketsOf(g)[b] = d}
             paid == {b \in PaidIn(since, until) : BucketsOf(g)[b] = d}
         IN  Trend(since, until, g)[d] =
               [revenue |-> Revenue(paid), orders |-> Cardinality(here), units |-> Units(paid)]
<1> DEFINE here == {b \in PlacedIn(since, until) : BucketOf(Day(bill[b].at), g) = d}
           paid == {b \in here : Paid(b)}
<1>1. Trend(since, until, g)[d] = [revenue |-> Revenue(paid), orders |-> Cardinality(here), units |-> Units(paid)]
  BY DEF Trend, TrendBucket
<1>2. here = {b \in PlacedIn(since, until) : BucketsOf(g)[b] = d}
  BY DEF BucketsOf, PlacedIn
<1>3. paid = {b \in PaidIn(since, until) : BucketsOf(g)[b] = d}
  BY DEF BucketsOf, PlacedIn, PaidIn
<1> HIDE DEF here, paid
<1> QED BY <1>1, <1>2, <1>3

\* The three columns of the chart are the figures of the overview.
LEMMA ChartReconciles ==
  ASSUME ReportsTypeOK, NEW since \in 0..LastHour, NEW until \in 0..LastHour, since < until,
         NEW g \in DOMAIN Calendar
  PROVE  /\ ChartTotal(Trend(since, until, g), "revenue") = Revenue(PaidIn(since, until))
         /\ ChartTotal(Trend(since, until, g), "orders") = Cardinality(PlacedIn(since, until))
         /\ ChartTotal(Trend(since, until, g), "units") = Units(PaidIn(since, until))
<1> DEFINE here(d) == {b \in PlacedIn(since, until) : BucketsOf(g)[b] = d}
           paid(d) == {b \in PaidIn(since, until) : BucketsOf(g)[b] = d}
           K == BucketRange(since, until, g)
           trend == Trend(since, until, g)
<1>1. /\ PlacedIn(since, until) \in SUBSET Bills /\ PaidIn(since, until) \in SUBSET PlacedIn(since, until)
      /\ PaidIn(since, until) \in SUBSET Bills /\ PlacedIn(since, until) \in SUBSET PlacedIn(since, until)
  BY DEF PlacedIn, PaidIn
<1>2. \A d \in K : here(d) \in SUBSET Bills /\ paid(d) \in SUBSET Bills
  BY <1>1
<1>3. \A d \in K : trend[d] = [revenue |-> Revenue(paid(d)), orders |-> Cardinality(here(d)), units |-> Units(paid(d))]
  BY BucketHas
<1>4. \A d \in K : /\ trend[d]["revenue"] = Revenue(paid(d))
                   /\ trend[d]["orders"] = Cardinality(here(d))
                   /\ trend[d]["units"] = Units(paid(d))
  <2> TAKE d \in K
  <2>1. PICK r, n, u : /\ r = Revenue(paid(d)) /\ n = Cardinality(here(d)) /\ u = Units(paid(d))
                       /\ trend[d] = [revenue |-> r, orders |-> n, units |-> u]
    BY <1>3
  <2> QED BY <2>1
<1>5. \A b \in Bills : TotalsOf[b] \in Int /\ SizesOf[b] \in Int
  BY BillTypes, UnitsOfBill DEF TotalsOf, SizesOf
<1>6. ChartTotal(trend, "revenue") = Revenue(PaidIn(since, until))
  <2>1. \A d \in K : trend[d]["revenue"] = SumOf(TotalsOf, paid(d))
    <3> HIDE DEF K, trend, here, paid
    <3> QED BY <1>2, <1>4, RevenueIsSum
  <2>2. ChartTotal(trend, "revenue") = SumOf(TotalsOf, PaidIn(since, until))
    BY <1>1, <1>5, <2>1, ChartAddsUp
  <2> QED BY <1>1, <2>2, RevenueIsSum
<1>7. ChartTotal(trend, "units") = Units(PaidIn(since, until))
  <2>1. \A d \in K : trend[d]["units"] = SumOf(SizesOf, paid(d))
    <3> HIDE DEF K, trend, here, paid
    <3> QED BY <1>2, <1>4, UnitsIsSum
  <2>2. ChartTotal(trend, "units") = SumOf(SizesOf, PaidIn(since, until))
    BY <1>1, <1>5, <2>1, ChartAddsUp
  <2> QED BY <1>1, <2>2, UnitsIsSum
<1>8. ChartTotal(trend, "orders") = Cardinality(PlacedIn(since, until))
  <2> DEFINE one == [b \in Bills |-> 1]
  <2>1. ASSUME NEW T \in SUBSET Bills PROVE SumOf(one, T) = Cardinality(T)
    <3>1. IsFiniteSet(T) /\ \A b \in T : one[b] = 1
      BY SumsAreNat
    <3> HIDE DEF one
    <3> QED BY <3>1, SumOfOnes
  <2>2. \A d \in K : trend[d]["orders"] = SumOf(one, here(d))
    <3> HIDE DEF K, trend, here, paid, one
    <3> QED BY <1>2, <1>4, <2>1
  <2>3. \A b \in Bills : one[b] \in Int
    OBVIOUS
  <2> HIDE DEF one
  <2>4. ChartTotal(trend, "orders") = SumOf(one, PlacedIn(since, until))
    <3>1. \A d \in BucketRange(since, until, g) :
            Trend(since, until, g)[d]["orders"] = SumOf(one, {b \in PlacedIn(since, until) : BucketsOf(g)[b] = d})
      BY <2>2
    <3>2. PlacedIn(since, until) \in SUBSET PlacedIn(since, until)
      OBVIOUS
    <3> HIDE DEF K, here, paid
    <3>3. ChartTotal(Trend(since, until, g), "orders") = SumOf(one, PlacedIn(since, until))
      BY <2>3, <3>1, <3>2, ChartAddsUp
    <3> QED BY <3>3
  <2> QED BY <1>1, <2>1, <2>4
<1> QED BY <1>6, <1>7, <1>8

\* How many of a product each order has.
LinesOf(p) == [b \in Bills |-> bill[b].units[p]]

\* A line of the best sellers is a sum over the paid orders.
LEMMA UnitsSoldIsSum ==
  ASSUME NEW p, NEW since, NEW until
  PROVE  UnitsSold(p, since, until) = SumOf(LinesOf(p), PaidIn(since, until))
<1> DEFINE T == PaidIn(since, until)
           f == LinesOf(p)
           own(h) == h = [t \in SUBSET T |->
             IF t = {} THEN 0 ELSE LET x == CHOOSE y \in t : TRUE IN bill[x].units[p] + h[t \ {x}]]
           sum(h) == h = [t \in SUBSET T |->
             IF t = {} THEN 0 ELSE LET x == CHOOSE y \in t : TRUE IN f[x] + h[t \ {x}]]
<1>1. \A x \in T : f[x] = bill[x].units[p]
  BY DEF LinesOf, PaidIn, PlacedIn
<1>2. UnitsSold(p, since, until) = (CHOOSE h : own(h))[T]
  BY DEF UnitsSold, MapThenSumSet, MapThenFoldSet
<1> HIDE DEF f, T
<1>3. \A h : own(h) <=> sum(h)
  BY <1>1
<1>4. (CHOOSE h : own(h)) = (CHOOSE h : sum(h))
  <2> HIDE DEF own, sum
  <2> QED BY <1>3
<1>5. SumOf(f, T) = (CHOOSE h : sum(h))[T]
  BY DEF SumOf, MapThenSumSet, MapThenFoldSet
<1>6. UnitsSold(p, since, until) = SumOf(f, T)
  BY <1>2, <1>4, <1>5
<1> QED BY <1>6 DEF f, T

\* The lines of some products.
LEMMA SoldTotalIsSum ==
  ASSUME NEW ps, NEW since, NEW until
  PROVE  SoldTotal(ps, since, until) = SumOf([p \in ps |-> UnitsSold(p, since, until)], ps)
<1> DEFINE f == [p \in ps |-> UnitsSold(p, since, until)]
           own(h) == h = [t \in SUBSET ps |->
             IF t = {} THEN 0 ELSE LET x == CHOOSE y \in t : TRUE IN UnitsSold(x, since, until) + h[t \ {x}]]
           sum(h) == h = [t \in SUBSET ps |->
             IF t = {} THEN 0 ELSE LET x == CHOOSE y \in t : TRUE IN f[x] + h[t \ {x}]]
<1>1. \A x \in ps : f[x] = UnitsSold(x, since, until)
  OBVIOUS
<1>2. SoldTotal(ps, since, until) = (CHOOSE h : own(h))[ps]
  BY DEF SoldTotal, MapThenSumSet, MapThenFoldSet
<1> HIDE DEF f
<1>3. \A h : own(h) <=> sum(h)
  BY <1>1
<1>4. (CHOOSE h : own(h)) = (CHOOSE h : sum(h))
  <2> HIDE DEF own, sum
  <2> QED BY <1>3
<1>5. SumOf(f, ps) = (CHOOSE h : sum(h))[ps]
  BY DEF SumOf, MapThenSumSet, MapThenFoldSet
<1>6. SoldTotal(ps, since, until) = SumOf(f, ps)
  BY <1>2, <1>4, <1>5
<1> QED BY <1>6 DEF f

\* What an order has of the products of a category is the sum over them.
LEMMA UnitsFiledIsSum ==
  ASSUME ReportsTypeOK, NEW b \in Bills, NEW c
  PROVE  UnitsFiled(b, c) = SumOf(bill[b].units, {p \in Models : c \in Filed[p]})
<1> DEFINE f == [p \in Models |-> IF c \in Filed[p] THEN bill[b].units[p] ELSE 0]
           own(h) == h = [t \in SUBSET Models |->
             IF t = {} THEN 0 ELSE LET x == CHOOSE y \in t : TRUE IN
                                     (IF c \in Filed[x] THEN bill[b].units[x] ELSE 0) + h[t \ {x}]]
           sum(h) == h = [t \in SUBSET Models |->
             IF t = {} THEN 0 ELSE LET x == CHOOSE y \in t : TRUE IN f[x] + h[t \ {x}]]
<1>1. \A x \in Models : f[x] = IF c \in Filed[x] THEN bill[b].units[x] ELSE 0
  OBVIOUS
<1>2. UnitsFiled(b, c) = (CHOOSE h : own(h))[Models]
  BY DEF UnitsFiled, MapThenSumSet, MapThenFoldSet
<1> HIDE DEF f
<1>3. \A h : own(h) <=> sum(h)
  BY <1>1
<1>4. (CHOOSE h : own(h)) = (CHOOSE h : sum(h))
  <2> HIDE DEF own, sum
  <2> QED BY <1>3
<1>5. SumOf(f, Models) = (CHOOSE h : sum(h))[Models]
  BY DEF SumOf, MapThenSumSet, MapThenFoldSet
<1>6. UnitsFiled(b, c) = SumOf(f, Models)
  BY <1>2, <1>4, <1>5
<1>7. SumOf(f, Models) = SumOf(bill[b].units, {p \in Models : c \in Filed[p]})
  <2> DEFINE T == {p \in Models : c \in Filed[p]}
             e == bill[b].units
  <2>1. IsFiniteSet(Models) /\ T \in SUBSET Models
    BY ReportsAssumption
  <2>2. \A x \in T : e[x] \in Int /\ f[x] = e[x]
    BY <1>1, BillTypes
  <2>3. \A x \in Models \ T : f[x] = 0
    BY <1>1
  <2> HIDE DEF T, e
  <2>4. SumOf(f, Models) = SumOf(e, T)
    BY <2>1, <2>2, <2>3, SumFilter
  <2> QED BY <2>4 DEF T, e
<1> QED BY <1>6, <1>7

\* A line of the categories is a sum over the paid orders.
LEMMA InCategoryIsSum ==
  ASSUME NEW c, NEW since, NEW until
  PROVE  UnitsInCategory(c, since, until) = SumOf([b \in PaidIn(since, until) |-> UnitsFiled(b, c)], PaidIn(since, until))
<1> DEFINE T == PaidIn(since, until)
           f == [b \in T |-> UnitsFiled(b, c)]
           own(h) == h = [t \in SUBSET T |->
             IF t = {} THEN 0 ELSE LET x == CHOOSE y \in t : TRUE IN UnitsFiled(x, c) + h[t \ {x}]]
           sum(h) == h = [t \in SUBSET T |->
             IF t = {} THEN 0 ELSE LET x == CHOOSE y \in t : TRUE IN f[x] + h[t \ {x}]]
<1>1. \A x \in T : f[x] = UnitsFiled(x, c)
  OBVIOUS
<1>2. UnitsInCategory(c, since, until) = (CHOOSE h : own(h))[T]
  BY DEF UnitsInCategory, MapThenSumSet, MapThenFoldSet
<1> HIDE DEF f, T
<1>3. \A h : own(h) <=> sum(h)
  BY <1>1
<1>4. (CHOOSE h : own(h)) = (CHOOSE h : sum(h))
  <2> HIDE DEF own, sum
  <2> QED BY <1>3
<1>5. SumOf(f, T) = (CHOOSE h : sum(h))[T]
  BY DEF SumOf, MapThenSumSet, MapThenFoldSet
<1>6. UnitsInCategory(c, since, until) = SumOf(f, T)
  BY <1>2, <1>4, <1>5
<1> QED BY <1>6 DEF f, T

\* Product by product or order by order: the lines of some products add up to
\* what the paid orders have of them.
LEMMA LinesAddUp ==
  ASSUME ReportsTypeOK, NEW ps \in SUBSET Models, NEW since, NEW until, NEW row,
         \A b \in PaidIn(since, until) : row[b] = SumOf(bill[b].units, ps)
  PROVE  SoldTotal(ps, since, until) = SumOf(row, PaidIn(since, until))
<1> DEFINE S == PaidIn(since, until)
           g == [b \in Bills |-> bill[b].units]
           turned == [p \in Models |-> LinesOf(p)]
           column == [p \in ps |-> UnitsSold(p, since, until)]
<1>1. S \in SUBSET Bills
  BY DEF PaidIn, PlacedIn
<1>2. IsFiniteSet(S) /\ IsFiniteSet(ps)
  BY <1>1, SumsAreNat, ReportsAssumption, FS_Subset
<1>3. \A b \in S, p \in ps : g[b][p] \in Int /\ turned[p][b] = g[b][p]
  <2> TAKE b \in S, p \in ps
  <2>1. g[b] = bill[b].units /\ bill[b].units[p] \in Nat
    BY <1>1, BillTypes
  <2>2. turned[p][b] = bill[b].units[p]
    BY <1>1 DEF LinesOf
  <2> QED BY <2>1, <2>2
<1>4. \A b \in S : row[b] = SumOf(g[b], ps)
  BY <1>1
<1>5. \A p \in ps : column[p] = SumOf(turned[p], S)
  <2> TAKE p \in ps
  <2>1. column[p] = UnitsSold(p, since, until) /\ turned[p] = LinesOf(p)
    OBVIOUS
  <2> HIDE DEF column, turned
  <2> QED BY <2>1, UnitsSoldIsSum
<1>6. SoldTotal(ps, since, until) = SumOf(column, ps)
  BY SoldTotalIsSum
<1> HIDE DEF S, g, turned, column
<1>7. Table(S, ps, g, row, turned, column)
  BY <1>3, <1>4, <1>5 DEF Table
<1>8. SumOf(row, S) = SumOf(column, ps)
  BY <1>2, <1>7, SumSwap
<1> QED BY <1>6, <1>8 DEF S

\* The best sellers and the categories add up to the units of the overview.
LEMMA SellersReconcile ==
  ASSUME ReportsTypeOK, NEW since, NEW until
  PROVE  /\ SoldTotal(Models, since, until) = Units(PaidIn(since, until))
         /\ \A c \in Sections : SoldTotal({p \in Models : c \in Filed[p]}, since, until) = UnitsInCategory(c, since, until)
<1>1. PaidIn(since, until) \in SUBSET Bills
  BY DEF PaidIn, PlacedIn
<1>2. SoldTotal(Models, since, until) = Units(PaidIn(since, until))
  <2>1. \A b \in PaidIn(since, until) : SizesOf[b] = SumOf(bill[b].units, Models)
    BY <1>1, UnitsOfBill DEF SizesOf
  <2>2. Models \in SUBSET Models
    OBVIOUS
  <2>3. SoldTotal(Models, since, until) = SumOf(SizesOf, PaidIn(since, until))
    BY <2>1, <2>2, LinesAddUp
  <2> QED BY <1>1, <2>3, UnitsIsSum
<1>3. ASSUME NEW c \in Sections
      PROVE  SoldTotal({p \in Models : c \in Filed[p]}, since, until) = UnitsInCategory(c, since, until)
  <2> DEFINE ps == {p \in Models : c \in Filed[p]}
             row == [b \in PaidIn(since, until) |-> UnitsFiled(b, c)]
  <2>1. \A b \in PaidIn(since, until) : row[b] = SumOf(bill[b].units, ps)
    BY <1>1, UnitsFiledIsSum
  <2>2. ps \in SUBSET Models
    OBVIOUS
  <2>3. UnitsInCategory(c, since, until) = SumOf(row, PaidIn(since, until))
    BY InCategoryIsSum
  <2> HIDE DEF ps, row
  <2>4. SoldTotal(ps, since, until) = SumOf(row, PaidIn(since, until))
    BY <2>1, <2>2, LinesAddUp
  <2> QED BY <2>3, <2>4 DEF ps
<1> QED BY <1>2, <1>3

\* Two ranges that meet count the orders of the one they make.
LEMMA RangesMeet ==
  ASSUME ReportsTypeOK, NEW since \in 0..LastHour, NEW until \in 0..LastHour, NEW m \in since..until
  PROVE  Cardinality(PlacedIn(since, m)) + Cardinality(PlacedIn(m, until)) = Cardinality(PlacedIn(since, until))
<1> DEFINE A == PlacedIn(since, m)
           B == PlacedIn(m, until)
<1>1. \A b \in Bills : bill[b].at \in Int
  BY BillTypes
<1>2. A \in SUBSET Bills /\ B \in SUBSET Bills
  BY DEF PlacedIn
<1>3. A \cap B = {}
  BY <1>1 DEF PlacedIn, InRange
<1>4. A \cup B = PlacedIn(since, until)
  BY <1>1 DEF PlacedIn, InRange
<1>5. IsFiniteSet(A) /\ IsFiniteSet(B) /\ Cardinality(A) \in Nat /\ Cardinality(B) \in Nat
  BY <1>2, SumsAreNat
<1> HIDE DEF A, B
<1>6. Cardinality(A \cup B) = Cardinality(A) + Cardinality(B) - Cardinality(A \cap B)
  BY <1>5, FS_Union
<1>7. Cardinality(A \cap B) = 0
  BY <1>3, FS_EmptySet
<1>8. Cardinality(A) + Cardinality(B) = Cardinality(A \cup B)
  BY <1>5, <1>6, <1>7
<1> QED BY <1>4, <1>8 DEF A, B

\* For ranges, buckets, products and categories of any number, the tiles, the
\* chart and the best sellers add up to the overview (get_overview,
\* get_revenue_trend, top_products and top_categories).
THEOREM TilesAlwaysReconcile == ReportsSpec => []TilesReconcile
<1>1. ReportsTypeOK => TilesReconcile
  <2> SUFFICES ASSUME ReportsTypeOK PROVE TilesReconcile
    OBVIOUS
  <2>1. ASSUME NEW since \in 0..LastHour, NEW until \in 0..LastHour, since < until
        PROVE  /\ \A g \in DOMAIN Calendar :
                    /\ ChartTotal(Trend(since, until, g), "revenue") = Revenue(PaidIn(since, until))
                    /\ ChartTotal(Trend(since, until, g), "orders") = Cardinality(PlacedIn(since, until))
                    /\ ChartTotal(Trend(since, until, g), "units") = Units(PaidIn(since, until))
               /\ SoldTotal(Models, since, until) = Units(PaidIn(since, until))
               /\ \A c \in Sections :
                    SoldTotal({p \in Models : c \in Filed[p]}, since, until) = UnitsInCategory(c, since, until)
               /\ \A m \in since..until :
                    Cardinality(PlacedIn(since, m)) + Cardinality(PlacedIn(m, until)) = Cardinality(PlacedIn(since, until))
    BY <2>1, ChartReconciles, SellersReconcile, RangesMeet
  <2> QED BY <2>1 DEF TilesReconcile
<1>2. ReportsInv => ReportsTypeOK
  BY DEF ReportsInv
<1> QED BY <1>1, <1>2, ReportsInvariance, PTL

-----------------------------------------------------------------------------
(* The customers *)

\* The paid orders of a customer.
PaidOf(u) == {b \in OrdersOf(u) : Paid(b)}

\* The list's figure of a customer is the one of the customer's page.
LEMMA LifetimeIsRevenue ==
  ASSUME ReportsTypeOK, NEW u
  PROVE  CustomerRow(u).lifetime_value = Revenue(PaidOf(u))
<1> DEFINE T == OrdersOf(u)
           f == [b \in Bills |-> IF Paid(b) THEN bill[b].total ELSE 0]
           own(h) == h = [t \in SUBSET T |->
             IF t = {} THEN 0 ELSE LET x == CHOOSE y \in t : TRUE IN
                                     (IF Paid(x) THEN bill[x].total ELSE 0) + h[t \ {x}]]
           sum(h) == h = [t \in SUBSET T |->
             IF t = {} THEN 0 ELSE LET x == CHOOSE y \in t : TRUE IN f[x] + h[t \ {x}]]
<1>0. T \in SUBSET Bills /\ PaidOf(u) \in SUBSET T /\ PaidOf(u) \in SUBSET Bills
      /\ \A b \in T : b \in PaidOf(u) <=> Paid(b)
  BY DEF OrdersOf, PaidOf
<1>1. \A x \in T : f[x] = IF Paid(x) THEN bill[x].total ELSE 0
  BY <1>0
<1>2. CustomerRow(u).lifetime_value = (CHOOSE h : own(h))[T]
  BY DEF CustomerRow, MapThenSumSet, MapThenFoldSet
<1> HIDE DEF f, T
<1>3. \A h : own(h) <=> sum(h)
  BY <1>1
<1>4. (CHOOSE h : own(h)) = (CHOOSE h : sum(h))
  <2> HIDE DEF own, sum
  <2> QED BY <1>3
<1>5. SumOf(f, T) = (CHOOSE h : sum(h))[T]
  BY DEF SumOf, MapThenSumSet, MapThenFoldSet
<1>6. CustomerRow(u).lifetime_value = SumOf(f, T)
  BY <1>2, <1>4, <1>5
<1>7. IsFiniteSet(T)
  BY <1>0, SumsAreNat
<1>8. \A b \in PaidOf(u) : TotalsOf[b] \in Int /\ f[b] = TotalsOf[b]
  BY <1>0, <1>1, BillTypes DEF TotalsOf
<1>9. \A b \in T \ PaidOf(u) : f[b] = 0
  BY <1>0, <1>1
<1>10. SumOf(f, T) = SumOf(TotalsOf, PaidOf(u))
  BY <1>0, <1>7, <1>8, <1>9, SumFilter
<1> QED BY <1>0, <1>6, <1>10, RevenueIsSum

\* The value of a list is a sum over its customers.
LEMMA ListedIsSum ==
  ASSUME NEW us
  PROVE  ListedValue(us) = SumOf([u \in us |-> CustomerRow(u).lifetime_value], us)
<1> DEFINE f == [u \in us |-> CustomerRow(u).lifetime_value]
           own(h) == h = [t \in SUBSET us |->
             IF t = {} THEN 0 ELSE LET x == CHOOSE y \in t : TRUE IN CustomerRow(x).lifetime_value + h[t \ {x}]]
           sum(h) == h = [t \in SUBSET us |->
             IF t = {} THEN 0 ELSE LET x == CHOOSE y \in t : TRUE IN f[x] + h[t \ {x}]]
<1>1. \A x \in us : f[x] = CustomerRow(x).lifetime_value
  OBVIOUS
<1>2. ListedValue(us) = (CHOOSE h : own(h))[us]
  BY DEF ListedValue, MapThenSumSet, MapThenFoldSet
<1> HIDE DEF f
<1>3. \A h : own(h) <=> sum(h)
  BY <1>1
<1>4. (CHOOSE h : own(h)) = (CHOOSE h : sum(h))
  <2> HIDE DEF own, sum
  <2> QED BY <1>3
<1>5. SumOf(f, us) = (CHOOSE h : sum(h))[us]
  BY DEF SumOf, MapThenSumSet, MapThenFoldSet
<1>6. ListedValue(us) = SumOf(f, us)
  BY <1>2, <1>4, <1>5
<1> QED BY <1>6 DEF f

\* So is what the pages of some customers say they spent.
LEMMA PagesAreSum ==
  ASSUME NEW us
  PROVE  MapThenSumSet(LifetimeValue, us) = SumOf([u \in us |-> LifetimeValue(u)], us)
<1> DEFINE f == [u \in us |-> LifetimeValue(u)]
           own(h) == h = [t \in SUBSET us |->
             IF t = {} THEN 0 ELSE LET x == CHOOSE y \in t : TRUE IN LifetimeValue(x) + h[t \ {x}]]
           sum(h) == h = [t \in SUBSET us |->
             IF t = {} THEN 0 ELSE LET x == CHOOSE y \in t : TRUE IN f[x] + h[t \ {x}]]
<1>1. \A x \in us : f[x] = LifetimeValue(x)
  OBVIOUS
<1>2. MapThenSumSet(LifetimeValue, us) = (CHOOSE h : own(h))[us]
  BY DEF MapThenSumSet, MapThenFoldSet
<1> HIDE DEF f
<1>3. \A h : own(h) <=> sum(h)
  BY <1>1
<1>4. (CHOOSE h : own(h)) = (CHOOSE h : sum(h))
  <2> HIDE DEF own, sum
  <2> QED BY <1>3
<1>5. SumOf(f, us) = (CHOOSE h : sum(h))[us]
  BY DEF SumOf, MapThenSumSet, MapThenFoldSet
<1>6. MapThenSumSet(LifetimeValue, us) = SumOf(f, us)
  BY <1>2, <1>4, <1>5
<1> QED BY <1>6 DEF f

\* Who is not on the list has no orders.
LEMMA UnlistedHaveNone ==
  ASSUME ReportsTypeOK, NEW u \in Buyers, u \notin CustomerList({TRUE}, TRUE)
  PROVE  OrdersOf(u) = {}
<1>1. OrdersOf(u) \in SUBSET Bills
  BY DEF OrdersOf
<1>2. IsFiniteSet(OrdersOf(u)) /\ Cardinality(OrdersOf(u)) \in Nat
  BY <1>1, SumsAreNat
<1>3. PICK n \in Nat : n = Cardinality(OrdersOf(u))
  BY <1>2
<1>4. CustomerRow(u).orders_count = n
  BY <1>3 DEF CustomerRow
<1>5. ~(n > 0)
  BY <1>3, <1>4 DEF CustomerList
<1> QED BY <1>2, <1>3, <1>5, FS_EmptySet

\* What customers and guests spent is the revenue, by the list of those who have
\* ordered, and by the list without the deleted users and their pages.
LEMMA SpendingAddsUp ==
  ASSUME ReportsInv
  PROVE  LET revenue == Revenue(PaidIn(0, LastHour))
             guests == Revenue({b \in GuestOrders(0, LastHour) : Paid(b)})
         IN /\ guests + ListedValue(CustomerList({TRUE}, TRUE)) = revenue
            /\ guests + ListedValue(CustomerList(BOOLEAN, FALSE)) + MapThenSumSet(LifetimeValue, deleted) = revenue
<1> DEFINE S == PaidIn(0, LastHour)
           K == Buyers \cup {Guest}
           L == CustomerList({TRUE}, TRUE)
           M == CustomerList(BOOLEAN, FALSE)
           class == [b \in Bills |-> bill[b].buyer]
           c == [k \in K |-> SumOf(TotalsOf, {b \in S : class[b] = k})]
           spent == [u \in L |-> CustomerRow(u).lifetime_value]
           kept == [u \in M |-> CustomerRow(u).lifetime_value]
           gone == [u \in deleted |-> LifetimeValue(u)]
<1>1. ReportsTypeOK /\ Guest \notin Buyers /\ IsFiniteSet(Buyers) /\ LastHour \in Nat
  BY ReportsAssumption DEF ReportsInv
<1>2. S \in SUBSET Bills /\ \A b \in Bills : b \in S <=> bill[b].made /\ Paid(b)
  <2>1. \A b \in Bills : bill[b].made => bill[b].at >= 0 /\ bill[b].at < LastHour
    <3>1. \A b \in Bills : bill[b].at \in 0..LastHour /\ (bill[b].made => bill[b].at <= hour)
      BY <1>1, BillTypes DEF ReportsInv, BillsAreSound
    <3>2. hour < LastHour /\ hour \in 0..LastHour
      BY DEF ReportsInv, ReportsTypeOK, BillsAreSound
    <3> QED BY <1>1, <3>1, <3>2
  <2> QED BY <2>1 DEF PaidIn, PlacedIn, InRange
<1>3. IsFiniteSet(S) /\ IsFiniteSet(K) /\ \A b \in S : TotalsOf[b] \in Int /\ class[b] \in K
  <2>1. IsFiniteSet(K)
    BY <1>1, FS_AddElement
  <2>2. ASSUME NEW b \in S PROVE TotalsOf[b] \in Int /\ class[b] \in K
    BY <1>1, <1>2, BillTypes DEF TotalsOf
  <2>3. IsFiniteSet(S)
    BY <1>1, <1>2, SumsAreNat
  <2> QED BY <2>1, <2>2, <2>3
<1>4. ASSUME NEW k \in K PROVE c[k] = SumOf(TotalsOf, {b \in S : class[b] = k})
  OBVIOUS
<1>5. ASSUME NEW k \in K PROVE c[k] \in Int
  <2> DEFINE T == {b \in S : class[b] = k}
  <2>1. T \in SUBSET Bills
    BY <1>2
  <2>2. IsFiniteSet(T) /\ \A b \in T : TotalsOf[b] \in Int
    BY <1>1, <1>3, <2>1, SumsAreNat
  <2>3. SumOf(TotalsOf, T) \in Int
    <3> HIDE DEF T
    <3> QED BY <2>2, SumInt
  <2> QED BY <1>4, <2>3
<1>6. ASSUME NEW u \in Buyers PROVE {b \in S : class[b] = u} = PaidOf(u)
  BY <1>2 DEF PaidOf, OrdersOf
<1>7. {b \in S : class[b] = Guest} = {b \in GuestOrders(0, LastHour) : Paid(b)}
  BY <1>2 DEF GuestOrders, PaidIn, PlacedIn
<1>8. Revenue(S) = SumOf(c, K)
  <2>1. Classes(S, K, TotalsOf, class, c)
    <3> HIDE DEF S, K, c, class
    <3> QED BY <1>3, <1>4 DEF Classes
  <2>2. SumOf(TotalsOf, S) = SumOf(c, K)
    <3> HIDE DEF S, K, c, class
    <3> QED BY <1>3, <2>1, SumByClass
  <2> QED BY <1>2, <2>2, RevenueIsSum
<1>9. SumOf(c, K) = c[Guest] + SumOf(c, Buyers)
  <2>1. \A x \in Buyers \cup {Guest} : c[x] \in Int
    BY <1>5
  <2> HIDE DEF c
  <2> QED BY <1>1, <2>1, SumOneMore
<1>10. c[Guest] = Revenue({b \in GuestOrders(0, LastHour) : Paid(b)})
  <2>1. {b \in GuestOrders(0, LastHour) : Paid(b)} \in SUBSET Bills
    BY DEF GuestOrders, PlacedIn
  <2> QED BY <1>4, <1>7, <2>1, RevenueIsSum
<1>11. \A u \in Buyers : c[u] = Revenue(PaidOf(u))
  <2> TAKE u \in Buyers
  <2>1. PaidOf(u) \in SUBSET Bills
    BY DEF PaidOf, OrdersOf
  <2>2. c[u] = SumOf(TotalsOf, PaidOf(u))
    BY <1>4, <1>6
  <2> QED BY <2>1, <2>2, RevenueIsSum
<1>12. SumOf(c, Buyers) = SumOf(spent, L)
  <2>1. L \in SUBSET Buyers
    BY DEF CustomerList
  <2>2. \A u \in L : spent[u] = c[u] /\ spent[u] \in Int
    BY <1>1, <1>5, <1>11, <2>1, LifetimeIsRevenue
  <2>3. \A u \in Buyers \ L : c[u] = 0
    <3> TAKE u \in Buyers \ L
    <3>1. PaidOf(u) = {}
      BY <1>1, UnlistedHaveNone DEF PaidOf
    <3>2. Revenue({}) = 0
      BY RevenueIsSum, SumEmpty
    <3> QED BY <1>11, <3>1, <3>2
  <2> HIDE DEF L, spent, c
  <2> QED BY <1>1, <2>1, <2>2, <2>3, SumFilter
<1>13. ListedValue(L) = SumOf(spent, L)
  BY ListedIsSum
<1>14. deleted \in SUBSET Buyers /\ M = Buyers \ deleted
  <2>1. deleted \in SUBSET Buyers
    BY <1>1 DEF ReportsTypeOK
  <2>2. ASSUME NEW u \in Buyers PROVE (CustomerRow(u).orders_count > 0) \in BOOLEAN
    OBVIOUS
  <2> QED BY <2>1, <2>2 DEF CustomerList
<1>15. SumOf(c, Buyers) = SumOf(c, M) + SumOf(c, deleted)
  <2>1. \A u \in Buyers : c[u] \in Int
    BY <1>5
  <2> HIDE DEF c, M
  <2> QED BY <1>1, <1>14, <2>1, SumSplit
<1>16. SumOf(c, M) = SumOf(kept, M)
  <2>1. \A u \in M : c[u] = kept[u]
    BY <1>1, <1>11, <1>14, LifetimeIsRevenue
  <2>2. IsFiniteSet(M)
    BY <1>1, <1>14, FS_Subset
  <2> HIDE DEF c, M, kept
  <2> QED BY <2>1, <2>2, SumSame
<1>17. ListedValue(M) = SumOf(kept, M)
  BY ListedIsSum
<1>18. SumOf(c, deleted) = SumOf(gone, deleted)
  <2>1. \A u \in deleted : c[u] = gone[u]
    BY <1>11, <1>14 DEF LifetimeValue, PaidOf
  <2>2. IsFiniteSet(deleted)
    BY <1>1, <1>14, FS_Subset
  <2> HIDE DEF c, gone
  <2> QED BY <2>1, <2>2, SumSame
<1>19. MapThenSumSet(LifetimeValue, deleted) = SumOf(gone, deleted)
  BY PagesAreSum
<1>20. SumOf(c, M) \in Int /\ SumOf(c, deleted) \in Int /\ c[Guest] \in Int
  <2>1. IsFiniteSet(M) /\ IsFiniteSet(deleted)
    BY <1>1, <1>14, FS_Subset
  <2>2. \A u \in M : c[u] \in Int
    BY <1>5, <1>14
  <2>3. \A u \in deleted : c[u] \in Int
    BY <1>5, <1>14
  <2>4. c[Guest] \in Int
    BY <1>5
  <2> HIDE DEF c, M
  <2> QED BY <2>1, <2>2, <2>3, <2>4, SumInt
<1> HIDE DEF S, K, L, M, c, spent, kept, gone
<1>21. c[Guest] + ListedValue(L) = Revenue(S)
  BY <1>8, <1>9, <1>12, <1>13
<1>22. c[Guest] + ListedValue(M) + MapThenSumSet(LifetimeValue, deleted) = Revenue(S)
  BY <1>8, <1>9, <1>15, <1>16, <1>17, <1>18, <1>19, <1>20
<1> QED BY <1>10, <1>21, <1>22 DEF S, L, M

\* Whoever bought twice in a range is a repeat customer, and active then.
LEMMA RepeatsAreRepeat ==
  ASSUME ReportsTypeOK, NEW since, NEW until, NEW u \in RepeatIn(since, until)
  PROVE  /\ u \in Buyers /\ u \in RepeatCustomers /\ u \in ActiveIn(since, until)
         /\ OrdersOf(u) \cap PaidIn(since, until) # {}
<1> DEFINE T == OrdersOf(u) \cap PaidIn(since, until)
<1>1. u \in Buyers /\ Cardinality(T) >= 2
  BY DEF RepeatIn
<1>2. T \in SUBSET PaidOf(u) /\ PaidOf(u) \in SUBSET Bills /\ T \subseteq OrdersOf(u) \cap PlacedIn(since, until)
  BY DEF PaidOf, OrdersOf, PaidIn
<1>3. IsFiniteSet(PaidOf(u)) /\ Cardinality(PaidOf(u)) \in Nat
  BY <1>2, SumsAreNat
<1>4. IsFiniteSet(T) /\ Cardinality(T) \in Nat /\ Cardinality(T) <= Cardinality(PaidOf(u))
  BY <1>2, <1>3, FS_Subset, FS_CardinalityType
<1>5. Cardinality(PaidOf(u)) >= 2
  BY <1>1, <1>3, <1>4
<1>6. T # {}
  BY <1>1, FS_EmptySet
<1>7. u \in RepeatCustomers
  BY <1>1, <1>5 DEF RepeatCustomers, IsRepeat, PaidOf
<1>8. u \in ActiveIn(since, until)
  BY <1>1, <1>2, <1>6 DEF ActiveIn
<1> QED BY <1>1, <1>6, <1>7, <1>8

\* For any number of customers and orders, whoever of them was deleted, the list,
\* the page of a customer, the metrics of a range and the summary agree
\* (customer_repo.py).
THEOREM CustomersAlwaysReconcile == ReportsSpec => []CustomersReconcile
<1>1. ReportsInv => CustomersReconcile
  <2> SUFFICES ASSUME ReportsInv PROVE CustomersReconcile
    OBVIOUS
  <2>0. ReportsTypeOK
    BY DEF ReportsInv
  <2>1. LET revenue == Revenue(PaidIn(0, LastHour))
            guests == Revenue({b \in GuestOrders(0, LastHour) : Paid(b)})
        IN /\ guests + ListedValue(CustomerList({TRUE}, TRUE)) = revenue
           /\ guests + ListedValue(CustomerList(BOOLEAN, FALSE)) + MapThenSumSet(LifetimeValue, deleted) = revenue
    BY SpendingAddsUp
  <2>2. \A u \in CustomerList(BOOLEAN, TRUE) : CustomerRow(u).lifetime_value = LifetimeValue(u)
    BY <2>0, LifetimeIsRevenue DEF LifetimeValue, PaidOf
  <2>3. ASSUME NEW since \in 0..LastHour, NEW until \in 0..LastHour
        PROVE  /\ RepeatIn(since, until) \subseteq RepeatCustomers \cap ActiveIn(since, until)
               /\ ReturningIn(since, until) \cap RepeatIn(0, since) = RepeatIn(0, since) \cap ActiveIn(since, until)
    <3>1. RepeatIn(since, until) \subseteq RepeatCustomers \cap ActiveIn(since, until)
      BY <2>0, RepeatsAreRepeat
    <3>2. ASSUME NEW u \in RepeatIn(0, since), u \in ActiveIn(since, until) PROVE u \in ReturningIn(since, until)
      <4>1. PICK b \in OrdersOf(u) \cap PaidIn(0, since) : TRUE
        BY <2>0, RepeatsAreRepeat
      <4>2. b \in OrdersOf(u) /\ Paid(b) /\ bill[b].at < since
        BY <4>1 DEF PaidIn, PlacedIn, InRange
      <4> QED BY <3>2, <4>2 DEF ReturningIn
    <3>3. ReturningIn(since, until) \subseteq ActiveIn(since, until)
      BY DEF ReturningIn
    <3> QED BY <3>1, <3>2, <3>3
  <2> QED BY <2>1, <2>2, <2>3 DEF CustomersReconcile
<1> QED BY <1>1, ReportsInvariance, PTL
=============================================================================
