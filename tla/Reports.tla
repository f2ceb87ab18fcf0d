------------------------------- MODULE Reports -------------------------------
(***************************************************************************)
(* The admin's figures: the overview, the trend, the best sellers, the     *)
(* customers.  Each is worked out by queries of its own over the orders,   *)
(* with a time range that is half open.  The overview takes two            *)
(* statements, and each sees the orders as they are when it runs: payments *)
(* commit in between, and failures read before a payment are written over  *)
(* it.  No query but the desk's looks at the status: an order counts as    *)
(* paid though it was cancelled.  A deleted user keeps the orders; the     *)
(* customer list leaves them out unless it is asked.                       *)
(*                                                                         *)
(* Time is counted in hours; the calendar says where a day, week or month  *)
(* starts.  Money is a whole number.  The dates an admin sends are in UTC. *)
(***************************************************************************)
EXTENDS Integers, FiniteSets, FiniteSetsExt

CONSTANTS
  Bills,      \* orders.id
  Buyers,     \* users.id
  Guest,      \* orders.user_id IS NULL
  Models,     \* products.id
  Sections,   \* categories.id
  Filed,      \* the categories of each product
  HoursADay,
  Calendar,   \* per granularity, the days its buckets start on
  LastHour,   \* bound on the clock
  Ranges,     \* <<since, until>> of the overviews that are asked for
  Totals      \* what an order may come to

ASSUME ReportsAssumption ==
  /\ IsFiniteSet(Bills) /\ IsFiniteSet(Buyers) /\ IsFiniteSet(Models)
  /\ Filed \in [Models -> SUBSET Sections]
  /\ Guest \notin Buyers /\ HoursADay \in Nat \ {0} /\ LastHour \in Nat \ {0}
  /\ Ranges \subseteq (0..LastHour) \X (0..LastHour) /\ Totals \subseteq Nat /\ 0 \in Totals
  /\ DOMAIN Calendar = {"day", "week", "month"}
  /\ \A g \in DOMAIN Calendar : Calendar[g] \subseteq Int /\ \E d \in Calendar[g] : d <= 0

VARIABLES
  bill,       \* the rows of orders with their items
  hour,       \* the time
  report,     \* the overview being made, or made last
  deleted,    \* users.deleted_at IS NOT NULL
  takenBack   \* history: the orders whose payment was written over between the two statements

reportVars == <<bill, hour, report, deleted, takenBack>>

Basket == [Models -> 0..2]

BillRow ==
  [made : BOOLEAN, buyer : Buyers \cup {Guest}, at : 0..LastHour, total : Totals, units : Basket,
   pay : {"pending", "paid", "failed"}]

NoBill ==
  [made |-> FALSE, buyer |-> Guest, at |-> 0, total |-> 0, units |-> [p \in Models |-> 0],
   pay |-> "pending"]

ReportRow ==
  [at : {"none", "half", "done"}, since : 0..LastHour, until : 0..LastHour,
   orders : Nat, paid : Nat, revenue : Nat, units : Nat]

NoReport ==
  [at |-> "none", since |-> 0, until |-> 0, orders |-> 0, paid |-> 0, revenue |-> 0, units |-> 0]

ReportsInit ==
  /\ bill = [b \in Bills |-> NoBill]
  /\ hour = 0
  /\ report = NoReport
  /\ deleted = {} /\ takenBack = {}

-----------------------------------------------------------------------------
(* Predicates the queries share *)

\* _placed_in_range
InRange(b, since, until) == bill[b].made /\ bill[b].at >= since /\ bill[b].at < until

\* _paid: the order's present state.
Paid(b) == bill[b].pay = "paid"

PlacedIn(since, until) == {b \in Bills : InRange(b, since, until)}

PaidIn(since, until) == {b \in PlacedIn(since, until) : Paid(b)}

Revenue(bs) == MapThenSumSet(LAMBDA b : bill[b].total, bs)

UnitsOf(b) == MapThenSumSet(LAMBDA p : bill[b].units[p], Models)

Units(bs) == MapThenSumSet(LAMBDA b : UnitsOf(b), bs)

-----------------------------------------------------------------------------
(* The overview *)

BeginOverview(since, until) ==
  /\ report.at # "half"
  /\ since < until   \* _validate_range
  /\ report' = [at |-> "half", since |-> since, until |-> until, units |-> 0,
                orders |-> Cardinality(PlacedIn(since, until)),
                paid |-> Cardinality(PaidIn(since, until)),
                revenue |-> Revenue(PaidIn(since, until))]
  /\ takenBack' = {}
  /\ UNCHANGED <<bill, hour, deleted>>

\* Mutant: the second statement's range ends an hour early.
FinishEarly ==
  /\ report.at = "half"
  /\ report' = [report EXCEPT !.at = "done", !.units = Units(PaidIn(report.since, report.until - 1))]
  /\ UNCHANGED <<bill, hour, deleted, takenBack>>

\* The second statement: the units sold.
FinishOverview ==
  /\ report.at = "half"
  /\ report' = [report EXCEPT !.at = "done", !.units = Units(PaidIn(report.since, report.until))]
  /\ UNCHANGED <<bill, hour, deleted, takenBack>>

-----------------------------------------------------------------------------
(* The trend *)

\* date_trunc, and _trunc_date: the start of the bucket a day falls in.
BucketOf(day, g) == Max({d \in Calendar[g] : d <= day})

Day(t) == t \div HoursADay

\* Mutant: the chart starts at the first whole bucket.
WholeBuckets(since, until, g) ==
  {d \in Calendar[g] : since <= d * HoursADay /\ d * HoursADay < until}

\* _bucket_range: from the bucket of `since` to the last that starts before `until`.
BucketRange(since, until, g) ==
  {d \in Calendar[g] : BucketOf(Day(since), g) <= d /\ d * HoursADay < until}

\* A point of the chart: what the query found for the bucket, zeros otherwise.
TrendBucket(d, since, until, g) ==
  LET here == {b \in PlacedIn(since, until) : BucketOf(Day(bill[b].at), g) = d}
      paid == {b \in here : Paid(b)}
  IN [revenue |-> Revenue(paid), orders |-> Cardinality(here), units |-> Units(paid)]

\* The chart: a point for every bucket, also for those without an order.
Trend(since, until, g) ==
  [d \in BucketRange(since, until, g) |-> TrendBucket(d, since, until, g)]

-----------------------------------------------------------------------------
(* Best sellers and customers *)

\* A line of top_products.
UnitsSold(p, since, until) ==
  MapThenSumSet(LAMBDA b : bill[b].units[p], PaidIn(since, until))

\* The units of an order that count under a category.
UnitsFiled(b, c) == MapThenSumSet(LAMBDA p : IF c \in Filed[p] THEN bill[b].units[p] ELSE 0, Models)

\* A line of top_categories; a product counts under each of its categories.
UnitsInCategory(c, since, until) ==
  MapThenSumSet(LAMBDA b : UnitsFiled(b, c), PaidIn(since, until))

OrdersOf(u) == {b \in Bills : bill[b].made /\ bill[b].buyer = u}

\* A row of the customer list: an order counts with its total if it is paid.
CustomerRow(u) ==
  [orders_count |-> Cardinality(OrdersOf(u)),
   lifetime_value |-> MapThenSumSet(LAMBDA b : IF Paid(b) THEN bill[b].total ELSE 0, OrdersOf(u))]

\* Mutant: the filter on deleted users is dropped.
EverybodyListed(has_orders, include_deleted) ==
  {u \in Buyers : (CustomerRow(u).orders_count > 0) \in has_orders}

\* The list, with the answers to "has orders?" that are asked for: one, or either
\* (has_orders is None).  Deleted users are left out by default.
CustomerList(has_orders, include_deleted) ==
  {u \in Buyers : (CustomerRow(u).orders_count > 0) \in has_orders /\ (include_deleted \/ u \notin deleted)}

\* user_kpi
LifetimeValue(u) == Revenue({b \in OrdersOf(u) : Paid(b)})

IsRepeat(u) == Cardinality({b \in OrdersOf(u) : Paid(b)}) >= 2

\* customer_metrics
RepeatIn(since, until) ==
  {u \in Buyers : Cardinality(OrdersOf(u) \cap PaidIn(since, until)) >= 2}

ActiveIn(since, until) == {u \in Buyers : OrdersOf(u) \cap PlacedIn(since, until) # {}}

\* Active in the range, with a paid order before it.
ReturningIn(since, until) ==
  {u \in ActiveIn(since, until) : \E b \in OrdersOf(u) : Paid(b) /\ bill[b].at < since}

GuestOrders(since, until) == {b \in PlacedIn(since, until) : bill[b].buyer = Guest}

\* segment_summary, which reads the orders alone: a deleted user counts as well,
\* although its docstring says that deleted users do not (customer_repo.py:302).
RepeatCustomers == {u \in Buyers : IsRepeat(u)}

-----------------------------------------------------------------------------
(* The orders meanwhile *)

\* An order has at least one unit and costs something.
PlaceBill(b, buyer, units, total) ==
  /\ ~bill[b].made /\ \E p \in Models : units[p] > 0
  /\ bill' = [bill EXCEPT ![b] =
       [made |-> TRUE, buyer |-> buyer, at |-> hour, total |-> total, units |-> units,
        pay |-> "pending"]]
  /\ UNCHANGED <<hour, report, deleted, takenBack>>

PayBill(b) ==
  /\ bill[b].made /\ bill[b].pay # "paid"
  /\ bill' = [bill EXCEPT ![b].pay = "paid"]
  /\ UNCHANGED <<hour, report, deleted, takenBack>>

\* _mark_failed writes over whatever the order has become since it was read: a
\* failure read before the capture turns a paid order back.
FailBill(b) ==
  /\ bill[b].made /\ bill[b].pay # "failed"
  /\ bill' = [bill EXCEPT ![b].pay = "failed"]
  /\ takenBack' = IF Paid(b) /\ report.at = "half" THEN takenBack \cup {b} ELSE takenBack
  /\ UNCHANGED <<hour, report, deleted>>

\* user.deleted, and a later event that brings the user back.
DeleteBuyer(u) ==
  /\ deleted' = IF u \in deleted THEN deleted \ {u} ELSE deleted \cup {u}
  /\ UNCHANGED <<bill, hour, report, takenBack>>

HourPasses ==
  /\ hour < LastHour - 1
  /\ hour' = hour + 1
  /\ UNCHANGED <<bill, report, deleted, takenBack>>

ReportsNext ==
  \/ \E range \in Ranges : BeginOverview(range[1], range[2])
  \/ FinishOverview
  \/ \E b \in Bills, buyer \in Buyers \cup {Guest}, units \in Basket, total \in Totals \ {0} :
       PlaceBill(b, buyer, units, total)
  \/ \E b \in Bills : PayBill(b)
  \/ \E b \in Bills : FailBill(b)
  \/ \E u \in Buyers : DeleteBuyer(u)
  \/ HourPasses

ReportsSpec == ReportsInit /\ [][ReportsNext]_reportVars

-----------------------------------------------------------------------------
(* What must hold *)

ReportsTypeOK ==
  /\ bill \in [Bills -> BillRow]
  /\ hour \in 0..LastHour
  /\ report \in ReportRow
  /\ deleted \subseteq Buyers /\ takenBack \subseteq Bills

\* A column of the chart, and the lines of some products, added up.
ChartTotal(trend, column) == MapThenSumSet(LAMBDA d : trend[d][column], DOMAIN trend)

SoldTotal(ps, since, until) == MapThenSumSet(LAMBDA p : UnitsSold(p, since, until), ps)

\* "Revenue numbers reconcile across tiles": for every range and granularity
\* the chart adds up to the overview, wherever the range starts and ends; so do
\* the best sellers, and those of a category to its line.  Two ranges that meet add up to the one they make.
TilesReconcile ==
  (\E b \in Bills : bill[b].made) =>
  \A since, until \in 0..LastHour : since < until =>
    /\ \A g \in DOMAIN Calendar :
         LET trend == Trend(since, until, g)
         IN /\ ChartTotal(trend, "revenue") = Revenue(PaidIn(since, until))
            /\ ChartTotal(trend, "orders") = Cardinality(PlacedIn(since, until))
            /\ ChartTotal(trend, "units") = Units(PaidIn(since, until))
    /\ SoldTotal(Models, since, until) = Units(PaidIn(since, until))
    /\ \A c \in Sections :
         SoldTotal({p \in Models : c \in Filed[p]}, since, until) = UnitsInCategory(c, since, until)
    /\ \A m \in since..until :
         Cardinality(PlacedIn(since, m)) + Cardinality(PlacedIn(m, until)) = Cardinality(PlacedIn(since, until))

\* What some customers spent, by their rows on the list.
ListedValue(us) == MapThenSumSet(LAMBDA u : CustomerRow(u).lifetime_value, us)

\* The customers' figures agree with the orders': the whole list and the guests
\* spent the revenue, and the list as it is by default lacks just what the deleted
\* users' pages say they spent.  Whoever bought twice in a range is a repeat
\* customer of the summary, and one who came back before did so too.
CustomersReconcile ==
  (\E b \in Bills : bill[b].made) =>
  /\ LET revenue == Revenue(PaidIn(0, LastHour))
         guests == Revenue({b \in GuestOrders(0, LastHour) : Paid(b)})
     IN /\ guests + ListedValue(CustomerList({TRUE}, TRUE)) = revenue
        /\ guests + ListedValue(CustomerList(BOOLEAN, FALSE)) + MapThenSumSet(LifetimeValue, deleted) = revenue
  /\ \A u \in CustomerList(BOOLEAN, TRUE) : CustomerRow(u).lifetime_value = LifetimeValue(u)
  /\ \A since, until \in 0..LastHour : since < until =>
       /\ RepeatIn(since, until) \subseteq RepeatCustomers \cap ActiveIn(since, until)
       /\ ReturningIn(since, until) \cap RepeatIn(0, since) = RepeatIn(0, since) \cap ActiveIn(since, until)

\* A finished overview has sold at least a unit for every order it counts as
\* paid, although orders were placed and paid between its statements; it lacks
\* at most the orders whose payment a late failure was written over meanwhile.
OverviewHoldsTogether ==
  report.at = "done" =>
    report.units + Cardinality(takenBack) >= report.paid /\ report.orders >= report.paid
=============================================================================
