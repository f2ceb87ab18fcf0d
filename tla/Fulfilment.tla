----------------------------- MODULE Fulfilment -----------------------------
(***************************************************************************)
(* The dispatch desk: admins pack, ship, deliver and cancel orders, record *)
(* cash on delivery and edit the shipment; couriers enter the AWB of a     *)
(* packed order; the gateway reports captures and failed payments.  None  *)
(* of these handlers locks the order: it is read when the request starts,  *)
(* the guards are tested on what was read, and the changed columns are     *)
(* written when the request commits.                                       *)
(*                                                                         *)
(* An order is a gateway order or a cash order; of what Checkout does with *)
(* gateway orders only the outcomes for the order's row are here.          *)
(***************************************************************************)
EXTENDS Integers, FiniteSets

CONSTANTS
  Parcels,     \* orders.id
  Clerks,      \* requests of admins, couriers and the gateway in flight together
  Awbs,        \* tracking ids
  VendorOf,    \* the carrier (Daakia vendor) that issued a tracking id
  Missing      \* a column that is NULL

Vendors == {VendorOf[a] : a \in Awbs}

ASSUME FulfilmentAssumption ==
  /\ VendorOf \in [Awbs -> Vendors] /\ Missing \notin Awbs \cup Vendors
  /\ IsFiniteSet(Clerks)

VARIABLES
  parcel,     \* the rows of orders
  shipment,   \* the rows of shipments
  desk,       \* what each request has read and not yet acted upon
  returned,   \* order_cancelled rows of stock_movements, by order
  received    \* history: the orders a capture was booked for, whatever their row says now

fulfilmentVars == <<parcel, shipment, desk, returned, received>>

Methods == {"razorpay", "cod"}
ParcelStatus == {"none", "placed", "packed", "shipped", "delivered", "cancelled"}
ParcelPay == {"pending", "paid", "failed", "cod_pending"}

ParcelRow == [method : Methods, status : ParcelStatus, pay : ParcelPay]

ShipmentRow == [made : BOOLEAN, awb : Awbs \cup {Missing}, vendor : Vendors \cup {Missing}]

NoShipment == [made |-> FALSE, awb |-> Missing, vendor |-> Missing]

Requests == {"pack", "ship", "deliver", "cancel", "cod_paid", "set_awb", "captured", "failed"}

Free == [op |-> "free"]

Job == [op : Requests, parcel : Parcels, row : ParcelRow, shipped : BOOLEAN]

FulfilmentInit ==
  /\ parcel = [o \in Parcels |-> [method |-> "razorpay", status |-> "none", pay |-> "pending"]]
  /\ shipment = [o \in Parcels |-> NoShipment]
  /\ desk = [c \in Clerks |-> Free]
  /\ returned = [o \in Parcels |-> 0]
  /\ received = {}

-----------------------------------------------------------------------------
(* Orders come, and are given up, as Checkout and the cash checkout say *)

PlaceParcel(o, method) ==
  /\ parcel[o].status = "none"
  /\ parcel' = [parcel EXCEPT ![o] =
       [method |-> method, status |-> "placed",
        pay |-> IF method = "cod" THEN "cod_pending" ELSE "pending"]]
  /\ UNCHANGED <<shipment, desk, returned, received>>

Awaited(o) == parcel[o].method = "razorpay" /\ parcel[o].status # "none" /\ parcel[o].pay = "pending"

\* The backstop: one UPDATE of what is still pending.
Backstop(o) ==
  /\ Awaited(o)
  /\ parcel' = [parcel EXCEPT ![o].pay = "failed"]
  /\ UNCHANGED <<shipment, desk, returned, received>>

\* The customer gives the checkout up before paying; the session's lock keeps a
\* capture of the same order out until this has committed.
Withdrawn(o) ==
  /\ Awaited(o)
  /\ parcel' = [parcel EXCEPT ![o] = [@ EXCEPT !.status = "cancelled", !.pay = "failed"]]
  /\ UNCHANGED <<shipment, desk, returned, received>>

-----------------------------------------------------------------------------
(* Reading: the guards, on the order as it is now *)

\* _assert_transition
Allowed(from) ==
  CASE from = "placed" -> {"packed", "cancelled"}
    [] from = "packed" -> {"shipped", "cancelled"}
    [] from = "shipped" -> {"delivered", "cancelled"}
    [] OTHER -> {}

\* Mutant: a cash order needs no payment state, nor does any other.
MayPackUnpaid(row) == "packed" \in Allowed(row.status)

\* The payment gate of mark_packed.
MayPack(row) ==
  /\ "packed" \in Allowed(row.status)
  /\ row.pay \in (IF row.method = "cod" THEN {"cod_pending", "paid"} ELSE {"paid"})

\* A courier sees paid orders only and dispatches those that are ready.
MayDispatch(row) == row.pay = "paid" /\ row.status = "packed"

\* A capture of a cancelled order is a refund owed and leaves the order alone; a
\* failure after the capture is ignored.
Accepts(op, row) ==
  CASE op = "pack" -> MayPack(row)
    [] op = "ship" -> "shipped" \in Allowed(row.status)
    [] op = "deliver" -> "delivered" \in Allowed(row.status)
    [] op = "cancel" -> "cancelled" \in Allowed(row.status)
    [] op = "cod_paid" -> row.method = "cod" /\ row.pay = "cod_pending"
    [] op = "set_awb" -> MayDispatch(row)
    [] op = "captured" -> row.method = "razorpay" /\ row.pay # "paid" /\ row.status # "cancelled"
    [] op = "failed" -> row.method = "razorpay" /\ row.pay # "paid"

ReadOrder(c, op, o) ==
  /\ desk[c] = Free /\ parcel[o].status # "none" /\ Accepts(op, parcel[o])
  /\ desk' = [desk EXCEPT ![c] =
       [op |-> op, parcel |-> o, row |-> parcel[o], shipped |-> shipment[o].made]]
  /\ UNCHANGED <<parcel, shipment, returned, received>>

-----------------------------------------------------------------------------
(* Writing, on what was read *)

Done(c) == desk' = [desk EXCEPT ![c] = Free]

CommitPack(c) ==
  /\ desk[c].op = "pack" /\ Done(c)
  /\ parcel' = [parcel EXCEPT ![desk[c].parcel].status = "packed"]
  /\ UNCHANGED <<shipment, returned, received>>

\* The shipment row is inserted if there was none when the order was read; one
\* that somebody else has inserted since breaks UNIQUE(order_id).
Insertable(c) == desk[c].shipped \/ ~shipment[desk[c].parcel].made

CommitShip(c, awb) ==
  /\ desk[c].op \in {"ship", "set_awb"} /\ Insertable(c) /\ Done(c)
  /\ parcel' = [parcel EXCEPT ![desk[c].parcel].status = "shipped"]
  /\ shipment' = [shipment EXCEPT ![desk[c].parcel] =
       [made |-> TRUE, awb |-> awb,
        vendor |-> IF desk[c].op = "set_awb" THEN VendorOf[awb] ELSE @.vendor]]
  /\ UNCHANGED <<returned, received>>

\* Cash on delivery is paid by being delivered.
PayOnDelivery(row, pay) == IF row.pay = "cod_pending" THEN "paid" ELSE pay

CommitDeliver(c) ==
  /\ desk[c].op = "deliver" /\ Insertable(c) /\ Done(c)
  /\ LET o == desk[c].parcel IN
       parcel' = [parcel EXCEPT ![o] =
         [@ EXCEPT !.status = "delivered", !.pay = PayOnDelivery(desk[c].row, parcel[o].pay)]]
  /\ shipment' = [shipment EXCEPT ![desk[c].parcel].made = TRUE]
  /\ UNCHANGED <<returned, received>>

\* Mutant: every cancelled order goes back to the shelf.
AlwaysLeft(row) == TRUE

\* Stock left at the capture, or when the cash order was placed.
StockLeft(row) == row.pay = "paid" \/ row.method = "cod"

CommitCancel(c) ==
  /\ desk[c].op = "cancel" /\ Done(c)
  /\ parcel' = [parcel EXCEPT ![desk[c].parcel].status = "cancelled"]
  /\ returned' = [returned EXCEPT ![desk[c].parcel] = IF StockLeft(desk[c].row) THEN @ + 1 ELSE @]
  /\ UNCHANGED <<shipment, received>>

CommitCodPaid(c) ==
  /\ desk[c].op = "cod_paid" /\ Done(c)
  /\ parcel' = [parcel EXCEPT ![desk[c].parcel].pay = "paid"]
  /\ UNCHANGED <<shipment, returned, received>>

\* The capture's sale is booked and the order counts as paid.
CommitCaptured(c) ==
  /\ desk[c].op = "captured" /\ Done(c)
  /\ parcel' = [parcel EXCEPT ![desk[c].parcel].pay = "paid"]
  /\ received' = received \cup {desk[c].parcel}
  /\ UNCHANGED <<shipment, returned>>

\* Written over whatever the order has become, unless it was read as failed: a
\* column is written only where it differs from what was read.
CommitFailed(c) ==
  /\ desk[c].op = "failed" /\ Done(c)
  /\ parcel' = IF desk[c].row.pay = "failed" THEN parcel
               ELSE [parcel EXCEPT ![desk[c].parcel].pay = "failed"]
  /\ UNCHANGED <<shipment, returned, received>>

\* The unique row was there: the request fails and nothing is written.
RefuseShipment(c) ==
  /\ desk[c].op \in {"ship", "set_awb", "deliver"} /\ ~Insertable(c) /\ Done(c)
  /\ UNCHANGED <<parcel, shipment, returned, received>>

\* update_shipment looks at no status and leaves the carrier as it is.
UpdateShipment(o, awb) ==
  /\ parcel[o].status # "none"
  /\ shipment' = [shipment EXCEPT ![o] =
       [@ EXCEPT !.made = TRUE, !.awb = IF awb = Missing THEN shipment[o].awb ELSE awb]]
  /\ UNCHANGED <<parcel, desk, returned, received>>

FulfilmentNext ==
  \/ \E o \in Parcels, method \in Methods : PlaceParcel(o, method)
  \/ \E o \in Parcels : Backstop(o)
  \/ \E o \in Parcels : Withdrawn(o)
  \/ \E c \in Clerks, op \in Requests, o \in Parcels : ReadOrder(c, op, o)
  \/ \E c \in Clerks : CommitPack(c)
  \/ \E c \in Clerks, awb \in Awbs : CommitShip(c, awb)
  \/ \E c \in Clerks : CommitDeliver(c)
  \/ \E c \in Clerks : CommitCancel(c)
  \/ \E c \in Clerks : CommitCodPaid(c)
  \/ \E c \in Clerks : CommitCaptured(c)
  \/ \E c \in Clerks : CommitFailed(c)
  \/ \E c \in Clerks : RefuseShipment(c)
  \/ \E o \in Parcels, awb \in Awbs \cup {Missing} : UpdateShipment(o, awb)

FulfilmentSpec == FulfilmentInit /\ [][FulfilmentNext]_fulfilmentVars

-----------------------------------------------------------------------------
(* What the customer sees *)

\* order_tracking_service asks the carrier only when both are known.
Trackable(o) == shipment[o].awb # Missing /\ shipment[o].vendor # Missing

\* The courier's list.
ToDispatch == {o \in Parcels : parcel[o].pay = "paid" /\ parcel[o].status \in {"placed", "packed", "shipped"}}

\* The desk's tiles count these orders.
FulfillmentKpis ==
  LET In(status) == {o \in Parcels : parcel[o].status = status} IN
  [awaiting_packing |-> {o \in In("placed") : parcel[o].pay \in {"paid", "cod_pending"}},
   awaiting_shipment |-> In("packed"),
   in_transit |-> In("shipped"),
   cod_outstanding |-> {o \in Parcels \ (In("none") \cup In("delivered") \cup In("cancelled")) :
                          parcel[o].method = "cod" /\ parcel[o].pay = "cod_pending"},
   shipped_missing_tracking |-> {o \in In("shipped") : shipment[o].awb = Missing}]

\* My Orders hides what was never paid.
MyOrders == {o \in Parcels : parcel[o].status # "none" /\ parcel[o].pay \notin {"pending", "failed"}}

-----------------------------------------------------------------------------
(* What must hold *)

FulfilmentTypeOK ==
  /\ parcel \in [Parcels -> ParcelRow]
  /\ shipment \in [Parcels -> ShipmentRow]
  /\ desk \in [Clerks -> {Free} \cup Job]
  /\ returned \in [Parcels -> Nat]
  /\ received \subseteq Parcels

\* The money for an order has come, from the gateway or at the door.
Settled(o) == o \in received \/ (parcel[o].method = "cod" /\ parcel[o].pay = "paid")

\* Orders whose money came and whose row a failure read before the capture has
\* turned back (PaidIsFinal of CheckoutRaces): hidden from owner and courier alike.
FailedOver == {o \in received : parcel[o].pay = "failed"}

\* Goods go out only to those whose money has come or is taken at the door, what
\* is delivered has been paid for, and the carrier is asked about nothing else,
\* however the desk's requests, the cash and the gateway's reports interleave.
\* But for the orders a late failure was written over, the owner of what is
\* delivered sees it, and what is packed or on its way is on the courier's list
\* or counted as cash to collect.
DeliveredIsPaid ==
  \A o \in Parcels :
    /\ parcel[o].status = "delivered" => Settled(o) /\ o \in MyOrders \cup FailedOver
    /\ o \in FulfillmentKpis.awaiting_shipment \cup FulfillmentKpis.in_transit =>
         o \in ToDispatch \cup FulfillmentKpis.cod_outstanding \cup FailedOver
    /\ Trackable(o) => Settled(o)

\* Units are put back on the shelf only for an order whose units had left it: it
\* is a cash order or its capture was booked, also when a capture or a failure is
\* written while the order is being cancelled.
ReturnedHadLeft == \A o \in Parcels : returned[o] > 0 => parcel[o].method = "cod" \/ o \in received

\* "terminal" (AdminOrderService._assert_transition): a delivered or cancelled
\* order stays that, and its units are not returned again.
TerminalIsFinal ==
  [][\A o \in Parcels : parcel[o].status \in {"delivered", "cancelled"} =>
       parcel'[o].status = parcel[o].status /\ returned'[o] = returned[o]]_fulfilmentVars
=============================================================================
