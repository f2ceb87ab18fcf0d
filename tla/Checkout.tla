------------------------------ MODULE Checkout ------------------------------
(***************************************************************************)
(* The reservation checkout: a user's cart is held as reservations under a *)
(* checkout session, /pay turns the hold into a pending order, and the     *)
(* payment gateway's webhooks decide the order.  Physical stock leaves     *)
(* only when a capture is applied.                                         *)
(*                                                                         *)
(* One action is one request handler, webhook or sweep tick, run as the    *)
(* one database transaction session_scope gives it; a request the code     *)
(* refuses rolls back and is a stuttering step.  CheckoutRaces splits the  *)
(* handlers that read rows without locking them.                           *)
(*                                                                         *)
(* /pay is accepted only by an ACTIVE session and leaves it               *)
(* PAYMENT_PROCESSING for good, so a session has at most one order and one *)
(* payment row: both are indexed by their session here.                    *)
(***************************************************************************)
EXTENDS Integers, FiniteSets, FiniteSetsExt

CONSTANTS
  Users,            \* user ids
  Variants,         \* product variant ids
  Sessions,         \* checkout_sessions row ids, created as they are needed
  Owner,            \* the user each session row is created for
  Carts,            \* the carts a user may check out: quantity per variant
  InitialStock,     \* inventory.stock of each variant at the start
  MaxStock,         \* bound: the highest stock an admin adjusts to
  ReservationTTL,   \* reservation_ttl_seconds, in clock units
  PaymentTTL,       \* reservation_payment_ttl_seconds, in clock units
  LastStart,        \* bound: the last instant at which a checkout starts
  MaxEvents         \* bound: webhook events the gateway emits per payment

ASSUME SetsAssumption ==
  /\ IsFiniteSet(Sessions)
  /\ Owner \in [Sessions -> Users]
  /\ Carts \subseteq [Variants -> Nat]
  /\ \A cart \in Carts : \E v \in Variants : cart[v] > 0

ASSUME NumbersAssumption ==
  /\ InitialStock \in [Variants -> Nat]
  /\ MaxStock \in Nat
  /\ ReservationTTL \in Nat \ {0}
  /\ PaymentTTL \in Nat \ {0}
  /\ LastStart \in Nat
  /\ MaxEvents \in Nat

VARIABLES
  now,          \* the database clock
  stock,        \* inventory.stock
  sold,         \* inventory.sold_quantity
  adjusted,     \* sum of the admin's stock_movements.delta
  session,      \* checkout_sessions: status, expires_at
  reservation,  \* reservations of a session, per variant
  order,        \* orders: status, payment_status, quantities of its items
  payment,      \* payments: status, webhook_event_id, needs-refund flag
  gateway       \* the gateway's side: is the payment taken, events emitted

inventoryVars == <<stock, sold, adjusted>>
holdVars == <<session, reservation>>
saleVars == <<order, payment>>
vars == <<now, stock, sold, adjusted, session, reservation, order, payment, gateway>>

-----------------------------------------------------------------------------
(* Row types.  "none" is a row that does not exist (yet). *)

SessionStatus == {"none", "active", "payment_processing", "completed", "expired", "cancelled"}
LiveSession == {"active", "payment_processing"}
ReservationStatus == {"none", "reserved", "payment_processing", "completed", "expired", "cancelled"}
ActiveReservation == {"reserved", "payment_processing"}
OrderStatus == {"none", "placed", "packed", "shipped", "delivered", "cancelled"}
PaymentStatus == {"none", "pending", "paid", "failed"}
GatewayStatus == {"none", "created", "captured", "failed"}

EventIds == 1..MaxEvents
NoEvent == 0
Event == [id : EventIds, kind : {"captured", "failed"}]

SessionRow == [status : SessionStatus, expires : Nat]
ReservationRow == [status : ReservationStatus, quantity : Nat, expires : Nat]
OrderRow == [status : OrderStatus, pay : PaymentStatus, items : [Variants -> Nat]]
PaymentRow == [status : GatewayStatus, event : EventIds \cup {NoEvent}, refund : BOOLEAN]
GatewayState == [taken : BOOLEAN, events : SUBSET Event]

NoSession == [status |-> "none", expires |-> 0]
NoReservation == [status |-> "none", quantity |-> 0, expires |-> 0]
NoOrder == [status |-> "none", pay |-> "none", items |-> [v \in Variants |-> 0]]
NoPayment == [status |-> "none", event |-> NoEvent, refund |-> FALSE]
NewPayment == [status |-> "created", event |-> NoEvent, refund |-> FALSE]

Init ==
  /\ now = 0
  /\ stock = InitialStock
  /\ sold = [v \in Variants |-> 0]
  /\ adjusted = [v \in Variants |-> 0]
  /\ session = [s \in Sessions |-> NoSession]
  /\ reservation = [s \in Sessions |-> [v \in Variants |-> NoReservation]]
  /\ order = [s \in Sessions |-> NoOrder]
  /\ payment = [s \in Sessions |-> NoPayment]
  /\ gateway = [s \in Sessions |-> [taken |-> FALSE, events |-> {}]]

-----------------------------------------------------------------------------
(* Derived quantities *)

\* Mutant: a hold in payment is not counted.
HoldsStockUntilPayment(row) == row.status = "reserved" /\ row.expires > now

\* A row that counts towards the derived reserved quantity of its variant.
HoldsStock(row) == row.status \in ActiveReservation /\ row.expires > now

HeldBy(s, v) == IF HoldsStock(reservation[s][v]) THEN reservation[s][v].quantity ELSE 0

\* SUM(quantity) of the active unexpired reservations of the given sessions.
ReservedBy(S, v) == MapThenSumSet(LAMBDA s : HeldBy(s, v), S)

\* Mutant: the holds of the others are not counted.
AvailableOnShelf(s, v) == stock[v]

\* What a checkout of session s may take: its own hold does not count.
AvailableTo(s, v) == stock[v] - ReservedBy(Sessions \ {s}, v)

LiveSessionsOf(u) == {s \in Sessions : Owner[s] = u /\ session[s].status \in LiveSession}

-----------------------------------------------------------------------------
(* The user's requests *)

\* Mutant: every checkout makes a new session.
AcquiredAfresh(u, s) == Owner[s] = u /\ session[s].status = "none"

\* The session a checkout of u works on: the live one, else a new row.
Acquired(u, s) ==
  IF LiveSessionsOf(u) # {}
  THEN s \in LiveSessionsOf(u)
  ELSE Owner[s] = u /\ session[s].status = "none"

\* Every row of the session after a successful checkout: one per cart line,
\* none for a variant no longer in the cart.
HeldRows(cart) ==
  [v \in Variants |->
     IF cart[v] > 0
     THEN [status |-> "reserved", quantity |-> cart[v], expires |-> now + ReservationTTL]
     ELSE NoReservation]

\* Mutant: a session in payment is reserved again.
ReservableAlways(s) == TRUE

\* A session in payment is returned as it is, its order is on its way.
Reservable(s) == session[s].status # "payment_processing"

\* POST /checkout: all lines are held, or none.
StartCheckout(u, s, cart) ==
  /\ now <= LastStart
  /\ Acquired(u, s) /\ Reservable(s)
  /\ \A v \in Variants : cart[v] > 0 => cart[v] <= AvailableTo(s, v)
  /\ session' = [session EXCEPT ![s] = [status |-> "active", expires |-> now + ReservationTTL]]
  /\ reservation' = [reservation EXCEPT ![s] = HeldRows(cart)]
  /\ UNCHANGED <<now, stock, sold, adjusted, order, payment, gateway>>

\* A session /pay accepts: a live hold with something left to pay for.
Payable(s) ==
  /\ session[s].status = "active" /\ session[s].expires > now
  /\ \E v \in Variants : reservation[s][v].status = "reserved"

\* The lines /pay converts, as the quantities of the order's items.
LinesToPay(s) ==
  [v \in Variants |-> IF reservation[s][v].status = "reserved" THEN reservation[s][v].quantity ELSE 0]

\* The part of /pay under the inventory locks: a guard on physical stock, the
\* pending order, the extended hold, and the gateway's order.
PlaceOrder(s, lines) ==
  /\ \A v \in Variants : lines[v] <= stock[v]
  /\ order' = [order EXCEPT ![s] = [status |-> "placed", pay |-> "pending", items |-> lines]]
  /\ payment' = [payment EXCEPT ![s] = NewPayment]
  /\ reservation' = [reservation EXCEPT ![s] =
       [v \in Variants |->
          IF @[v].status = "reserved"
          THEN [@[v] EXCEPT !.status = "payment_processing", !.expires = now + PaymentTTL]
          ELSE @[v]]]
  /\ session' = [session EXCEPT ![s] =
       [status |-> "payment_processing", expires |-> now + PaymentTTL]]
  /\ UNCHANGED <<now, stock, sold, adjusted, gateway>>

\* POST /checkout/{session_id}/pay
StartPayment(s) == Payable(s) /\ PlaceOrder(s, LinesToPay(s))

\* POST /checkout/{session_id}/cancel
CancelCheckout(s) ==
  /\ session[s].status \in LiveSession
  /\ reservation' = [reservation EXCEPT ![s] =
       [v \in Variants |->
          IF @[v].status \in ActiveReservation THEN [@[v] EXCEPT !.status = "cancelled"] ELSE @[v]]]
  /\ session' = [session EXCEPT ![s].status = "cancelled"]
  /\ order' = IF order[s].pay = "pending"
              THEN [order EXCEPT ![s] = [@ EXCEPT !.status = "cancelled", !.pay = "failed"]]
              ELSE order
  /\ UNCHANGED <<now, stock, sold, adjusted, payment, gateway>>

-----------------------------------------------------------------------------
(* The gateway (Razorpay): a payment may fail any number of times before it *)
(* is taken, and is taken once.  Every event carries its own id; a capture  *)
(* may be announced again under a new id.                                   *)

FreshEvent(s, id) ==
  \A j \in EventIds : j < id <=> (\E e \in gateway[s].events : e.id = j)

GatewayFails(s, id) ==
  /\ payment[s].status # "none" /\ ~gateway[s].taken /\ FreshEvent(s, id)
  /\ gateway' = [gateway EXCEPT ![s].events = @ \cup {[id |-> id, kind |-> "failed"]}]
  /\ UNCHANGED <<now, inventoryVars, holdVars, saleVars>>

GatewayCaptures(s, id) ==
  /\ payment[s].status # "none" /\ FreshEvent(s, id)
  /\ gateway' = [gateway EXCEPT ![s] =
       [taken |-> TRUE, events |-> @.events \cup {[id |-> id, kind |-> "captured"]}]]
  /\ UNCHANGED <<now, inventoryVars, holdVars, saleVars>>

-----------------------------------------------------------------------------
(* The webhook.  seenPay and seenOrd are the rows as the handler loaded them; *)
(* a column is written only where it differs from what was loaded.           *)

\* complete_sale and cancel_for_order: every row of the session, whatever its status.
TransitionSession(s, to) ==
  /\ reservation' = [reservation EXCEPT ![s] =
       [v \in Variants |-> IF @[v].status = "none" THEN @[v] ELSE [@[v] EXCEPT !.status = to]]]
  /\ session' = [session EXCEPT ![s].status = to]

\* Mutant: the capture is recorded and the refund forgotten.
RefundForgotten(row, id) == [row EXCEPT !.status = "captured", !.event = id]

\* The payment row of a capture that cannot be fulfilled.
RefundOwed(row, id) == [row EXCEPT !.status = "captured", !.event = id, !.refund = TRUE]

\* _record_capture_unfulfillable: the capture is kept, the order is not paid.
RecordRefund(s, id) ==
  /\ payment' = [payment EXCEPT ![s] = RefundOwed(@, id)]
  /\ UNCHANGED <<inventoryVars, holdVars, order>>

\* Mutant: no stock guard at capture.
FulfillableAlways(s) == TRUE

\* commit_sale checks the physical stock alone, under the inventory locks.
Fulfillable(s) == \A v \in Variants : order[s].items[v] <= stock[v]

\* _capture: stock leaves, the session completes, the order is paid.
ApplySale(s, id) ==
  /\ stock' = [v \in Variants |-> stock[v] - order[s].items[v]]
  /\ sold' = [v \in Variants |-> sold[v] + order[s].items[v]]
  /\ TransitionSession(s, "completed")
  /\ payment' = [payment EXCEPT ![s] = [@ EXCEPT !.status = "captured", !.event = id]]
  /\ order' = [order EXCEPT ![s].pay = "paid"]
  /\ UNCHANGED adjusted

\* Mutant: a payment that failed once is not captured any more.
RecordedUnlessCreated(seenPay) == seenPay.status # "created"

AlreadyCaptured(seenPay) == seenPay.status = "captured"

\* Mutant: a capture revives a cancelled order.
NeedsRefundOutOfStock(s, seenOrd) == ~Fulfillable(s)

\* The two ways a capture ends as a refund.
NeedsRefund(s, seenOrd) == seenOrd.status = "cancelled" \/ ~Fulfillable(s)

\* payment.captured
OnCaptured(s, id, seenPay, seenOrd) ==
  /\ seenPay.event # id
  /\ \/ /\ AlreadyCaptured(seenPay)
        /\ payment' = [payment EXCEPT ![s].event = id]
        /\ UNCHANGED <<inventoryVars, holdVars, order>>
     \/ ~AlreadyCaptured(seenPay) /\ NeedsRefund(s, seenOrd) /\ RecordRefund(s, id)
     \/ ~AlreadyCaptured(seenPay) /\ ~NeedsRefund(s, seenOrd) /\ ApplySale(s, id)
  /\ UNCHANGED <<now, gateway>>

\* Mutant: a failed event is applied whatever came before.
NeverSettled(seenPay, seenOrd) == FALSE

\* D5: a failure after the capture is not a status flip.
Settled(seenPay, seenOrd) == seenPay.status = "captured" \/ seenOrd.pay = "paid"

\* The failed payment row; the refund flag is a failure reason, which the
\* failure's own reason replaces, unless the row was loaded with that very reason.
FailPayment(s, id, seenPay) ==
  \/ /\ seenPay.status # "failed"
     /\ payment' = [payment EXCEPT ![s] = [@ EXCEPT !.status = "failed", !.event = id, !.refund = FALSE]]
  \/ /\ seenPay.status = "failed"
     /\ \/ payment' = [payment EXCEPT ![s] = [@ EXCEPT !.event = id, !.refund = FALSE]]
        \/ payment' = [payment EXCEPT ![s] = [@ EXCEPT !.event = id]]

\* payment.failed
OnFailed(s, id, seenPay, seenOrd) ==
  /\ seenPay.event # id /\ ~Settled(seenPay, seenOrd)
  /\ TransitionSession(s, "cancelled")
  /\ FailPayment(s, id, seenPay)
  /\ order' = [order EXCEPT ![s].pay = IF seenOrd.pay = "failed" THEN @ ELSE "failed"]
  /\ UNCHANGED <<now, inventoryVars, gateway>>

\* An emitted event may be delivered late, out of order and again.
Webhook(s, e) ==
  /\ e \in gateway[s].events
  /\ \/ e.kind = "captured" /\ OnCaptured(s, e.id, payment[s], order[s])
     \/ e.kind = "failed" /\ OnFailed(s, e.id, payment[s], order[s])

-----------------------------------------------------------------------------
(* The sweeper: both sweeps in one transaction, one leader per tick *)

Lapsed(row) == row.expires < now

\* Mutant: one sweep for both kinds of hold.
SweptReservationAlike(row) ==
  IF row.status \in ActiveReservation /\ Lapsed(row) THEN [row EXCEPT !.status = "expired"] ELSE row

SweptReservation(row) ==
  IF row.status = "reserved" /\ Lapsed(row) THEN [row EXCEPT !.status = "expired"]
  ELSE IF row.status = "payment_processing" /\ Lapsed(row) THEN [row EXCEPT !.status = "cancelled"]
  ELSE row

\* Mutant: no backstop for sessions in payment.
SweptSessionActiveOnly(row) ==
  IF row.status = "active" /\ Lapsed(row) THEN [row EXCEPT !.status = "expired"] ELSE row

SweptSession(row) ==
  IF row.status = "active" /\ Lapsed(row) THEN [row EXCEPT !.status = "expired"]
  ELSE IF row.status = "payment_processing" /\ Lapsed(row) THEN [row EXCEPT !.status = "cancelled"]
  ELSE row

\* Mutant: the backstop forgets the order.
SweptOrderForgotten(s) == order[s]

SweptOrder(s) ==
  IF session[s].status = "payment_processing" /\ Lapsed(session[s]) /\ order[s].pay = "pending"
  THEN [order[s] EXCEPT !.pay = "failed"]
  ELSE order[s]

Sweep ==
  /\ order' = [s \in Sessions |-> SweptOrder(s)]
  /\ reservation' = [s \in Sessions |-> [v \in Variants |-> SweptReservation(reservation[s][v])]]
  /\ session' = [s \in Sessions |-> SweptSession(session[s])]
  /\ UNCHANGED <<now, stock, sold, adjusted, payment, gateway>>

-----------------------------------------------------------------------------
(* The admin *)

\* Mutant: an order is packed before it is paid.
PackableUnpaid(row) == TRUE

Packable(row) == row.pay = "paid"

\* The allowed fulfilment steps; packing a gateway order needs its payment.
Fulfil(s, to) ==
  /\ \/ order[s].status = "placed" /\ to = "packed" /\ Packable(order[s])
     \/ order[s].status = "packed" /\ to = "shipped"
     \/ order[s].status = "shipped" /\ to = "delivered"
  /\ order' = [order EXCEPT ![s].status = to]
  /\ UNCHANGED <<now, inventoryVars, holdVars, payment, gateway>>

\* Mutant: every cancelled order is restocked.
StockAlwaysDecremented(row) == TRUE

\* D4: stock left only for a paid order.
StockWasDecremented(row) == row.pay = "paid"

\* cancel_order: restocks, or releases the hold.
AdminCancel(s, seenOrd) ==
  /\ seenOrd.status \notin {"none", "cancelled", "delivered"}
  /\ \/ /\ StockWasDecremented(seenOrd)
        /\ stock' = [v \in Variants |-> stock[v] + seenOrd.items[v]]
        /\ UNCHANGED holdVars
     \/ /\ ~StockWasDecremented(seenOrd)
        /\ TransitionSession(s, "cancelled")
        /\ UNCHANGED stock
  /\ order' = [order EXCEPT ![s].status = "cancelled"]
  /\ UNCHANGED <<now, sold, adjusted, payment, gateway>>

\* adjust: the target may not fall below what is held at that moment.
AdminAdjust(v, target) ==
  /\ target >= ReservedBy(Sessions, v)
  /\ target # stock[v]
  /\ stock' = [stock EXCEPT ![v] = target]
  /\ adjusted' = [adjusted EXCEPT ![v] = @ + target - stock[v]]
  /\ UNCHANGED <<now, sold, holdVars, saleVars, gateway>>

-----------------------------------------------------------------------------
(* The clock stops once every hold that was started can have lapsed. *)
Tick ==
  /\ now <= LastStart + ReservationTTL + PaymentTTL
  /\ now' = now + 1
  /\ UNCHANGED <<inventoryVars, holdVars, saleVars, gateway>>

UserNext ==
  \/ \E u \in Users, s \in Sessions, cart \in Carts : StartCheckout(u, s, cart)
  \/ \E s \in Sessions : StartPayment(s)
  \/ \E s \in Sessions : CancelCheckout(s)

GatewayNext ==
  \/ \E s \in Sessions, id \in EventIds : GatewayFails(s, id)
  \/ \E s \in Sessions, id \in EventIds : GatewayCaptures(s, id)

AdminNext ==
  \/ \E s \in Sessions, to \in OrderStatus : Fulfil(s, to)
  \/ \E s \in Sessions : AdminCancel(s, order[s])
  \/ \E v \in Variants, target \in 0..MaxStock : AdminAdjust(v, target)

Next ==
  \/ UserNext
  \/ GatewayNext
  \/ \E s \in Sessions, e \in Event : Webhook(s, e)
  \/ Sweep
  \/ AdminNext
  \/ Tick

Spec == Init /\ [][Next]_vars

\* Time passes, every worker's sweeper loop ticks again whatever happened to
\* the last tick, and the gateway redelivers an event until it is answered.
Fairness ==
  /\ WF_vars(Tick)
  /\ WF_vars(Sweep)
  /\ \A s \in Sessions, e \in Event : WF_vars(Webhook(s, e))

FairSpec == Spec /\ Fairness

-----------------------------------------------------------------------------
(* What must hold.  CheckoutRaces and the proofs use the same definitions. *)

\* Every row has the shape the schema gives it; stock is never negative
\* (the CHECK constraint a capture must not run into).
TypeOK ==
  /\ now \in Nat
  /\ stock \in [Variants -> Nat]
  /\ sold \in [Variants -> Nat]
  /\ adjusted \in [Variants -> Int]
  /\ session \in [Sessions -> SessionRow]
  /\ reservation \in [Sessions -> [Variants -> ReservationRow]]
  /\ order \in [Sessions -> OrderRow]
  /\ payment \in [Sessions -> PaymentRow]
  /\ gateway \in [Sessions -> GatewayState]

\* A user has at most one live checkout, however reloads, payments, cancels and
\* sweeps interleave (the partial unique index must never fire in normal use).
OneLiveSession ==
  \A s, t \in Sessions :
    /\ session[s].status \in LiveSession /\ session[t].status \in LiveSession
    /\ Owner[s] = Owner[t]
    => s = t

\* The status a session's reservations have when the session has this one.
StatusOfRows(status) == IF status = "active" THEN "reserved" ELSE status

\* A hold is one thing: every reservation of a session has the session's state
\* and its expiry, through every transition written as separate statements.
RowsFollowSession ==
  \A s \in Sessions, v \in Variants :
    reservation[s][v] # NoReservation =>
      /\ reservation[s][v].status = StatusOfRows(session[s].status)
      /\ reservation[s][v].expires = session[s].expires

\* An order asks for exactly what its checkout held, for as long as it exists,
\* so what a capture takes is what was reserved for it.
OrderMatchesHold ==
  \A s \in Sessions : order[s].status # "none" =>
    \A v \in Variants : order[s].items[v] = reservation[s][v].quantity

\* An order still waiting for its payment is backed by a checkout in payment:
\* the backstop sweep, which goes by the session, will find it.
AwaitedPaymentIsHeld ==
  \A s \in Sessions :
    order[s].status = "placed" /\ order[s].pay = "pending" =>
      session[s].status = "payment_processing"

\* Money the gateway took and the shop recorded either paid for the order or is
\* flagged for a refund, never both; goods leave only for a paid order; and a
\* checkout is completed exactly when its order is paid.
MoneyAccounted ==
  \A s \in Sessions :
    /\ payment[s].status = "captured" => gateway[s].taken
    /\ payment[s].status = "captured" <=> (order[s].pay = "paid" \/ payment[s].refund)
    /\ ~(order[s].pay = "paid" /\ payment[s].refund)
    /\ order[s].pay = "paid" <=> session[s].status = "completed"
    /\ order[s].status \in {"packed", "shipped", "delivered"} => order[s].pay = "paid"

Sold(S, v) == MapThenSumSet(LAMBDA s : order[s].items[v], S)
PaidOrders == {s \in Sessions : order[s].pay = "paid"}
KeptOrders == {s \in PaidOrders : order[s].status # "cancelled"}

\* Every unit is accounted for: what left the shelf is what the paid orders that
\* were not cancelled took, each of them once, corrected by the admin's deltas.
EveryUnitAccountedFor ==
  \A v \in Variants :
    /\ sold[v] = Sold(PaidOrders, v)
    /\ stock[v] = InitialStock[v] + adjusted[v] - Sold(KeptOrders, v)

\* How many held units of a variant are not on the shelf.
Deficit(v) ==
  IF ReservedBy(Sessions, v) > stock[v] THEN ReservedBy(Sessions, v) - stock[v] ELSE 0

\* "reservations are always backed by stock" (AdminInventoryService.adjust).
ReservationsBackedByStock == \A v \in Variants : Deficit(v) = 0

InTime(s) == session[s].status = "payment_processing" /\ session[s].expires > now

\* No step takes a unit from under somebody's live hold, except the capture of
\* an order whose own hold had been released or had lapsed.
OnlyLateCaptureEatsAHold ==
  [][\A v \in Variants : Deficit(v)' > Deficit(v) =>
       \E s \in Sessions : order[s].pay # "paid" /\ order'[s].pay = "paid" /\ ~InTime(s)]_vars

\* A customer who pays within the hold gets the goods: such a capture is turned
\* into a refund only where a late capture has eaten a hold before.
HoldInTimeIsHonoured ==
  [][\A s \in Sessions : ~payment[s].refund /\ payment'[s].refund /\ InTime(s) =>
       \E v \in Variants : Deficit(v) > 0]_vars

\* A cancelled order stays cancelled and is never paid for afterwards: a capture
\* that arrives later must not revive it.
CancelledIsFinal ==
  [][\A s \in Sessions : order[s].status = "cancelled" =>
       /\ order'[s].status = "cancelled"
       /\ order'[s].pay = "paid" => order[s].pay = "paid"]_vars

\* No later event regresses a paid order or reopens its checkout: not a failed
\* event delivered late, not a sweep, not an admin.
PaidIsFinal ==
  [][\A s \in Sessions : order[s].pay = "paid" =>
       order'[s].pay = "paid" /\ session'[s] = session[s] /\ payment'[s].status = "captured"]_vars

\* Every checkout ends, so no hold keeps stock for ever.
EveryCheckoutEnds ==
  \A s \in Sessions : session[s].status \in LiveSession ~> session[s].status \notin LiveSession

\* Every order that waits for its payment is decided.
EveryOrderIsDecided ==
  \A s \in Sessions :
    (order[s].status = "placed" /\ order[s].pay = "pending")
      ~> ~(order[s].status = "placed" /\ order[s].pay = "pending")

\* Money the gateway took is eventually recorded, as a sale or as a refund owed,
\* whatever was failed, swept or cancelled in between.
EveryCaptureIsRecorded ==
  \A s \in Sessions :
    gateway[s].taken ~> (order[s].pay = "paid" \/ payment[s].refund)
=============================================================================
