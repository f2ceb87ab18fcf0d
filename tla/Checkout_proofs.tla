--------------------------- MODULE Checkout_proofs ---------------------------
(* The invariant behind Checkout, and what follows from it for any number of *)
(* users, variants, sessions and events.                                     *)
EXTENDS CheckoutSettlement, SumLemmas

-----------------------------------------------------------------------------
(* The inductive invariant *)

\* How the rows of one session, its order and its payment go together.
Linked(s) ==
  /\ session[s].status = "none" => \A v \in Variants : reservation[s][v] = NoReservation
  /\ session[s].status \in {"none", "active", "expired"} => order[s].status = "none"
  /\ session[s].status = "payment_processing" => order[s].status = "placed" /\ order[s].pay = "pending"
  /\ order[s].status = "none" => order[s] = NoOrder /\ payment[s] = NoPayment
  /\ order[s].status # "none" => order[s].pay # "none" /\ payment[s].status # "none"
  /\ gateway[s].events # {} => order[s].status # "none"
  /\ \A e \in gateway[s].events : e.kind = "captured" => gateway[s].taken

SessionInv(s) ==
  /\ \A v \in Variants : reservation[s][v] # NoReservation =>
       /\ reservation[s][v].status = StatusOfRows(session[s].status)
       /\ reservation[s][v].expires = session[s].expires
  /\ order[s].status # "none" => \A v \in Variants : order[s].items[v] = reservation[s][v].quantity
  /\ order[s].status = "placed" /\ order[s].pay = "pending" => session[s].status = "payment_processing"
  /\ payment[s].status = "captured" => gateway[s].taken
  /\ payment[s].status = "captured" <=> (order[s].pay = "paid" \/ payment[s].refund)
  /\ ~(order[s].pay = "paid" /\ payment[s].refund)
  /\ order[s].pay = "paid" <=> session[s].status = "completed"
  /\ order[s].status \in {"packed", "shipped", "delivered"} => order[s].pay = "paid"
  /\ Linked(s)

IInv == TypeOK /\ OneLiveSession /\ \A s \in Sessions : SessionInv(s)

\* The safety invariants the runs check are parts of it.
LEMMA IInvParts ==
  IInv => RowsFollowSession /\ OrderMatchesHold /\ AwaitedPaymentIsHeld /\ MoneyAccounted
BY DEF IInv, SessionInv, RowsFollowSession, OrderMatchesHold, AwaitedPaymentIsHeld, MoneyAccounted

\* Only the rows of a session matter to its part of the invariant.
LEMMA Frame ==
  ASSUME NEW s \in Sessions, SessionInv(s),
         session'[s] = session[s], reservation'[s] = reservation[s], order'[s] = order[s],
         payment'[s] = payment[s], gateway'[s] = gateway[s]
  PROVE  SessionInv(s)'
BY DEF SessionInv, Linked, StatusOfRows, NoReservation, NoOrder, NoPayment

\* An action on one session that makes no session live keeps the invariant when
\* it keeps the types and that session's part.
LEMMA OneSession ==
  ASSUME IInv, NEW s \in Sessions, TypeOK', SessionInv(s)',
         session'[s].status \in LiveSession => session[s].status \in LiveSession,
         \A t \in Sessions \ {s} :
           /\ session'[t] = session[t] /\ reservation'[t] = reservation[t] /\ order'[t] = order[t]
           /\ payment'[t] = payment[t] /\ gateway'[t] = gateway[t]
  PROVE  IInv'
<1>1. OneLiveSession'
  BY DEF IInv, OneLiveSession
<1>2. \A t \in Sessions : SessionInv(t)'
  BY Frame DEF IInv
<1> QED BY <1>1, <1>2 DEF IInv

-----------------------------------------------------------------------------
(* Every step keeps it *)

\* The shop opens without a session, an order or a hold.
LEMMA InitIInv == Init => IInv
<1> SUFFICES ASSUME Init PROVE IInv
  OBVIOUS
<1> USE SetsAssumption, NumbersAssumption
    DEF Init, NoSession, NoReservation, NoOrder, NoPayment
<1>1. TypeOK
  BY DEF TypeOK, SessionRow, ReservationRow, OrderRow, PaymentRow, GatewayState, Event,
         SessionStatus, ReservationStatus, OrderStatus, PaymentStatus, GatewayStatus, NoEvent
<1>2. OneLiveSession
  BY DEF OneLiveSession, LiveSession
<1>3. \A s \in Sessions : SessionInv(s)
  BY DEF SessionInv, Linked
<1> QED BY <1>1, <1>2, <1>3 DEF IInv

\* A new checkout takes the place of the old one and holds its units.
LEMMA StartCheckoutIInv ==
  ASSUME IInv, NEW u \in Users, NEW s \in Sessions, NEW cart \in Carts, StartCheckout(u, s, cart)
  PROVE  IInv'
<1> USE SetsAssumption, NumbersAssumption DEF IInv, StartCheckout
<1>0. session[s].status \in {"none", "active"} /\ order[s].status = "none" /\ Owner[s] = u
  BY DEF Acquired, Reservable, LiveSessionsOf, LiveSession, SessionInv, Linked
<1>1. TypeOK'
  BY DEF TypeOK, SessionRow, ReservationRow, SessionStatus, ReservationStatus, HeldRows, NoReservation
<1>2. OneLiveSession'
  BY <1>0 DEF OneLiveSession, LiveSession, Acquired, LiveSessionsOf, TypeOK, SessionRow
<1>3. \A t \in Sessions \ {s} : SessionInv(t)'
  BY Frame DEF TypeOK
<1>4. SessionInv(s)'
  BY <1>0 DEF SessionInv, Linked, HeldRows, StatusOfRows, TypeOK, NoOrder, NoPayment, NoReservation
<1> QED BY <1>1, <1>2, <1>3, <1>4

\* What /pay converts is what the session holds.
LEMMA LinesAreHeld ==
  ASSUME IInv, NEW s \in Sessions, session[s].status = "active"
  PROVE  /\ LinesToPay(s) \in [Variants -> Nat]
         /\ \A v \in Variants : LinesToPay(s)[v] = reservation[s][v].quantity
<1>1. \A v \in Variants : reservation[s][v] \in ReservationRow
  BY DEF IInv, TypeOK
<1>2. \A v \in Variants : reservation[s][v].quantity \in Nat
  BY <1>1 DEF ReservationRow
<1>3. \A v \in Variants : reservation[s][v].status # "reserved" => reservation[s][v].quantity = 0
  BY DEF IInv, SessionInv, StatusOfRows, NoReservation
<1> QED BY <1>2, <1>3 DEF LinesToPay

\* What /pay does under the inventory locks, to a hold that may have lapsed since
\* its expiry was looked at.
HoldBecomesOrder(s) == session[s].status = "active" /\ PlaceOrder(s, LinesToPay(s))

\* /pay as one transaction looks at the expiry as well.
LEMMA PaymentIsForAHold == ASSUME NEW s, StartPayment(s) PROVE HoldBecomesOrder(s)
BY DEF StartPayment, Payable, HoldBecomesOrder

\* The order is for the units that are held.
LEMMA PayIInv ==
  ASSUME IInv, NEW s \in Sessions, HoldBecomesOrder(s)
  PROVE  IInv'
<1> DEFINE lines == LinesToPay(s)
           until == now + PaymentTTL
<1>0. session[s].status = "active" /\ order[s].status = "none" /\ payment[s] = NoPayment
  BY DEF IInv, SessionInv, Linked, HoldBecomesOrder
<1>1. lines \in [Variants -> Nat] /\ \A v \in Variants : lines[v] = reservation[s][v].quantity
  BY <1>0, LinesAreHeld
<1>2. /\ session' = [session EXCEPT ![s] = [status |-> "payment_processing", expires |-> until]]
      /\ order' = [order EXCEPT ![s] = [status |-> "placed", pay |-> "pending", items |-> lines]]
      /\ payment' = [payment EXCEPT ![s] = NewPayment]
      /\ UNCHANGED <<now, stock, sold, adjusted, gateway>>
  BY DEF HoldBecomesOrder, PlaceOrder
<1>3. reservation' = [reservation EXCEPT ![s] = reservation'[s]]
      /\ \A v \in Variants :
           reservation'[s][v] = IF reservation[s][v].status = "reserved"
                                THEN [reservation[s][v] EXCEPT !.status = "payment_processing", !.expires = until]
                                ELSE reservation[s][v]
  BY DEF HoldBecomesOrder, PlaceOrder, IInv, TypeOK
<1>4. until \in Nat
  BY NumbersAssumption DEF IInv, TypeOK
<1>5. \A v \in Variants :
        /\ reservation'[s][v] \in ReservationRow
        /\ reservation'[s][v].quantity = reservation[s][v].quantity
        /\ reservation'[s][v] # NoReservation =>
             reservation'[s][v].status = "payment_processing" /\ reservation'[s][v].expires = until
  <2> SUFFICES ASSUME NEW v \in Variants
               PROVE  /\ reservation'[s][v] \in ReservationRow
                      /\ reservation'[s][v].quantity = reservation[s][v].quantity
                      /\ reservation'[s][v] # NoReservation =>
                           /\ reservation'[s][v].status = "payment_processing"
                           /\ reservation'[s][v].expires = until
    OBVIOUS
  <2>1. reservation[s][v] \in ReservationRow
    BY DEF IInv, TypeOK
  <2>2. reservation[s][v].status = "reserved" \/ reservation[s][v] = NoReservation
    BY <1>0 DEF IInv, SessionInv, StatusOfRows
  <2> QED BY <1>3, <1>4, <2>1, <2>2 DEF ReservationRow, ReservationStatus, NoReservation
<1>6. TypeOK'
  <2>1. session' \in [Sessions -> SessionRow] /\ order' \in [Sessions -> OrderRow]
    BY <1>1, <1>2, <1>4 DEF IInv, TypeOK, SessionRow, SessionStatus, OrderRow, OrderStatus, PaymentStatus
  <2>2. payment' \in [Sessions -> PaymentRow]
    BY <1>2 DEF IInv, TypeOK, PaymentRow, GatewayStatus, NewPayment, NoEvent
  <2>3. reservation' \in [Sessions -> [Variants -> ReservationRow]]
    <3>1. reservation'[s] \in [Variants -> ReservationRow]
      BY <1>5 DEF HoldBecomesOrder, PlaceOrder, IInv, TypeOK
    <3> QED BY <1>3, <3>1 DEF IInv, TypeOK
  <2> QED BY <1>2, <2>1, <2>2, <2>3 DEF IInv, TypeOK
<1>7. /\ session'[s].status = "payment_processing" /\ session'[s].expires = until
      /\ order'[s].status = "placed" /\ order'[s].pay = "pending" /\ order'[s].items = lines
      /\ payment'[s].status = "created" /\ ~payment'[s].refund
      /\ gateway'[s] = gateway[s]
  BY <1>2 DEF IInv, TypeOK, NewPayment
<1>8. SessionInv(s)'
  BY <1>1, <1>5, <1>7 DEF IInv, SessionInv, Linked, StatusOfRows
<1>9. \A t \in Sessions \ {s} :
        /\ session'[t] = session[t] /\ reservation'[t] = reservation[t] /\ order'[t] = order[t]
        /\ payment'[t] = payment[t] /\ gateway'[t] = gateway[t]
  BY <1>2, <1>3 DEF IInv, TypeOK
<1> QED BY <1>0, <1>6, <1>8, <1>9, OneSession DEF LiveSession

\* Cancelling gives the hold back and closes the order that was not paid.
LEMMA CancelCheckoutIInv ==
  ASSUME IInv, NEW s \in Sessions, CancelCheckout(s)
  PROVE  IInv'
<1>0. session[s].status \in {"active", "payment_processing"}
  BY DEF CancelCheckout, LiveSession
<1>1. /\ session' = [session EXCEPT ![s] = [session[s] EXCEPT !.status = "cancelled"]]
      /\ order' = [order EXCEPT ![s] = order'[s]]
      /\ reservation' = [reservation EXCEPT ![s] = reservation'[s]]
      /\ UNCHANGED <<now, stock, sold, adjusted, payment, gateway>>
  BY DEF CancelCheckout, IInv, TypeOK
<1>2. /\ session'[s] \in SessionRow
      /\ session'[s].status = "cancelled" /\ session'[s].expires = session[s].expires
  <2>1. session[s] \in SessionRow
    BY DEF IInv, TypeOK
  <2> QED BY <1>1, <2>1 DEF IInv, TypeOK, SessionRow, SessionStatus
<1>3. \A v \in Variants :
        /\ reservation'[s][v] \in ReservationRow
        /\ reservation'[s][v].quantity = reservation[s][v].quantity
        /\ reservation'[s][v] # NoReservation =>
             reservation'[s][v].status = "cancelled" /\ reservation'[s][v].expires = session[s].expires
  <2> TAKE v \in Variants
  <2>1. reservation[s][v] \in ReservationRow
    BY DEF IInv, TypeOK
  <2>2. reservation'[s][v] = IF reservation[s][v].status \in ActiveReservation
                             THEN [reservation[s][v] EXCEPT !.status = "cancelled"] ELSE reservation[s][v]
    BY DEF CancelCheckout, IInv, TypeOK
  <2>3. reservation[s][v] = NoReservation
        \/ (reservation[s][v].status \in ActiveReservation /\ reservation[s][v].expires = session[s].expires)
    BY <1>0 DEF IInv, SessionInv, StatusOfRows, ActiveReservation
  <2> QED BY <2>1, <2>2, <2>3 DEF ReservationRow, ReservationStatus, ActiveReservation, NoReservation
<1>4. \/ session[s].status = "active" /\ order[s].status = "none" /\ order'[s] = order[s]
      \/ /\ session[s].status = "payment_processing"
         /\ order'[s] = [order[s] EXCEPT !.status = "cancelled", !.pay = "failed"]
  BY <1>0 DEF CancelCheckout, IInv, TypeOK, SessionInv, Linked, NoOrder
<1>5. /\ order'[s] \in OrderRow /\ order'[s].items = order[s].items /\ order'[s].pay # "paid"
      /\ \/ order'[s].status = "none" /\ order'[s] = order[s]
         \/ order'[s].status = "cancelled" /\ order'[s].pay = "failed" /\ order[s].status = "placed"
  <2>1. order[s] \in OrderRow
    BY DEF IInv, TypeOK
  <2> QED BY <1>4, <2>1 DEF OrderRow, OrderStatus, PaymentStatus, IInv, SessionInv, Linked
<1>6. TypeOK'
  <2>1. reservation'[s] \in [Variants -> ReservationRow]
    BY <1>3 DEF CancelCheckout, IInv, TypeOK
  <2> QED BY <1>1, <1>2, <1>5, <2>1 DEF IInv, TypeOK
<1>7. SessionInv(s)'
  BY <1>0, <1>1, <1>2, <1>3, <1>5 DEF IInv, SessionInv, Linked, StatusOfRows
<1>8. \A t \in Sessions \ {s} :
        /\ session'[t] = session[t] /\ reservation'[t] = reservation[t] /\ order'[t] = order[t]
        /\ payment'[t] = payment[t] /\ gateway'[t] = gateway[t]
  BY <1>1 DEF IInv, TypeOK
<1> QED BY <1>2, <1>6, <1>7, <1>8, OneSession DEF LiveSession

\* What happens at the gateway leaves the shop alone.
LEMMA GatewayIInv ==
  ASSUME IInv, NEW s \in Sessions, NEW id \in EventIds, GatewayFails(s, id) \/ GatewayCaptures(s, id)
  PROVE  IInv'
<1>0. gateway \in [Sessions -> GatewayState] /\ gateway[s] \in GatewayState
  BY DEF IInv, TypeOK
<1>1. PICK new : /\ gateway' = [gateway EXCEPT ![s] = new]
                 /\ \/ new = [gateway[s] EXCEPT !.events = @ \cup {[id |-> id, kind |-> "failed"]}]
                    \/ new = [taken |-> TRUE, events |-> gateway[s].events \cup {[id |-> id, kind |-> "captured"]}]
  BY DEF GatewayFails, GatewayCaptures
<1>2. UNCHANGED <<now, stock, sold, adjusted, session, reservation, order, payment>>
  BY DEF GatewayFails, GatewayCaptures, inventoryVars, holdVars, saleVars
<1>3. new \in GatewayState
  <2>1. gateway[s].events \subseteq Event /\ gateway[s].taken \in BOOLEAN
    BY <1>0 DEF GatewayState
  <2>2. [id |-> id, kind |-> "failed"] \in Event /\ [id |-> id, kind |-> "captured"] \in Event
    BY DEF Event
  <2>3. CASE new = [gateway[s] EXCEPT !.events = @ \cup {[id |-> id, kind |-> "failed"]}]
    BY <1>0, <2>1, <2>2, <2>3 DEF GatewayState
  <2>4. CASE new = [taken |-> TRUE, events |-> gateway[s].events \cup {[id |-> id, kind |-> "captured"]}]
    <3>1. gateway[s].events \cup {[id |-> id, kind |-> "captured"]} \in SUBSET Event
      BY <2>1, <2>2
    <3> QED BY <2>4, <3>1 DEF GatewayState
  <2> QED BY <1>1, <2>3, <2>4
<1>4. /\ gateway[s].taken => new.taken
      /\ \A e \in new.events : e \in gateway[s].events \/ (e.kind = "captured" => new.taken)
  BY <1>0, <1>1 DEF GatewayState
<1>5. order[s].status # "none"
  BY DEF GatewayFails, GatewayCaptures, IInv, SessionInv, Linked, NoPayment
<1>6. gateway' \in [Sessions -> GatewayState] /\ gateway'[s] = new
  BY <1>0, <1>1, <1>3
<1>7. TypeOK'
  BY <1>2, <1>6 DEF IInv, TypeOK
<1>8. SessionInv(s)'
  <2>1. \A e \in gateway'[s].events : e.kind = "captured" => gateway'[s].taken
    BY <1>4, <1>6 DEF IInv, SessionInv, Linked
  <2> QED BY <1>2, <1>4, <1>5, <1>6, <2>1 DEF IInv, SessionInv, Linked, StatusOfRows, NoReservation
<1>9. \A t \in Sessions \ {s} : gateway'[t] = gateway[t]
  BY <1>0, <1>1
<1> QED BY <1>2, <1>7, <1>8, <1>9, OneSession

\* complete_sale, cancel_for_order: the whole hold gets the new state at once.
LEMMA Transition ==
  ASSUME IInv, NEW s \in Sessions, NEW to \in {"completed", "cancelled"}, TransitionSession(s, to)
  PROVE  /\ session' = [session EXCEPT ![s] = session'[s]]
         /\ reservation' = [reservation EXCEPT ![s] = reservation'[s]]
         /\ session' \in [Sessions -> SessionRow]
         /\ reservation' \in [Sessions -> [Variants -> ReservationRow]]
         /\ session'[s].status = to /\ session'[s].expires = session[s].expires
         /\ \A v \in Variants :
              /\ reservation'[s][v].quantity = reservation[s][v].quantity
              /\ reservation'[s][v] # NoReservation =>
                   reservation'[s][v].status = to /\ reservation'[s][v].expires = session[s].expires
<1>1. /\ session' = [session EXCEPT ![s] = [session[s] EXCEPT !.status = to]]
      /\ reservation' = [reservation EXCEPT ![s] = reservation'[s]]
  BY DEF TransitionSession, IInv, TypeOK
<1>2. /\ session'[s] \in SessionRow
      /\ session'[s].status = to /\ session'[s].expires = session[s].expires
  <2>1. session[s] \in SessionRow
    BY DEF IInv, TypeOK
  <2> QED BY <1>1, <2>1 DEF IInv, TypeOK, SessionRow, SessionStatus
<1>3. \A v \in Variants :
        /\ reservation'[s][v] \in ReservationRow
        /\ reservation'[s][v].quantity = reservation[s][v].quantity
        /\ reservation'[s][v] # NoReservation =>
             reservation'[s][v].status = to /\ reservation'[s][v].expires = session[s].expires
  <2> TAKE v \in Variants
  <2>1. reservation[s][v] \in ReservationRow
    BY DEF IInv, TypeOK
  <2>2. reservation'[s][v] = IF reservation[s][v].status = "none" THEN reservation[s][v]
                             ELSE [reservation[s][v] EXCEPT !.status = to]
    BY DEF TransitionSession, IInv, TypeOK
  <2>3. \/ reservation[s][v] = NoReservation
        \/ reservation[s][v].status # "none" /\ reservation[s][v].expires = session[s].expires
    BY DEF IInv, SessionInv, Linked, StatusOfRows
  <2> QED BY <2>1, <2>2, <2>3 DEF ReservationRow, ReservationStatus, NoReservation
<1>4. reservation'[s] \in [Variants -> ReservationRow]
  BY <1>3 DEF TransitionSession, IInv, TypeOK
<1> QED BY <1>1, <1>2, <1>3, <1>4 DEF IInv, TypeOK

\* A capture sells the order once, or notes that a refund is owed.
LEMMA CapturedIInv ==
  ASSUME IInv, NEW s \in Sessions, NEW e \in Event, e \in gateway[s].events, e.kind = "captured",
         OnCaptured(s, e.id, payment[s], order[s])
  PROVE  IInv'
<1>0. /\ gateway[s].taken /\ e.id \in EventIds
      /\ order[s] \in OrderRow /\ payment[s] \in PaymentRow /\ stock \in [Variants -> Nat]
  BY DEF IInv, TypeOK, SessionInv, Linked, Event
<1>1. now' = now /\ gateway' = gateway
  BY DEF OnCaptured
<1>2. CASE AlreadyCaptured(payment[s])
  <2>1. /\ payment' = [payment EXCEPT ![s] = payment'[s]]
        /\ payment'[s] = [payment[s] EXCEPT !.event = e.id]
        /\ UNCHANGED <<stock, sold, adjusted, session, reservation, order>>
    BY <1>2 DEF OnCaptured, inventoryVars, holdVars, IInv, TypeOK
  <2>2. /\ payment'[s] \in PaymentRow
        /\ payment'[s].status = payment[s].status /\ payment'[s].refund = payment[s].refund
    BY <1>0, <2>1 DEF PaymentRow
  <2>3. TypeOK'
    BY <1>1, <2>1, <2>2 DEF IInv, TypeOK
  <2>4. SessionInv(s)'
    BY <1>1, <1>2, <2>1, <2>2 DEF IInv, SessionInv, Linked, StatusOfRows, AlreadyCaptured, NoPayment, NoReservation
  <2>5. \A t \in Sessions \ {s} : payment'[t] = payment[t]
    BY <2>1 DEF IInv, TypeOK
  <2> QED BY <1>1, <2>1, <2>3, <2>4, <2>5, OneSession
<1>3. CASE ~AlreadyCaptured(payment[s]) /\ NeedsRefund(s, order[s])
  <2>1. /\ payment' = [payment EXCEPT ![s] = payment'[s]]
        /\ payment'[s] = [payment[s] EXCEPT !.status = "captured", !.event = e.id, !.refund = TRUE]
        /\ UNCHANGED <<stock, sold, adjusted, session, reservation, order>>
    BY <1>3 DEF OnCaptured, RecordRefund, RefundOwed, inventoryVars, holdVars, IInv, TypeOK
  <2>2. payment'[s] \in PaymentRow /\ payment'[s].status = "captured" /\ payment'[s].refund
    BY <1>0, <2>1 DEF PaymentRow, GatewayStatus
  <2>3. TypeOK'
    BY <1>1, <2>1, <2>2 DEF IInv, TypeOK
  <2>4. order[s].status # "none"
    BY DEF IInv, SessionInv, Linked
  <2>5. SessionInv(s)'
    BY <1>0, <1>1, <1>3, <2>1, <2>2, <2>4
    DEF IInv, SessionInv, Linked, StatusOfRows, AlreadyCaptured, NoReservation
  <2>6. \A t \in Sessions \ {s} : payment'[t] = payment[t]
    BY <2>1 DEF IInv, TypeOK
  <2> QED BY <1>1, <2>1, <2>3, <2>5, <2>6, OneSession
<1>4. CASE ~AlreadyCaptured(payment[s]) /\ ~NeedsRefund(s, order[s])
  <2>1. ApplySale(s, e.id)
    BY <1>4 DEF OnCaptured
  <2>2. /\ payment' = [payment EXCEPT ![s] = payment'[s]]
        /\ payment'[s] = [payment[s] EXCEPT !.status = "captured", !.event = e.id]
        /\ order' = [order EXCEPT ![s] = order'[s]]
        /\ order'[s] = [order[s] EXCEPT !.pay = "paid"]
    BY <2>1 DEF ApplySale, IInv, TypeOK
  <2>3. payment'[s] \in PaymentRow /\ payment'[s].status = "captured" /\ payment'[s].refund = payment[s].refund
    BY <1>0, <2>2 DEF PaymentRow, GatewayStatus
  <2>4. /\ order'[s] \in OrderRow /\ order'[s].pay = "paid"
        /\ order'[s].status = order[s].status /\ order'[s].items = order[s].items
    BY <1>0, <2>2 DEF OrderRow, PaymentStatus
  <2>5. stock' \in [Variants -> Nat] /\ sold' \in [Variants -> Nat] /\ adjusted' = adjusted
    <3>1. \A v \in Variants : order[s].items[v] \in Nat /\ order[s].items[v] <= stock[v]
      BY <1>0, <1>4 DEF NeedsRefund, Fulfillable, OrderRow
    <3>2. \A v \in Variants : stock[v] - order[s].items[v] \in Nat /\ sold[v] + order[s].items[v] \in Nat
      BY <1>0, <3>1 DEF IInv, TypeOK
    <3> QED BY <2>1, <3>2 DEF ApplySale
  <2>6. TransitionSession(s, "completed")
    BY <2>1 DEF ApplySale
  <2>7. order[s].status # "none" /\ ~payment[s].refund
    BY <1>4 DEF AlreadyCaptured, IInv, SessionInv, Linked
  <2>8. TypeOK'
    <3>1. payment' \in [Sessions -> PaymentRow]
      BY <2>2, <2>3 DEF IInv, TypeOK
    <3>2. order' \in [Sessions -> OrderRow]
      BY <2>2, <2>4 DEF IInv, TypeOK
    <3>3. session' \in [Sessions -> SessionRow] /\ reservation' \in [Sessions -> [Variants -> ReservationRow]]
      BY <2>6, Transition
    <3> QED BY <1>1, <2>5, <3>1, <3>2, <3>3 DEF IInv, TypeOK
  <2>9. SessionInv(s)'
    BY <1>0, <1>1, <2>3, <2>4, <2>6, <2>7, Transition DEF IInv, SessionInv, Linked, StatusOfRows
  <2>10. \A t \in Sessions \ {s} :
          /\ session'[t] = session[t] /\ reservation'[t] = reservation[t] /\ order'[t] = order[t]
          /\ payment'[t] = payment[t] /\ gateway'[t] = gateway[t]
    BY <1>1, <2>2, <2>6, Transition DEF IInv, TypeOK
  <2>11. session'[s].status = "completed"
    BY <2>6, Transition
  <2> QED BY <2>8, <2>9, <2>10, <2>11, OneSession DEF LiveSession
<1> QED BY <1>2, <1>3, <1>4

\* A failed payment gives the hold back.
LEMMA FailedIInv ==
  ASSUME IInv, NEW s \in Sessions, NEW e \in Event, e \in gateway[s].events,
         OnFailed(s, e.id, payment[s], order[s])
  PROVE  IInv'
<1>0. /\ order[s] \in OrderRow /\ payment[s] \in PaymentRow /\ e.id \in EventIds
      /\ order[s].status # "none" /\ order[s].pay # "paid" /\ ~payment[s].refund
      /\ payment[s].status # "captured"
  BY DEF OnFailed, Settled, IInv, TypeOK, SessionInv, Linked, Event
<1>1. /\ TransitionSession(s, "cancelled")
      /\ UNCHANGED <<now, stock, sold, adjusted, gateway>>
  BY DEF OnFailed, inventoryVars
<1>2. PICK row \in PaymentRow :
        row.status = "failed" /\ ~row.refund /\ payment' = [payment EXCEPT ![s] = row]
  <2>1. CASE payment' = [payment EXCEPT ![s] =
                [payment[s] EXCEPT !.status = "failed", !.event = e.id, !.refund = FALSE]]
    BY <1>0, <2>1 DEF PaymentRow, GatewayStatus
  <2>2. CASE payment[s].status = "failed" /\ payment' = [payment EXCEPT ![s] =
                [payment[s] EXCEPT !.event = e.id, !.refund = FALSE]]
    BY <1>0, <2>2 DEF PaymentRow
  <2>3. CASE payment[s].status = "failed" /\ payment' = [payment EXCEPT ![s] =
                [payment[s] EXCEPT !.event = e.id]]
    BY <1>0, <2>3 DEF PaymentRow
  <2> QED BY <2>1, <2>2, <2>3 DEF OnFailed, FailPayment, IInv, TypeOK
<1>3. /\ payment'[s] \in PaymentRow /\ payment'[s].status = "failed" /\ ~payment'[s].refund
      /\ payment' \in [Sessions -> PaymentRow]
      /\ \A t \in Sessions \ {s} : payment'[t] = payment[t]
  BY <1>2 DEF IInv, TypeOK
<1>4. /\ order'[s] \in OrderRow /\ order'[s].pay = "failed"
      /\ order'[s].status = order[s].status /\ order'[s].items = order[s].items
      /\ order' \in [Sessions -> OrderRow] /\ \A t \in Sessions \ {s} : order'[t] = order[t]
  <2>1. order' = [order EXCEPT ![s] = [order[s] EXCEPT !.pay = "failed"]]
    BY <1>0 DEF OnFailed, IInv, TypeOK, OrderRow
  <2> QED BY <1>0, <2>1 DEF IInv, TypeOK, OrderRow, PaymentStatus
<1>5. TypeOK'
  BY <1>1, <1>3, <1>4, Transition DEF IInv, TypeOK
<1>6. SessionInv(s)'
  BY <1>0, <1>1, <1>3, <1>4, Transition DEF IInv, SessionInv, Linked, StatusOfRows
<1>7. \A t \in Sessions \ {s} :
        /\ session'[t] = session[t] /\ reservation'[t] = reservation[t] /\ order'[t] = order[t]
        /\ payment'[t] = payment[t] /\ gateway'[t] = gateway[t]
  BY <1>1, <1>3, <1>4, Transition DEF IInv, TypeOK
<1>8. session'[s].status = "cancelled"
  BY <1>1, Transition
<1> QED BY <1>5, <1>6, <1>7, <1>8, OneSession DEF LiveSession

\* A webhook acts once, as the gateway had decided.
LEMMA WebhookIInv ==
  ASSUME IInv, NEW s \in Sessions, NEW e \in Event, Webhook(s, e)
  PROVE  IInv'
BY CapturedIInv, FailedIInv DEF Webhook

\* A reservation that does not exist is none of the sweep's business.
LEMMA NoRowIsSwept == SweptReservation(NoReservation) = NoReservation
<1>1. NoReservation.status = "none"
  BY DEF NoReservation
<1> QED BY <1>1 DEF SweptReservation

\* What a sweep makes of one session: nothing, or the end of a lapsed hold.
LEMMA SweepOneSession ==
  ASSUME IInv, NEW s \in Sessions, Sweep
  PROVE  /\ session'[s] \in SessionRow /\ order'[s] \in OrderRow
         /\ \A v \in Variants : reservation'[s][v] \in ReservationRow
         /\ session'[s].status \in LiveSession => session[s].status \in LiveSession
         /\ SessionInv(s)'
<1>0. /\ session[s] \in SessionRow /\ order[s] \in OrderRow
      /\ \A v \in Variants : reservation[s][v] \in ReservationRow
      /\ SessionInv(s)
  BY DEF IInv, TypeOK
<1>1. /\ session'[s] = SweptSession(session[s]) /\ order'[s] = SweptOrder(s)
      /\ \A v \in Variants : reservation'[s][v] = SweptReservation(reservation[s][v])
      /\ payment' = payment /\ gateway' = gateway
  BY DEF Sweep
<1>2. CASE session[s].status = "active" /\ Lapsed(session[s])
  <2>1. /\ session'[s] \in SessionRow /\ session'[s].status = "expired"
        /\ session'[s].expires = session[s].expires
    BY <1>0, <1>1, <1>2 DEF SweptSession, SessionRow, SessionStatus
  <2>2. order'[s] = order[s]
    BY <1>1, <1>2 DEF SweptOrder
  <2>3. \A v \in Variants :
          /\ reservation'[s][v] \in ReservationRow
          /\ reservation'[s][v].quantity = reservation[s][v].quantity
          /\ reservation'[s][v] # NoReservation =>
               reservation'[s][v].status = "expired" /\ reservation'[s][v].expires = session[s].expires
    <3> TAKE v \in Variants
    <3>1. \/ reservation[s][v] = NoReservation
          \/ reservation[s][v].status = "reserved" /\ reservation[s][v].expires = session[s].expires
      BY <1>0, <1>2 DEF SessionInv, StatusOfRows
    <3>2. CASE reservation[s][v] = NoReservation
      <4>1. reservation'[s][v] = NoReservation
        BY <1>1, <3>2, NoRowIsSwept
      <4> QED BY <1>0, <3>2, <4>1
    <3>3. CASE reservation[s][v].status = "reserved" /\ reservation[s][v].expires = session[s].expires
      <4>1. reservation'[s][v] = [reservation[s][v] EXCEPT !.status = "expired"]
        BY <1>1, <1>2, <3>3 DEF SweptReservation, Lapsed
      <4> QED BY <1>0, <3>3, <4>1 DEF ReservationRow, ReservationStatus
    <3> QED BY <3>1, <3>2, <3>3
  <2>4. SessionInv(s)'
    BY <1>0, <1>1, <1>2, <2>1, <2>2, <2>3 DEF SessionInv, Linked, StatusOfRows
  <2> QED BY <1>0, <2>1, <2>2, <2>3, <2>4 DEF LiveSession
<1>3. CASE session[s].status = "payment_processing" /\ Lapsed(session[s])
  <2>0. order[s].status = "placed" /\ order[s].pay = "pending"
    BY <1>0, <1>3 DEF SessionInv, Linked
  <2>1. /\ session'[s] \in SessionRow /\ session'[s].status = "cancelled"
        /\ session'[s].expires = session[s].expires
    BY <1>0, <1>1, <1>3 DEF SweptSession, SessionRow, SessionStatus
  <2>2. /\ order'[s] \in OrderRow /\ order'[s].status = "placed" /\ order'[s].pay = "failed"
        /\ order'[s].items = order[s].items
    BY <1>0, <1>1, <1>3, <2>0 DEF SweptOrder, OrderRow, PaymentStatus
  <2>3. \A v \in Variants :
          /\ reservation'[s][v] \in ReservationRow
          /\ reservation'[s][v].quantity = reservation[s][v].quantity
          /\ reservation'[s][v] # NoReservation =>
               reservation'[s][v].status = "cancelled" /\ reservation'[s][v].expires = session[s].expires
    <3> TAKE v \in Variants
    <3>1. \/ reservation[s][v] = NoReservation
          \/ reservation[s][v].status = "payment_processing" /\ reservation[s][v].expires = session[s].expires
      BY <1>0, <1>3 DEF SessionInv, StatusOfRows
    <3>2. CASE reservation[s][v] = NoReservation
      <4>1. reservation'[s][v] = NoReservation
        BY <1>1, <3>2, NoRowIsSwept
      <4> QED BY <1>0, <3>2, <4>1
    <3>3. CASE reservation[s][v].status = "payment_processing" /\ reservation[s][v].expires = session[s].expires
      <4>1. reservation'[s][v] = [reservation[s][v] EXCEPT !.status = "cancelled"]
        BY <1>1, <1>3, <3>3 DEF SweptReservation, Lapsed
      <4> QED BY <1>0, <3>3, <4>1 DEF ReservationRow, ReservationStatus
    <3> QED BY <3>1, <3>2, <3>3
  <2>4. SessionInv(s)'
    BY <1>0, <1>1, <1>3, <2>0, <2>1, <2>2, <2>3 DEF SessionInv, Linked, StatusOfRows
  <2> QED BY <2>1, <2>2, <2>3, <2>4 DEF LiveSession
<1>4. CASE session[s].status \notin LiveSession \/ ~Lapsed(session[s])
  <2>1. session'[s] = session[s] /\ order'[s] = order[s]
    BY <1>0, <1>1, <1>4 DEF SweptSession, SweptOrder, LiveSession
  <2>2. \A v \in Variants : reservation'[s][v] = reservation[s][v]
    <3> TAKE v \in Variants
    <3>1. CASE reservation[s][v] = NoReservation
      BY <1>1, <3>1, NoRowIsSwept
    <3>2. CASE reservation[s][v] # NoReservation
      <4>1. /\ reservation[s][v].status = StatusOfRows(session[s].status)
            /\ reservation[s][v].expires = session[s].expires
        BY <1>0, <3>2 DEF SessionInv
      <4>2. reservation[s][v].status \in ActiveReservation => session[s].status \in LiveSession
        BY <1>0, <4>1 DEF StatusOfRows, ActiveReservation, LiveSession, SessionRow, SessionStatus
      <4> QED BY <1>1, <1>4, <4>1, <4>2 DEF SweptReservation, Lapsed, ActiveReservation
    <3> QED BY <3>1, <3>2
  <2>3. SessionInv(s)'
    BY <1>0, <1>1, <2>1, <2>2 DEF SessionInv, Linked, StatusOfRows, NoReservation, NoOrder, NoPayment
  <2> QED BY <1>0, <2>1, <2>2, <2>3
<1> QED BY <1>2, <1>3, <1>4 DEF LiveSession

\* The sweep ends what has expired.
LEMMA SweepIInv ==
  ASSUME IInv, Sweep
  PROVE  IInv'
<1>1. TypeOK'
  <2>1. session' \in [Sessions -> SessionRow] /\ order' \in [Sessions -> OrderRow]
    BY SweepOneSession DEF Sweep
  <2>2. reservation' \in [Sessions -> [Variants -> ReservationRow]]
    BY SweepOneSession DEF Sweep
  <2> QED BY <2>1, <2>2 DEF IInv, TypeOK, Sweep
<1>2. OneLiveSession'
  BY SweepOneSession DEF IInv, OneLiveSession
<1>3. \A s \in Sessions : SessionInv(s)'
  BY SweepOneSession
<1> QED BY <1>1, <1>2, <1>3 DEF IInv

\* Fulfilling touches only paid orders.
LEMMA FulfilIInv ==
  ASSUME IInv, NEW s \in Sessions, NEW to \in OrderStatus, Fulfil(s, to)
  PROVE  IInv'
<1>0. order[s] \in OrderRow /\ order[s].status \in {"placed", "packed", "shipped"} /\ order[s].pay = "paid"
  BY DEF Fulfil, Packable, IInv, TypeOK, SessionInv
<1>1. /\ order' = [order EXCEPT ![s] = [order[s] EXCEPT !.status = to]]
      /\ to \in {"packed", "shipped", "delivered"}
      /\ UNCHANGED <<now, stock, sold, adjusted, session, reservation, payment, gateway>>
  BY DEF Fulfil, IInv, TypeOK, inventoryVars, holdVars
<1>2. /\ order'[s] \in OrderRow /\ order'[s].status = to
      /\ order'[s].pay = "paid" /\ order'[s].items = order[s].items
  BY <1>0, <1>1 DEF IInv, TypeOK, OrderRow
<1>3. TypeOK'
  BY <1>1, <1>2 DEF IInv, TypeOK
<1>4. SessionInv(s)'
  BY <1>0, <1>1, <1>2 DEF IInv, SessionInv, Linked, StatusOfRows, NoReservation
<1>5. \A t \in Sessions \ {s} : order'[t] = order[t]
  BY <1>1 DEF IInv, TypeOK
<1> QED BY <1>1, <1>3, <1>4, <1>5, OneSession

\* An admin cancels an order and gives back its hold or its units.
LEMMA AdminCancelIInv ==
  ASSUME IInv, NEW s \in Sessions, AdminCancel(s, order[s])
  PROVE  IInv'
<1>0. order[s] \in OrderRow /\ order[s].status \in {"placed", "packed", "shipped"}
  BY DEF AdminCancel, IInv, TypeOK, OrderRow, OrderStatus
<1>1. /\ order' = [order EXCEPT ![s] = [order[s] EXCEPT !.status = "cancelled"]]
      /\ UNCHANGED <<now, sold, adjusted, payment, gateway>>
  BY DEF AdminCancel, IInv, TypeOK
<1>2. /\ order'[s] \in OrderRow /\ order'[s].status = "cancelled"
      /\ order'[s].pay = order[s].pay /\ order'[s].items = order[s].items
  BY <1>0, <1>1 DEF IInv, TypeOK, OrderRow, OrderStatus
<1>3. order' \in [Sessions -> OrderRow] /\ \A t \in Sessions \ {s} : order'[t] = order[t]
  BY <1>1, <1>2 DEF IInv, TypeOK
<1>4. CASE StockWasDecremented(order[s])
  <2>1. /\ stock' = [v \in Variants |-> stock[v] + order[s].items[v]]
        /\ session' = session /\ reservation' = reservation
    BY <1>4 DEF AdminCancel, holdVars
  <2>2. stock' \in [Variants -> Nat]
    <3>1. \A v \in Variants : stock[v] \in Nat /\ order[s].items[v] \in Nat
      BY <1>0 DEF IInv, TypeOK, OrderRow
    <3> QED BY <2>1, <3>1
  <2>3. TypeOK'
    BY <1>1, <1>3, <2>1, <2>2 DEF IInv, TypeOK
  <2>4. SessionInv(s)'
    BY <1>0, <1>1, <1>2, <1>4, <2>1
    DEF IInv, SessionInv, Linked, StatusOfRows, NoReservation, StockWasDecremented
  <2> QED BY <1>1, <1>3, <2>1, <2>3, <2>4, OneSession
<1>5. CASE ~StockWasDecremented(order[s])
  <2>1. TransitionSession(s, "cancelled") /\ stock' = stock
    BY <1>5 DEF AdminCancel
  <2>2. TypeOK'
    <3>1. session' \in [Sessions -> SessionRow] /\ reservation' \in [Sessions -> [Variants -> ReservationRow]]
      BY <2>1, Transition
    <3> QED BY <1>1, <1>3, <2>1, <3>1 DEF IInv, TypeOK
  <2>3. SessionInv(s)'
    BY <1>0, <1>1, <1>2, <1>5, <2>1, Transition
    DEF IInv, SessionInv, Linked, StatusOfRows, StockWasDecremented
  <2>4. \A t \in Sessions \ {s} : session'[t] = session[t] /\ reservation'[t] = reservation[t]
    BY <2>1, Transition DEF IInv, TypeOK
  <2>5. session'[s].status = "cancelled"
    BY <2>1, Transition
  <2> QED BY <1>1, <1>3, <2>2, <2>3, <2>4, <2>5, OneSession DEF LiveSession
<1> QED BY <1>4, <1>5

\* An admin's count does not touch the holds.
LEMMA AdminAdjustIInv ==
  ASSUME IInv, NEW v \in Variants, NEW target \in 0..MaxStock, AdminAdjust(v, target)
  PROVE  IInv'
<1>1. /\ UNCHANGED <<now, sold, session, reservation, order, payment, gateway>>
      /\ stock' = [stock EXCEPT ![v] = target]
      /\ adjusted' = [adjusted EXCEPT ![v] = adjusted[v] + target - stock[v]]
  BY DEF AdminAdjust, holdVars, saleVars, IInv, TypeOK
<1>2. target \in Nat /\ adjusted[v] + target - stock[v] \in Int
  BY NumbersAssumption DEF IInv, TypeOK
<1>3. TypeOK'
  BY <1>1, <1>2 DEF IInv, TypeOK
<1>4. OneLiveSession'
  BY <1>1 DEF IInv, OneLiveSession
<1>5. \A s \in Sessions : SessionInv(s)'
  BY <1>1, Frame DEF IInv
<1> QED BY <1>3, <1>4, <1>5 DEF IInv

\* Time alone changes no row.
LEMMA TickIInv ==
  ASSUME IInv, Tick \/ UNCHANGED vars
  PROVE  IInv'
<1>1. /\ UNCHANGED <<stock, sold, adjusted, session, reservation, order, payment, gateway>>
      /\ now' \in Nat
  BY DEF Tick, vars, inventoryVars, holdVars, saleVars, IInv, TypeOK
<1>2. TypeOK'
  BY <1>1 DEF IInv, TypeOK
<1>3. OneLiveSession'
  BY <1>1 DEF IInv, OneLiveSession
<1>4. \A s \in Sessions : SessionInv(s)'
  BY <1>1, Frame DEF IInv
<1> QED BY <1>2, <1>3, <1>4 DEF IInv

\* Every step keeps the invariant.
LEMMA StepIInv == IInv /\ [Next]_vars => IInv'
<1> SUFFICES ASSUME IInv, [Next]_vars PROVE IInv'
  OBVIOUS
<1>1. CASE UserNext
  BY <1>1, StartCheckoutIInv, PaymentIsForAHold, PayIInv, CancelCheckoutIInv DEF UserNext
<1>2. CASE GatewayNext
  BY <1>2, GatewayIInv DEF GatewayNext
<1>3. CASE \E s \in Sessions, e \in Event : Webhook(s, e)
  BY <1>3, WebhookIInv
<1>4. CASE Sweep
  BY <1>4, SweepIInv
<1>5. CASE AdminNext
  BY <1>5, FulfilIInv, AdminCancelIInv, AdminAdjustIInv DEF AdminNext
<1>6. CASE Tick \/ UNCHANGED vars
  BY <1>6, TickIInv
<1> QED BY <1>1, <1>2, <1>3, <1>4, <1>5, <1>6 DEF Next

-----------------------------------------------------------------------------
(* The theorems *)

\* Every reachable state satisfies the inductive invariant.
THEOREM Invariance == Spec => []IInv
<1> QED BY InitIInv, StepIInv, PTL DEF Spec

\* No request, event, sweep or adjustment breaks the schema; in particular the
\* stock on hand never goes negative.
THEOREM TypeCorrect == Spec => []TypeOK
<1>1. IInv => TypeOK
  BY DEF IInv
<1> QED BY <1>1, Invariance, PTL

\* However many users, sessions and reloads: one live checkout per user.
THEOREM OneLiveSessionPerUser == Spec => []OneLiveSession
<1>1. IInv => OneLiveSession
  BY DEF IInv
<1> QED BY <1>1, Invariance, PTL

\* A hold's rows and its session stay one thing.
THEOREM HoldIsOneThing == Spec => []RowsFollowSession
<1> QED BY IInvParts, Invariance, PTL

\* The order made of a hold asks for what was held.
THEOREM OrderIsItsHold == Spec => []OrderMatchesHold
<1> QED BY IInvParts, Invariance, PTL

\* An order that waits for its payment can be found by the backstop sweep.
THEOREM AwaitedPaymentIsFound == Spec => []AwaitedPaymentIsHeld
<1> QED BY IInvParts, Invariance, PTL

\* Recorded money is a sale or a refund owed, and goods leave for paid orders only.
THEOREM MoneyIsAccounted == Spec => []MoneyAccounted
<1> QED BY IInvParts, Invariance, PTL

-----------------------------------------------------------------------------
(* Cancelled and paid are final *)

\* An order is made of a live session, which has none: the others stay as they are.
LEMMA PayFrame ==
  ASSUME IInv, NEW t \in Sessions, HoldBecomesOrder(t),
         NEW s \in Sessions, order[s].status # "none"
  PROVE  order'[s] = order[s] /\ session'[s] = session[s] /\ payment'[s] = payment[s]
<1>1. t # s
  BY DEF HoldBecomesOrder, IInv, SessionInv, Linked
<1> QED BY <1>1 DEF HoldBecomesOrder, PlaceOrder, IInv, TypeOK

\* No step takes a cancelled order back.
LEMMA CancelledStep ==
  ASSUME IInv, Next, NEW s \in Sessions, order[s].status = "cancelled"
  PROVE  order'[s].status = "cancelled" /\ (order'[s].pay = "paid" => order[s].pay = "paid")
<1>0. /\ order \in [Sessions -> OrderRow] /\ order[s] \in OrderRow
      /\ session[s].status \notin {"none", "active", "expired", "payment_processing"}
  BY DEF IInv, TypeOK, SessionInv, Linked
<1>1. CASE UserNext
  <2>1. ASSUME NEW t \in Sessions, StartPayment(t) PROVE order'[s] = order[s]
    BY <2>1, PaymentIsForAHold, PayFrame
  <2>2. ASSUME NEW t \in Sessions, CancelCheckout(t) PROVE order'[s] = order[s]
    BY <1>0, <2>2 DEF CancelCheckout, LiveSession
  <2> QED BY <1>1, <2>1, <2>2 DEF UserNext, StartCheckout
<1>2. CASE GatewayNext \/ Tick
  BY <1>2 DEF GatewayNext, GatewayFails, GatewayCaptures, Tick, saleVars
<1>3. ASSUME NEW t \in Sessions, NEW e \in Event, Webhook(t, e)
      PROVE  order'[s].status = "cancelled" /\ (order'[s].pay = "paid" => order[s].pay = "paid")
  <2>1. CASE OnCaptured(t, e.id, payment[t], order[t])
    <3>1. CASE order' = order
      BY <3>1
    <3>2. CASE ~NeedsRefund(t, order[t]) /\ ApplySale(t, e.id)
      BY <1>0, <3>2 DEF NeedsRefund, ApplySale
    <3> QED BY <2>1, <3>1, <3>2 DEF OnCaptured, RecordRefund
  <2>2. CASE OnFailed(t, e.id, payment[t], order[t])
    BY <1>0, <2>2 DEF OnFailed, OrderRow
  <2> QED BY <1>3, <2>1, <2>2 DEF Webhook
<1>4. CASE Sweep
  <2>1. order'[s] = SweptOrder(s)
    BY <1>4 DEF Sweep
  <2> QED BY <1>0, <2>1 DEF SweptOrder
<1>5. CASE AdminNext
  <2>1. ASSUME NEW t \in Sessions, NEW to \in OrderStatus, Fulfil(t, to) PROVE order'[s] = order[s]
    BY <1>0, <2>1 DEF Fulfil
  <2>2. ASSUME NEW t \in Sessions, AdminCancel(t, order[t]) PROVE order'[s] = order[s]
    BY <1>0, <2>2 DEF AdminCancel
  <2> QED BY <1>5, <2>1, <2>2 DEF AdminNext, AdminAdjust, saleVars
<1> QED BY <1>1, <1>2, <1>3, <1>4, <1>5 DEF Next

\* No step takes a paid order back.
LEMMA PaidStep ==
  ASSUME IInv, Next, NEW s \in Sessions, order[s].pay = "paid"
  PROVE  order'[s].pay = "paid" /\ session'[s] = session[s] /\ payment'[s].status = "captured"
<1>0. /\ session \in [Sessions -> SessionRow] /\ order \in [Sessions -> OrderRow]
      /\ payment \in [Sessions -> PaymentRow]
      /\ order[s] \in OrderRow /\ payment[s] \in PaymentRow
      /\ session[s].status = "completed" /\ payment[s].status = "captured"
  BY DEF IInv, TypeOK, SessionInv
<1>ordered. order[s].status # "none"
  BY DEF IInv, SessionInv, Linked, NoOrder
<1>1. CASE UserNext
  <2>1. ASSUME NEW u \in Users, NEW t \in Sessions, NEW cart \in Carts, StartCheckout(u, t, cart)
        PROVE  t # s
    BY <1>0, <2>1 DEF StartCheckout, Acquired, LiveSessionsOf, LiveSession
  <2>2. ASSUME NEW t \in Sessions, StartPayment(t)
        PROVE  order'[s] = order[s] /\ session'[s] = session[s] /\ payment'[s] = payment[s]
    BY <1>ordered, <2>2, PaymentIsForAHold, PayFrame
  <2>3. ASSUME NEW t \in Sessions, CancelCheckout(t)
        PROVE  order'[s] = order[s] /\ session'[s] = session[s] /\ payment'[s] = payment[s]
    BY <1>0, <2>3 DEF CancelCheckout, LiveSession
  <2> QED BY <1>0, <1>1, <2>1, <2>2, <2>3 DEF UserNext, StartCheckout
<1>2. CASE GatewayNext \/ Tick
  BY <1>0, <1>2 DEF GatewayNext, GatewayFails, GatewayCaptures, Tick, holdVars, saleVars
<1>3. ASSUME NEW t \in Sessions, NEW e \in Event, Webhook(t, e)
      PROVE  order'[s].pay = "paid" /\ session'[s] = session[s] /\ payment'[s].status = "captured"
  <2>1. CASE OnCaptured(t, e.id, payment[t], order[t])
    <3>1. CASE AlreadyCaptured(payment[t]) /\ payment' = [payment EXCEPT ![t].event = e.id]
               /\ UNCHANGED <<holdVars, order>>
      BY <1>0, <3>1 DEF holdVars, PaymentRow
    <3>2. CASE ~AlreadyCaptured(payment[t]) /\ (RecordRefund(t, e.id) \/ ApplySale(t, e.id))
      <4>1. t # s
        BY <1>0, <3>2 DEF AlreadyCaptured
      <4> QED BY <1>0, <3>2, <4>1 DEF RecordRefund, ApplySale, TransitionSession, holdVars
    <3> QED BY <2>1, <3>1, <3>2 DEF OnCaptured
  <2>2. CASE OnFailed(t, e.id, payment[t], order[t])
    <3>1. t # s
      BY <1>0, <2>2 DEF OnFailed, Settled
    <3> QED BY <1>0, <2>2, <3>1 DEF OnFailed, FailPayment, TransitionSession
  <2> QED BY <1>3, <2>1, <2>2 DEF Webhook
<1>4. CASE Sweep
  <2>1. order'[s] = SweptOrder(s) /\ session'[s] = SweptSession(session[s]) /\ payment' = payment
    BY <1>4 DEF Sweep
  <2> QED BY <1>0, <2>1 DEF SweptOrder, SweptSession
<1>5. CASE AdminNext
  <2>1. ASSUME NEW t \in Sessions, NEW to \in OrderStatus, Fulfil(t, to)
        PROVE  order'[s].pay = "paid" /\ session'[s] = session[s] /\ payment' = payment
    BY <1>0, <2>1 DEF Fulfil, holdVars
  <2>2. ASSUME NEW t \in Sessions, AdminCancel(t, order[t])
        PROVE  order'[s].pay = "paid" /\ session'[s] = session[s] /\ payment' = payment
    BY <1>0, <2>2 DEF AdminCancel, StockWasDecremented, TransitionSession, holdVars
  <2> QED BY <1>0, <1>5, <2>1, <2>2 DEF AdminNext, AdminAdjust, holdVars, saleVars
<1> QED BY <1>1, <1>2, <1>3, <1>4, <1>5 DEF Next

\* A capture that arrives after the cancellation is never applied as a sale, and
\* nothing brings a cancelled order back.
THEOREM CancelledStays == Spec => CancelledIsFinal
<1>1. IInv /\ [Next]_vars =>
        [\A s \in Sessions : order[s].status = "cancelled" =>
           /\ order'[s].status = "cancelled"
           /\ order'[s].pay = "paid" => order[s].pay = "paid"]_vars
  BY CancelledStep
<1> QED BY <1>1, Invariance, PTL DEF Spec, CancelledIsFinal

\* A late failure, a sweep, a cancel or a second capture leaves a paid order
\* paid, its checkout completed and its payment captured.
THEOREM PaidStays == Spec => PaidIsFinal
<1>1. IInv /\ [Next]_vars =>
        [\A s \in Sessions : order[s].pay = "paid" =>
           order'[s].pay = "paid" /\ session'[s] = session[s] /\ payment'[s].status = "captured"]_vars
  BY PaidStep
<1> QED BY <1>1, Invariance, PTL DEF Spec, PaidIsFinal

-----------------------------------------------------------------------------
(* The refinement: Checkout implements OrderSettlement for every value of the *)
(* constants: initial states map to initial states, steps to steps or stutters. *)

\* A step that leaves the stock, the lines and the outcomes alone.
Stutter == UNCHANGED Settlement!settlementVars

\* An order whose rows stay keeps its outcome.
LEMMA SameRowsSameOutcome ==
  ASSUME NEW s \in Sessions, order'[s] = order[s], payment'[s].refund = payment[s].refund
  PROVE  Outcome(s)' = Outcome(s)
BY DEF Outcome

\* The outcome changes with the rows of one order.
LEMMA OneOutcome ==
  ASSUME NEW s \in Sessions,
         \A t \in Sessions \ {s} : order'[t] = order[t] /\ payment'[t] = payment[t],
         order'[s].items = order[s].items
  PROVE  /\ UNCHANGED [t \in Sessions |-> order[t].items]
         /\ \A to : Outcome(s)' = to => Settlement!Become(s, to)
<1>1. \A t \in Sessions : order'[t].items = order[t].items
  OBVIOUS
<1>2. \A t \in Sessions \ {s} : Outcome(t)' = Outcome(t)
  BY SameRowsSameOutcome
<1> QED BY <1>1, <1>2 DEF Settlement!Become

\* The abstract settlement starts with the shop.
LEMMA InitSettles == Init => Settlement!Init
BY DEF Init, Settlement!Init, Outcome, NoOrder

\* Turning the hold into an order is placing it.
LEMMA PayPlaces ==
  ASSUME IInv, NEW s \in Sessions, HoldBecomesOrder(s)
  PROVE  Settlement!Place(s)
<1>0. /\ order \in [Sessions -> OrderRow] /\ payment \in [Sessions -> PaymentRow]
      /\ stock \in [Variants -> Nat]
      /\ session[s].status = "active" /\ order[s] = NoOrder
  BY DEF IInv, TypeOK, SessionInv, Linked, HoldBecomesOrder
<1>1. LinesToPay(s) \in [Variants -> Nat]
  BY <1>0, LinesAreHeld
<1>2. /\ order' = [order EXCEPT ![s] = [status |-> "placed", pay |-> "pending", items |-> LinesToPay(s)]]
      /\ payment' = [payment EXCEPT ![s] = NewPayment]
      /\ \A v \in Variants : LinesToPay(s)[v] <= stock[v]
      /\ stock' = stock
  BY DEF HoldBecomesOrder, PlaceOrder
<1>3. \A t \in Sessions \ {s} : order'[t] = order[t] /\ payment'[t] = payment[t]
  BY <1>0, <1>2
<1>4. /\ order'[s] = [status |-> "placed", pay |-> "pending", items |-> LinesToPay(s)]
      /\ payment'[s].refund = FALSE
  BY <1>0, <1>2 DEF NewPayment
<1>5. Outcome(s) = "none" /\ Outcome(s)' = "pending"
  BY <1>0, <1>4 DEF Outcome, NoOrder
<1>6. \A t \in Sessions \ {s} : Outcome(t)' = Outcome(t)
  BY <1>3, SameRowsSameOutcome
<1>7. Settlement!Become(s, "pending")
  BY <1>5, <1>6 DEF Settlement!Become
<1>8. ([t \in Sessions |-> order[t].items]')[s] = LinesToPay(s)
  BY <1>4
<1>9. [t \in Sessions |-> order[t].items]' =
        [[t \in Sessions |-> order[t].items] EXCEPT
           ![s] = ([t \in Sessions |-> order[t].items]')[s]]
  <2>1. [t \in Sessions |-> order'[t].items] =
          [[t \in Sessions |-> order[t].items] EXCEPT ![s] = order'[s].items]
    BY <1>3
  <2> QED BY <2>1
<1> QED BY <1>1, <1>2, <1>5, <1>7, <1>8, <1>9 DEF Settlement!Place

\* Cancelling is withdrawing the order.
LEMMA CancelCheckoutWithdraws ==
  ASSUME IInv, NEW s \in Sessions, CancelCheckout(s)
  PROVE  Settlement!Withdraw(s) \/ Stutter
<1>0. /\ order \in [Sessions -> OrderRow] /\ order[s] \in OrderRow
      /\ payment' = payment /\ stock' = stock /\ SessionInv(s)
  BY DEF IInv, TypeOK, CancelCheckout
<1>1. CASE order[s].pay = "pending"
  <2>1. order[s].status = "placed"
    BY <1>0, <1>1 DEF CancelCheckout, SessionInv, Linked, LiveSession, NoOrder
  <2>2. /\ order' = [order EXCEPT ![s] = [order[s] EXCEPT !.status = "cancelled", !.pay = "failed"]]
        /\ order'[s].status = "cancelled" /\ order'[s].pay = "failed"
        /\ order'[s].items = order[s].items
        /\ \A t \in Sessions \ {s} : order'[t] = order[t] /\ payment'[t] = payment[t]
    BY <1>0, <1>1 DEF CancelCheckout, OrderRow
  <2>3. CASE payment[s].refund
    <3>1. Outcome(s) = "refund" /\ Outcome(s)' = "refund"
      BY <1>0, <2>1, <2>2, <2>3 DEF Outcome
    <3>2. \A t \in Sessions : Outcome(t)' = Outcome(t) /\ order'[t].items = order[t].items
      BY <2>2, <3>1, SameRowsSameOutcome
    <3> QED BY <1>0, <3>2 DEF Stutter, Settlement!settlementVars
  <2>4. CASE ~payment[s].refund
    <3>1. Outcome(s) = "pending" /\ Outcome(s)' = "withdrawn"
      BY <1>0, <1>1, <2>1, <2>2, <2>4 DEF Outcome
    <3> QED BY <1>0, <2>2, <3>1, OneOutcome DEF Settlement!Withdraw, Settlement!Unsettled
  <2> QED BY <2>3, <2>4
<1>2. CASE order[s].pay # "pending"
  BY <1>0, <1>2 DEF CancelCheckout, Stutter, Settlement!settlementVars, Outcome
<1> QED BY <1>1, <1>2

\* A capture is the settlement of the order, or a stutter.
LEMMA CapturedSettles ==
  ASSUME IInv, NEW s \in Sessions, NEW id, OnCaptured(s, id, payment[s], order[s]),
         order[s].status # "none"
  PROVE  Settlement!Sell(s) \/ Settlement!OweRefund(s) \/ Stutter
<1>0. /\ order \in [Sessions -> OrderRow] /\ order[s] \in OrderRow
      /\ payment \in [Sessions -> PaymentRow] /\ payment[s] \in PaymentRow
      /\ SessionInv(s)
  BY DEF IInv, TypeOK
<1>1. CASE /\ AlreadyCaptured(payment[s])
           /\ payment' = [payment EXCEPT ![s].event = id]
           /\ UNCHANGED <<inventoryVars, holdVars, order>>
  <2>1. \A t \in Sessions : payment'[t].refund = payment[t].refund
    BY <1>0, <1>1 DEF PaymentRow
  <2> QED BY <1>1, <2>1 DEF Stutter, Settlement!settlementVars, Outcome, inventoryVars
<1>2. CASE ~AlreadyCaptured(payment[s]) /\ NeedsRefund(s, order[s]) /\ RecordRefund(s, id)
  <2>1. /\ payment' = [payment EXCEPT ![s] = RefundOwed(payment[s], id)]
        /\ order' = order /\ stock' = stock
    BY <1>0, <1>2 DEF RecordRefund, inventoryVars
  <2>2. payment'[s].refund = TRUE /\ \A t \in Sessions \ {s} : payment'[t] = payment[t]
    BY <1>0, <2>1 DEF RefundOwed, PaymentRow
  <2>3. Outcome(s)' = "refund"
    BY <2>1, <2>2 DEF Outcome
  <2>4. /\ Outcome(s) \in {"withdrawn", "lapsed", "pending"}
        /\ order[s].status = "cancelled" => Outcome(s) = "withdrawn"
    BY <1>0, <1>2 DEF Outcome, AlreadyCaptured, SessionInv, Linked
  <2>5. order[s].status # "cancelled" => ~Settlement!OnShelf(s)
    BY <1>2 DEF NeedsRefund, Fulfillable, Settlement!OnShelf
  <2>6. order[s].status # "cancelled" => Outcome(s) # "withdrawn"
    BY DEF Outcome
  <2>7. Outcome(s) = "withdrawn" \/ (Outcome(s) \in Settlement!Unsettled /\ ~Settlement!OnShelf(s))
    BY <2>4, <2>5, <2>6 DEF Settlement!Unsettled
  <2> QED BY <2>1, <2>2, <2>3, <2>7, OneOutcome DEF Settlement!OweRefund
<1>3. CASE ~AlreadyCaptured(payment[s]) /\ ~NeedsRefund(s, order[s]) /\ ApplySale(s, id)
  <2>1. /\ payment' = [payment EXCEPT ![s] = [payment[s] EXCEPT !.status = "captured", !.event = id]]
        /\ order' = [order EXCEPT ![s].pay = "paid"]
        /\ stock' = [v \in Variants |-> stock[v] - order[s].items[v]]
    BY <1>3 DEF ApplySale
  <2>2. /\ order'[s].pay = "paid" /\ order'[s].status = order[s].status
        /\ order'[s].items = order[s].items /\ payment'[s].refund = payment[s].refund
        /\ \A t \in Sessions \ {s} : order'[t] = order[t] /\ payment'[t] = payment[t]
    BY <1>0, <2>1 DEF OrderRow, PaymentRow
  <2>3. ~payment[s].refund /\ order[s].pay # "paid" /\ order[s].status # "cancelled"
    BY <1>0, <1>3 DEF AlreadyCaptured, NeedsRefund, SessionInv
  <2>4. Outcome(s)' = "sold" /\ Outcome(s) \in Settlement!Unsettled
    BY <2>2, <2>3 DEF Outcome, Settlement!Unsettled
  <2>5. Settlement!OnShelf(s)
    BY <1>3 DEF NeedsRefund, Fulfillable, Settlement!OnShelf
  <2> QED BY <2>1, <2>2, <2>4, <2>5, OneOutcome DEF Settlement!Sell
<1> QED BY <1>1, <1>2, <1>3 DEF OnCaptured

\* A failure lets the order lapse.
LEMMA FailedLapses ==
  ASSUME IInv, NEW s \in Sessions, NEW id, OnFailed(s, id, payment[s], order[s]),
         order[s].status # "none"
  PROVE  Settlement!Lapse({s}) \/ Stutter
<1>0. /\ order \in [Sessions -> OrderRow] /\ order[s] \in OrderRow
      /\ payment \in [Sessions -> PaymentRow] /\ payment[s] \in PaymentRow
      /\ SessionInv(s) /\ stock' = stock
  BY DEF IInv, TypeOK, OnFailed, inventoryVars
<1>1. ~payment[s].refund /\ order[s].pay \in {"pending", "failed"}
  BY <1>0 DEF OnFailed, Settled, SessionInv, Linked, OrderRow, PaymentStatus
<1>2. /\ order'[s].pay = "failed" /\ order'[s].status = order[s].status
      /\ order'[s].items = order[s].items
      /\ \A t \in Sessions \ {s} : order'[t] = order[t]
  BY <1>0 DEF OnFailed, OrderRow
<1>3. /\ payment'[s].refund = FALSE
      /\ \A t \in Sessions \ {s} : payment'[t] = payment[t]
  BY <1>0, <1>1 DEF OnFailed, FailPayment, PaymentRow
<1>4. \A t \in Sessions : order'[t].items = order[t].items
  BY <1>2
<1>5. \A t \in Sessions \ {s} : Outcome(t)' = Outcome(t)
  BY <1>2, <1>3, SameRowsSameOutcome
<1>6. CASE Outcome(s) = "pending"
  <2>1. Outcome(s)' = "lapsed"
    BY <1>1, <1>2, <1>3, <1>6 DEF Outcome
  <2> QED BY <1>0, <1>4, <1>5, <1>6, <2>1 DEF Settlement!Lapse
<1>7. CASE Outcome(s) # "pending"
  <2>1. Outcome(s)' = Outcome(s)
    BY <1>1, <1>2, <1>3, <1>7 DEF Outcome
  <2> QED BY <1>0, <1>4, <1>5, <2>1 DEF Stutter, Settlement!settlementVars
<1> QED BY <1>6, <1>7

\* A webhook settles the order, lets it lapse, or is not seen.
LEMMA WebhookSettles ==
  ASSUME IInv, NEW s \in Sessions, NEW e \in Event, Webhook(s, e)
  PROVE  Settlement!Sell(s) \/ Settlement!OweRefund(s) \/ Settlement!Lapse({s}) \/ Stutter
<1>1. order[s].status # "none"
  BY DEF Webhook, IInv, SessionInv, Linked
<1> QED BY <1>1, CapturedSettles, FailedLapses DEF Webhook

\* The sweep lets orders lapse.
LEMMA SweepLapses ==
  ASSUME IInv, Sweep
  PROVE  \E O \in SUBSET Sessions : Settlement!Lapse(O)
<1> DEFINE O == {s \in Sessions : Outcome(s) = "pending" /\ order'[s].pay = "failed"}
<1>0. order \in [Sessions -> OrderRow] /\ payment' = payment /\ stock' = stock
  BY DEF IInv, TypeOK, Sweep
<1>1. ASSUME NEW s \in Sessions
      PROVE  /\ order'[s].items = order[s].items
             /\ Outcome(s)' = IF s \in O THEN "lapsed" ELSE Outcome(s)
  <2>1. order'[s] = SweptOrder(s) /\ order[s] \in OrderRow
    BY <1>0 DEF Sweep
  <2>2. CASE order'[s] = order[s]
    BY <1>0, <2>2 DEF Outcome
  <2>3. CASE order'[s] # order[s]
    <3>1. /\ session[s].status = "payment_processing"
          /\ order[s].pay = "pending"
          /\ order'[s] = [order[s] EXCEPT !.pay = "failed"]
      BY <2>1, <2>3 DEF SweptOrder
    <3>2. order[s].status = "placed"
      BY <3>1 DEF IInv, SessionInv, Linked
    <3>3. /\ order'[s].pay = "failed" /\ order'[s].status = "placed"
          /\ order'[s].items = order[s].items
      BY <2>1, <3>1, <3>2 DEF OrderRow
    <3> QED BY <1>0, <3>1, <3>2, <3>3 DEF Outcome
  <2> QED BY <2>2, <2>3
<1>2. Settlement!Lapse(O)
  BY <1>0, <1>1 DEF Settlement!Lapse
<1> QED BY <1>2

\* Fulfilling is not seen by the settlement.
LEMMA FulfilStutters ==
  ASSUME IInv, NEW s \in Sessions, NEW to \in OrderStatus, Fulfil(s, to)
  PROVE  Stutter
<1>1. /\ order \in [Sessions -> OrderRow] /\ order[s] \in OrderRow
      /\ order[s].pay = "paid" /\ order[s].status \in {"placed", "packed", "shipped"}
      /\ to \in {"packed", "shipped", "delivered"}
      /\ order' = [order EXCEPT ![s].status = to]
      /\ payment' = payment /\ stock' = stock
  BY DEF Fulfil, Packable, IInv, TypeOK, SessionInv, inventoryVars
<1>2. /\ order'[s].status = to /\ order'[s].pay = "paid" /\ order'[s].items = order[s].items
      /\ \A t \in Sessions \ {s} : order'[t] = order[t]
  BY <1>1 DEF OrderRow
<1>3. \A t \in Sessions : order'[t].items = order[t].items /\ Outcome(t)' = Outcome(t)
  BY <1>1, <1>2 DEF Outcome
<1> QED BY <1>1, <1>3 DEF Stutter, Settlement!settlementVars

\* An admin's cancellation is the settlement's.
LEMMA AdminCancelSettles ==
  ASSUME IInv, NEW s \in Sessions, AdminCancel(s, order[s])
  PROVE  Settlement!Return(s) \/ Settlement!Withdraw(s) \/ Stutter
<1>0. /\ order \in [Sessions -> OrderRow] /\ order[s] \in OrderRow /\ SessionInv(s)
      /\ order[s].status \notin {"none", "cancelled"}
      /\ order' = [order EXCEPT ![s].status = "cancelled"] /\ payment' = payment
  BY DEF AdminCancel, IInv, TypeOK
<1>1. /\ order'[s].status = "cancelled" /\ order'[s].pay = order[s].pay
      /\ order'[s].items = order[s].items
      /\ \A t \in Sessions \ {s} : order'[t] = order[t] /\ payment'[t] = payment[t]
  BY <1>0 DEF OrderRow
<1>2. CASE order[s].pay = "paid"
  <2>1. stock' = [v \in Variants |-> stock[v] + order[s].items[v]]
    BY <1>2 DEF AdminCancel, StockWasDecremented
  <2>2. Outcome(s) = "sold" /\ Outcome(s)' = "returned"
    BY <1>0, <1>1, <1>2 DEF Outcome, SessionInv
  <2> QED BY <1>1, <2>1, <2>2, OneOutcome DEF Settlement!Return
<1>3. CASE order[s].pay # "paid"
  <2>1. stock' = stock
    BY <1>3 DEF AdminCancel, StockWasDecremented
  <2>2. CASE payment[s].refund
    <3>1. \A t \in Sessions : order'[t].items = order[t].items /\ Outcome(t)' = Outcome(t)
      BY <1>0, <1>1, <2>2 DEF Outcome
    <3> QED BY <2>1, <3>1 DEF Stutter, Settlement!settlementVars
  <2>3. CASE ~payment[s].refund
    <3>1. Outcome(s) \in Settlement!Unsettled /\ Outcome(s)' = "withdrawn"
      BY <1>0, <1>1, <1>3, <2>3 DEF Outcome, Settlement!Unsettled
    <3> QED BY <1>1, <2>1, <3>1, OneOutcome DEF Settlement!Withdraw
  <2> QED BY <2>2, <2>3
<1> QED BY <1>2, <1>3

\* An admin's count is the settlement's adjustment.
LEMMA AdjustAdjusts ==
  ASSUME IInv, NEW v \in Variants, NEW target \in 0..MaxStock, AdminAdjust(v, target)
  PROVE  Settlement!Adjust(v)
<1>1. /\ stock \in [Variants -> Nat] /\ stock' = [stock EXCEPT ![v] = target]
      /\ order' = order /\ payment' = payment /\ target \in Nat
  BY NumbersAssumption DEF IInv, TypeOK, AdminAdjust, saleVars
<1>2. UNCHANGED <<[s \in Sessions |-> order[s].items], [s \in Sessions |-> Outcome(s)]>>
  BY <1>1 DEF Outcome
<1> QED BY <1>1, <1>2 DEF Settlement!Adjust

\* Every step is a step of the settlement, or a stutter.
LEMMA StepSettles == IInv /\ [Next]_vars => [Settlement!Next]_(Settlement!settlementVars)
<1> SUFFICES ASSUME IInv, [Next]_vars PROVE Settlement!Next \/ Stutter
  BY DEF Stutter
<1>1. ASSUME order' = order, payment' = payment, stock' = stock PROVE Stutter
  BY <1>1 DEF Stutter, Settlement!settlementVars, Outcome
<1>2. CASE UserNext
  BY <1>1, <1>2, PaymentIsForAHold, PayPlaces, CancelCheckoutWithdraws
  DEF UserNext, StartCheckout, Settlement!Next
<1>3. CASE \E s \in Sessions, e \in Event : Webhook(s, e)
  <2>1. PICK s \in Sessions, e \in Event : Webhook(s, e)
    BY <1>3
  <2>2. {s} \in SUBSET Sessions
    OBVIOUS
  <2> QED BY <2>1, <2>2, WebhookSettles DEF Settlement!Next
<1>4. CASE Sweep
  BY <1>4, SweepLapses DEF Settlement!Next
<1>5. CASE AdminNext
  BY <1>5, FulfilStutters, AdminCancelSettles, AdjustAdjusts DEF AdminNext, Settlement!Next
<1>6. CASE GatewayNext \/ Tick \/ UNCHANGED vars
  BY <1>1, <1>6 DEF GatewayNext, GatewayFails, GatewayCaptures, Tick, vars, inventoryVars, saleVars
<1> QED BY <1>2, <1>3, <1>4, <1>5, <1>6 DEF Next

\* The whole checkout, with its sessions, holds, events, sweeps and admins, does
\* nothing to orders and stock that OrderSettlement does not allow.
THEOREM Implementation == Spec => ImplementsSettlement
<1> QED BY InitSettles, StepSettles, Invariance, PTL
     DEF Spec, ImplementsSettlement, Settlement!Spec

-----------------------------------------------------------------------------
(* The ledger: what was sold and what is left *)

\* The units of a variant each order asks for.
Items(v) == [s \in Sessions |-> order[s].items[v]]

\* EveryUnitAccountedFor, with the sums as sums of functions.
Balanced ==
  \A v \in Variants :
    /\ sold[v] = SumOf(Items(v), PaidOrders)
    /\ stock[v] = InitialStock[v] + adjusted[v] - SumOf(Items(v), KeptOrders)

\* The units sold of a variant, as a sum over the orders.
LEMMA SoldIsSum ==
  ASSUME NEW T, T \subseteq Sessions, NEW v
  PROVE  Sold(T, v) = SumOf(Items(v), T)
<1> DEFINE f == Items(v)
           own(g) == g = [t \in SUBSET T |->
             IF t = {} THEN 0 ELSE LET x == CHOOSE y \in t : TRUE IN order[x].items[v] + g[t \ {x}]]
           sum(g) == g = [t \in SUBSET T |->
             IF t = {} THEN 0 ELSE LET x == CHOOSE y \in t : TRUE IN f[x] + g[t \ {x}]]
<1>1. \A x \in T : f[x] = order[x].items[v]
  BY DEF Items
<1> HIDE DEF f
<1>2. \A g : own(g) <=> sum(g)
  BY <1>1
<1>3. (CHOOSE g : own(g)) = (CHOOSE g : sum(g))
  <2> HIDE DEF own, sum
  <2> QED BY <1>2
<1>4. Sold(T, v) = (CHOOSE g : own(g))[T]
  BY DEF Sold, MapThenSumSet, MapThenFoldSet
<1>5. SumOf(f, T) = (CHOOSE g : sum(g))[T]
  BY DEF SumOf, MapThenSumSet, MapThenFoldSet
<1>6. Sold(T, v) = SumOf(f, T)
  BY <1>3, <1>4, <1>5
<1> QED BY <1>6 DEF f

\* The balance of the ledger, said with sums, is the one TLC checks.
LEMMA BalanceIsAccount == Balanced <=> EveryUnitAccountedFor
<1>1. PaidOrders \subseteq Sessions /\ KeptOrders \subseteq Sessions
  BY DEF PaidOrders, KeptOrders
<1>2. \A v \in Variants : Sold(PaidOrders, v) = SumOf(Items(v), PaidOrders)
                          /\ Sold(KeptOrders, v) = SumOf(Items(v), KeptOrders)
  BY <1>1, SoldIsSum
<1> QED BY <1>2 DEF Balanced, EveryUnitAccountedFor

\* Quantities are naturals, so every sum of them is one.
LEMMA ItemsAreNat ==
  ASSUME IInv, NEW v \in Variants, NEW s \in Sessions
  PROVE  Items(v)[s] = order[s].items[v] /\ order[s].items[v] \in Nat
<1>1. order[s] \in OrderRow
  BY DEF IInv, TypeOK
<1> QED BY <1>1 DEF Items, OrderRow

\* A step that neither sells nor restocks, nor touches a paid order's lines.
LEMMA SameLedger ==
  ASSUME IInv, IInv', Balanced, UNCHANGED <<stock, sold, adjusted>>,
         \A s \in Sessions :
           /\ order'[s].pay = "paid" <=> order[s].pay = "paid"
           /\ order[s].pay = "paid" => /\ order'[s].items = order[s].items
                                       /\ order'[s].status = "cancelled" <=> order[s].status = "cancelled"
  PROVE  Balanced'
<1>1. PaidOrders' = PaidOrders /\ KeptOrders' = KeptOrders
  BY DEF PaidOrders, KeptOrders
<1>2. IsFiniteSet(PaidOrders) /\ IsFiniteSet(KeptOrders)
  BY SetsAssumption, FS_Subset DEF PaidOrders, KeptOrders
<1>3. ASSUME NEW v \in Variants
      PROVE  /\ SumOf(Items(v), PaidOrders) = SumOf(Items(v)', PaidOrders)
             /\ SumOf(Items(v), KeptOrders) = SumOf(Items(v)', KeptOrders)
  <2>1. \A s \in PaidOrders : Items(v)[s] = Items(v)'[s]
    BY DEF Items, PaidOrders
  <2>2. KeptOrders \subseteq PaidOrders
    BY DEF KeptOrders
  <2> QED BY <1>2, <2>1, <2>2, SumSame
<1> QED BY <1>1, <1>3 DEF Balanced

\* A capture that is applied: one order more is paid and kept.
LEMMA SaleBalances ==
  ASSUME IInv, IInv', Balanced, NEW s \in Sessions, NEW e \in Event,
         order[s].pay # "paid", order[s].status # "cancelled", ApplySale(s, e.id)
  PROVE  Balanced'
<1>1. /\ order' = [order EXCEPT ![s].pay = "paid"] /\ order \in [Sessions -> OrderRow]
      /\ order[s] \in OrderRow /\ adjusted' = adjusted
      /\ stock' = [v \in Variants |-> stock[v] - order[s].items[v]]
      /\ sold' = [v \in Variants |-> sold[v] + order[s].items[v]]
  BY DEF ApplySale, IInv, TypeOK
<1>2. \A t \in Sessions : /\ order'[t].items = order[t].items /\ order'[t].status = order[t].status
                          /\ order'[t].pay = IF t = s THEN "paid" ELSE order[t].pay
  BY <1>1 DEF OrderRow
<1>3. /\ PaidOrders' = PaidOrders \cup {s} /\ s \notin PaidOrders
      /\ KeptOrders' = KeptOrders \cup {s} /\ s \notin KeptOrders
      /\ PaidOrders \subseteq Sessions /\ KeptOrders \subseteq Sessions
  BY <1>2 DEF PaidOrders, KeptOrders
<1>4. IsFiniteSet(PaidOrders) /\ IsFiniteSet(KeptOrders)
  BY <1>3, SetsAssumption, FS_Subset
<1>5. ASSUME NEW v \in Variants
      PROVE  /\ SumOf(Items(v)', PaidOrders') = order[s].items[v] + SumOf(Items(v), PaidOrders)
             /\ SumOf(Items(v)', KeptOrders') = order[s].items[v] + SumOf(Items(v), KeptOrders)
             /\ SumOf(Items(v), PaidOrders) \in Nat /\ SumOf(Items(v), KeptOrders) \in Nat
             /\ order[s].items[v] \in Nat
  <2>1. \A t \in Sessions : Items(v)[t] \in Nat /\ order[t].items[v] = Items(v)[t]
    BY ItemsAreNat
  <2>2. Items(v)' = Items(v)
    BY <1>2 DEF Items
  <2>3. SumOf(Items(v), PaidOrders) \in Nat /\ SumOf(Items(v), KeptOrders) \in Nat
    BY <1>3, <1>4, <2>1, SumNat
  <2>4. ASSUME NEW S, S \subseteq Sessions, IsFiniteSet(S), s \notin S
        PROVE  SumOf(Items(v), S \cup {s}) = Items(v)[s] + SumOf(Items(v), S)
    <3>1. \A t \in S \cup {s} : Items(v)[t] \in Int
      BY <2>1, <2>4
    <3> HIDE DEF Items
    <3> QED BY <2>4, <3>1, SumOneMore
  <2>5. /\ SumOf(Items(v), PaidOrders \cup {s}) = Items(v)[s] + SumOf(Items(v), PaidOrders)
        /\ SumOf(Items(v), KeptOrders \cup {s}) = Items(v)[s] + SumOf(Items(v), KeptOrders)
    BY <1>3, <1>4, <2>4
  <2> QED BY <1>3, <2>1, <2>2, <2>3, <2>5
<1>6. stock \in [Variants -> Nat] /\ sold \in [Variants -> Nat] /\ adjusted \in [Variants -> Int]
      /\ InitialStock \in [Variants -> Nat]
  BY NumbersAssumption DEF IInv, TypeOK
<1>7. ASSUME NEW v \in Variants
      PROVE  /\ sold'[v] = SumOf(Items(v)', PaidOrders')
             /\ stock'[v] = InitialStock[v] + adjusted'[v] - SumOf(Items(v)', KeptOrders')
  <2>1. PICK k \in Nat, p \in Nat, n \in Nat :
          /\ k = SumOf(Items(v), KeptOrders) /\ p = SumOf(Items(v), PaidOrders) /\ n = order[s].items[v]
    BY <1>5
  <2>2. stock[v] = InitialStock[v] + adjusted[v] - k /\ sold[v] = p
    BY <2>1 DEF Balanced
  <2>3. stock'[v] = stock[v] - n /\ sold'[v] = sold[v] + n /\ adjusted'[v] = adjusted[v]
    BY <1>1, <2>1
  <2>4. SumOf(Items(v)', PaidOrders') = n + p /\ SumOf(Items(v)', KeptOrders') = n + k
    BY <1>5, <2>1
  <2>5. stock[v] \in Nat /\ sold[v] \in Nat /\ adjusted[v] \in Int /\ InitialStock[v] \in Nat
    BY <1>6
  <2> QED BY <2>2, <2>3, <2>4, <2>5
<1> QED BY <1>7 DEF Balanced

\* The cancel of a paid order: its units come back, it is kept no longer.
LEMMA RestockBalances ==
  ASSUME IInv, IInv', Balanced, NEW s \in Sessions, AdminCancel(s, order[s]), order[s].pay = "paid"
  PROVE  Balanced'
<1>1. /\ order' = [order EXCEPT ![s].status = "cancelled"] /\ order \in [Sessions -> OrderRow]
      /\ order[s] \in OrderRow /\ order[s].status # "cancelled" /\ adjusted' = adjusted /\ sold' = sold
      /\ stock' = [v \in Variants |-> stock[v] + order[s].items[v]]
  BY DEF AdminCancel, StockWasDecremented, IInv, TypeOK
<1>2. \A t \in Sessions : /\ order'[t].items = order[t].items /\ order'[t].pay = order[t].pay
                          /\ order'[t].status = IF t = s THEN "cancelled" ELSE order[t].status
  BY <1>1 DEF OrderRow
<1>3. PaidOrders' = PaidOrders /\ KeptOrders' = KeptOrders \ {s} /\ s \in KeptOrders
      /\ KeptOrders \subseteq Sessions /\ IsFiniteSet(KeptOrders) /\ IsFiniteSet(KeptOrders \ {s})
  <2>1. KeptOrders \subseteq Sessions
    BY DEF KeptOrders, PaidOrders
  <2> QED BY <1>1, <1>2, <2>1, SetsAssumption, FS_Subset DEF PaidOrders, KeptOrders
<1>4. ASSUME NEW v \in Variants
      PROVE  /\ sold'[v] = SumOf(Items(v)', PaidOrders')
             /\ stock'[v] = InitialStock[v] + adjusted'[v] - SumOf(Items(v)', KeptOrders')
  <2>1. \A t \in Sessions : Items(v)[t] \in Nat /\ order[t].items[v] = Items(v)[t]
    BY ItemsAreNat
  <2>2. Items(v)' = Items(v)
    BY <1>2 DEF Items
  <2>3. PICK r \in Nat, n \in Nat : r = SumOf(Items(v), KeptOrders \ {s}) /\ n = order[s].items[v]
    BY <1>3, <2>1, SumNat
  <2>4. SumOf(Items(v), KeptOrders) = Items(v)[s] + SumOf(Items(v), KeptOrders \ {s})
    BY <1>3, <2>1, SumPick
  <2>5. stock[v] = InitialStock[v] + adjusted[v] - (n + r) /\ sold[v] = SumOf(Items(v), PaidOrders)
    BY <2>1, <2>3, <2>4 DEF Balanced
  <2>6. stock[v] \in Nat /\ adjusted[v] \in Int /\ InitialStock[v] \in Nat
    BY NumbersAssumption DEF IInv, TypeOK
  <2>7. stock'[v] = stock[v] + n /\ sold'[v] = sold[v] /\ adjusted'[v] = adjusted[v]
    BY <1>1, <2>3
  <2>8. SumOf(Items(v)', KeptOrders') = r
    BY <1>3, <2>2, <2>3
  <2> QED BY <1>3, <2>2, <2>5, <2>6, <2>7, <2>8
<1> QED BY <1>4 DEF Balanced

\* An adjustment moves the stock and the deltas alike.
LEMMA AdjustBalances ==
  ASSUME IInv, IInv', Balanced, NEW v \in Variants, NEW target \in 0..MaxStock, AdminAdjust(v, target)
  PROVE  Balanced'
<1>1. /\ order' = order /\ sold' = sold
      /\ stock' = [stock EXCEPT ![v] = target]
      /\ adjusted' = [adjusted EXCEPT ![v] = adjusted[v] + target - stock[v]]
      /\ target \in Nat
  BY NumbersAssumption DEF AdminAdjust, saleVars
<1>2. PaidOrders' = PaidOrders /\ KeptOrders' = KeptOrders /\ \A w : Items(w)' = Items(w)
  BY <1>1 DEF PaidOrders, KeptOrders, Items
<1>3. stock \in [Variants -> Nat] /\ adjusted \in [Variants -> Int] /\ InitialStock \in [Variants -> Nat]
  BY NumbersAssumption DEF IInv, TypeOK
<1>4. ASSUME NEW w \in Variants
      PROVE  stock'[w] = InitialStock[w] + adjusted'[w] - SumOf(Items(w), KeptOrders)
  <2>1. stock[w] = InitialStock[w] + adjusted[w] - SumOf(Items(w), KeptOrders)
    BY DEF Balanced
  <2>2. IsFiniteSet(KeptOrders) /\ KeptOrders \subseteq Sessions
    BY SetsAssumption, FS_Subset DEF KeptOrders, PaidOrders
  <2>3. \A t \in KeptOrders : Items(w)[t] \in Nat
    BY <2>2, ItemsAreNat
  <2>4. PICK k \in Nat : k = SumOf(Items(w), KeptOrders)
    BY <2>2, <2>3, SumNat
  <2>5. stock'[w] - stock[w] = adjusted'[w] - adjusted[w]
    BY <1>1, <1>3
  <2>6. stock'[w] \in Int /\ stock[w] \in Int /\ adjusted'[w] \in Int /\ adjusted[w] \in Int /\ InitialStock[w] \in Int
    BY <1>1, <1>3
  <2> QED BY <2>1, <2>4, <2>5, <2>6
<1> QED BY <1>1, <1>2, <1>4 DEF Balanced

\* An empty ledger balances.
LEMMA InitBalanced == Init => Balanced
<1> SUFFICES ASSUME Init PROVE Balanced
  OBVIOUS
<1>1. PaidOrders = {} /\ KeptOrders = {}
  BY DEF Init, NoOrder, PaidOrders, KeptOrders
<1>2. \A v : SumOf(Items(v), {}) = 0
  BY SumEmpty
<1> QED BY <1>1, <1>2, NumbersAssumption DEF Balanced, Init

\* A refused, duplicate or failed event moves no goods.
LEMMA WebhookBalances ==
  ASSUME IInv, IInv', Balanced, NEW s \in Sessions, NEW e \in Event, Webhook(s, e)
  PROVE  Balanced'
<1>1. order \in [Sessions -> OrderRow] /\ order[s] \in OrderRow /\ SessionInv(s)
  BY DEF IInv, TypeOK
<1>2. CASE ApplySale(s, e.id) /\ payment[s].status # "captured" /\ order[s].status # "cancelled"
  <2>1. order[s].pay # "paid"
    BY <1>1, <1>2 DEF SessionInv
  <2> QED BY <1>2, <2>1, SaleBalances
<1>3. CASE UNCHANGED <<stock, sold, adjusted, order>>
  BY <1>3, SameLedger
<1>4. CASE OnFailed(s, e.id, payment[s], order[s])
  <2>1. UNCHANGED <<stock, sold, adjusted>> /\ order[s].pay # "paid"
        /\ order' = [order EXCEPT ![s].pay = IF order[s].pay = "failed" THEN order[s].pay ELSE "failed"]
    BY <1>4 DEF OnFailed, Settled, inventoryVars
  <2>2. \A t \in Sessions : /\ order'[t].pay = "paid" <=> order[t].pay = "paid"
                            /\ order'[t].items = order[t].items /\ order'[t].status = order[t].status
    BY <1>1, <2>1 DEF OrderRow
  <2> QED BY <2>1, <2>2, SameLedger
<1>5. CASE OnCaptured(s, e.id, payment[s], order[s])
  BY <1>2, <1>3, <1>5 DEF OnCaptured, AlreadyCaptured, NeedsRefund, RecordRefund, inventoryVars
<1> QED BY <1>4, <1>5 DEF Webhook

\* An order that nobody has paid changes no account.
LEMMA PayBalances ==
  ASSUME IInv, Balanced, NEW s \in Sessions, HoldBecomesOrder(s)
  PROVE  Balanced'
<1>0. IInv' /\ order \in [Sessions -> OrderRow]
  BY PayIInv DEF IInv, TypeOK
<1>1. order[s].pay # "paid" /\ UNCHANGED <<stock, sold, adjusted>>
  BY DEF HoldBecomesOrder, PlaceOrder, IInv, SessionInv
<1>2. order' = [order EXCEPT ![s] = [status |-> "placed", pay |-> "pending", items |-> LinesToPay(s)]]
  BY DEF HoldBecomesOrder, PlaceOrder
<1>3. \A t \in Sessions : t # s => order'[t] = order[t]
  BY <1>0, <1>2
<1>4. order'[s].pay = "pending"
  BY <1>0, <1>2
<1> QED BY <1>0, <1>1, <1>3, <1>4, SameLedger

\* Every step keeps the balance.
LEMMA StepBalances == IInv /\ Balanced /\ [Next]_vars => Balanced'
<1> SUFFICES ASSUME IInv, Balanced, [Next]_vars PROVE Balanced'
  OBVIOUS
<1>0. IInv' /\ order \in [Sessions -> OrderRow]
  BY StepIInv DEF IInv, TypeOK
<1>1. ASSUME UNCHANGED <<stock, sold, adjusted, order>> PROVE Balanced'
  BY <1>0, <1>1, SameLedger
<1>2. ASSUME NEW s \in Sessions, StartPayment(s) PROVE Balanced'
  BY <1>2, PaymentIsForAHold, PayBalances
<1>3. ASSUME NEW s \in Sessions, CancelCheckout(s) PROVE Balanced'
  <2>1. UNCHANGED <<stock, sold, adjusted>>
        /\ order' = IF order[s].pay = "pending"
                    THEN [order EXCEPT ![s] = [order[s] EXCEPT !.status = "cancelled", !.pay = "failed"]]
                    ELSE order
    BY <1>3 DEF CancelCheckout
  <2>2. \A t \in Sessions : \/ order'[t] = order[t]
                            \/ order'[t].pay # "paid" /\ order[t].pay # "paid"
    BY <1>0, <2>1 DEF OrderRow
  <2> QED BY <1>0, <2>1, <2>2, SameLedger
<1>4. CASE Sweep
  <2>1. UNCHANGED <<stock, sold, adjusted>> /\ order' = [s \in Sessions |-> SweptOrder(s)]
    BY <1>4 DEF Sweep
  <2>2. ASSUME NEW t \in Sessions
        PROVE  order'[t] = order[t] \/ (order'[t].pay # "paid" /\ order[t].pay # "paid")
    <3>1. order[t] \in OrderRow /\ order'[t] = SweptOrder(t)
      BY <1>0, <2>1
    <3>2. \/ order'[t] = order[t]
          \/ order[t].pay = "pending" /\ order'[t] = [order[t] EXCEPT !.pay = "failed"]
      BY <3>1 DEF SweptOrder
    <3> QED BY <3>1, <3>2 DEF OrderRow
  <2> QED BY <1>0, <2>1, <2>2, SameLedger
<1>5. ASSUME NEW s \in Sessions, NEW to \in OrderStatus, Fulfil(s, to) PROVE Balanced'
  <2>1. UNCHANGED <<stock, sold, adjusted>> /\ order' = [order EXCEPT ![s].status = to]
        /\ order[s].status # "cancelled" /\ to # "cancelled"
    BY <1>5 DEF Fulfil, inventoryVars
  <2>2. \A t \in Sessions : /\ order'[t].pay = order[t].pay /\ order'[t].items = order[t].items
                            /\ order'[t].status = "cancelled" <=> order[t].status = "cancelled"
    BY <1>0, <2>1 DEF OrderRow
  <2> QED BY <1>0, <2>1, <2>2, SameLedger
<1>6. ASSUME NEW s \in Sessions, AdminCancel(s, order[s]) PROVE Balanced'
  <2>1. CASE order[s].pay = "paid"
    BY <1>0, <1>6, <2>1, RestockBalances
  <2>2. CASE order[s].pay # "paid"
    <3>1. UNCHANGED <<stock, sold, adjusted>> /\ order' = [order EXCEPT ![s].status = "cancelled"]
      BY <1>6, <2>2 DEF AdminCancel, StockWasDecremented
    <3>2. \A t \in Sessions : \/ order'[t] = order[t]
                              \/ order'[t].pay # "paid" /\ order[t].pay # "paid"
      BY <1>0, <2>2, <3>1 DEF OrderRow
    <3> QED BY <1>0, <3>1, <3>2, SameLedger
  <2> QED BY <2>1, <2>2
<1>7. CASE UserNext
  BY <1>1, <1>2, <1>3, <1>7 DEF UserNext, StartCheckout
<1>8. CASE GatewayNext
  BY <1>1, <1>8 DEF GatewayNext, GatewayFails, GatewayCaptures, inventoryVars, saleVars
<1>9. CASE AdminNext
  BY <1>0, <1>5, <1>6, <1>9, AdjustBalances DEF AdminNext
<1>10. CASE Tick \/ UNCHANGED vars
  BY <1>1, <1>10 DEF Tick, vars, inventoryVars, saleVars
<1> QED BY <1>0, <1>4, <1>7, <1>8, <1>9, <1>10, WebhookBalances DEF Next

\* Whatever is sold, refunded, cancelled, restocked and adjusted in whatever
\* order, the shelf and the sold counter are what the paid orders say.
THEOREM EveryUnitIsAccountedFor == Spec => []EveryUnitAccountedFor
<1>1. Init => IInv /\ Balanced
  BY InitIInv, InitBalanced
<1>2. IInv /\ Balanced /\ [Next]_vars => IInv' /\ Balanced'
  BY StepIInv, StepBalances
<1>3. Balanced => EveryUnitAccountedFor
  BY BalanceIsAccount
<1> QED BY <1>1, <1>2, <1>3, PTL DEF Spec

-----------------------------------------------------------------------------
(* The holds: who may take a unit from under a hold *)

\* What each session holds of a variant.
Held(v) == [s \in Sessions |-> HeldBy(s, v)]

\* The units reserved of a variant, as a sum over the sessions.
LEMMA ReservedIsSum ==
  ASSUME NEW v, NEW S, S \subseteq Sessions
  PROVE  /\ ReservedBy(S, v) = SumOf(Held(v), S)
         /\ ReservedBy(S, v)' = SumOf(Held(v)', S)
<1>1. ReservedBy(S, v) = SumOf(Held(v), S)
  <2> DEFINE f == Held(v)
             own(g) == g = [t \in SUBSET S |->
               IF t = {} THEN 0 ELSE LET x == CHOOSE y \in t : TRUE IN HeldBy(x, v) + g[t \ {x}]]
             sum(g) == g = [t \in SUBSET S |->
               IF t = {} THEN 0 ELSE LET x == CHOOSE y \in t : TRUE IN f[x] + g[t \ {x}]]
  <2>1. \A x \in S : f[x] = HeldBy(x, v)
    BY DEF Held
  <2> HIDE DEF f
  <2>2. \A g : own(g) <=> sum(g)
    BY <2>1
  <2>3. (CHOOSE g : own(g)) = (CHOOSE g : sum(g))
    <3> HIDE DEF own, sum
    <3> QED BY <2>2
  <2>4. ReservedBy(S, v) = (CHOOSE g : own(g))[S]
    BY DEF ReservedBy, MapThenSumSet, MapThenFoldSet
  <2>5. SumOf(f, S) = (CHOOSE g : sum(g))[S]
    BY DEF SumOf, MapThenSumSet, MapThenFoldSet
  <2>6. ReservedBy(S, v) = SumOf(f, S)
    BY <2>3, <2>4, <2>5
  <2> QED BY <2>6 DEF f
<1>2. ReservedBy(S, v)' = SumOf(Held(v)', S)
  <2> DEFINE f == Held(v)'
             own(g) == g = [t \in SUBSET S |->
               IF t = {} THEN 0 ELSE LET x == CHOOSE y \in t : TRUE IN HeldBy(x, v)' + g[t \ {x}]]
             sum(g) == g = [t \in SUBSET S |->
               IF t = {} THEN 0 ELSE LET x == CHOOSE y \in t : TRUE IN f[x] + g[t \ {x}]]
  <2>1. \A x \in S : f[x] = HeldBy(x, v)'
    BY DEF Held
  <2> HIDE DEF f
  <2>2. \A g : own(g) <=> sum(g)
    BY <2>1
  <2>3. (CHOOSE g : own(g)) = (CHOOSE g : sum(g))
    <3> HIDE DEF own, sum
    <3> QED BY <2>2
  <2>4. ReservedBy(S, v)' = (CHOOSE g : own(g))[S]
    BY DEF ReservedBy, MapThenSumSet, MapThenFoldSet
  <2>5. SumOf(f, S) = (CHOOSE g : sum(g))[S]
    BY DEF SumOf, MapThenSumSet, MapThenFoldSet
  <2>6. ReservedBy(S, v)' = SumOf(f, S)
    BY <2>3, <2>4, <2>5
  <2> QED BY <2>6 DEF f
<1> QED BY <1>1, <1>2

\* Every hold is a natural, before and after a step.
LEMMA HeldAreNat ==
  ASSUME IInv, IInv', NEW v \in Variants
  PROVE  \A s \in Sessions :
           /\ Held(v)[s] = HeldBy(s, v) /\ Held(v)[s] \in Nat
           /\ Held(v)'[s] = HeldBy(s, v)' /\ Held(v)'[s] \in Nat
<1>1. \A s \in Sessions : reservation[s][v] \in ReservationRow /\ reservation'[s][v] \in ReservationRow
  BY DEF IInv, TypeOK
<1>2. \A s \in Sessions : HeldBy(s, v) \in Nat /\ HeldBy(s, v)' \in Nat
  BY <1>1 DEF ReservationRow, HeldBy
<1> QED BY <1>2 DEF Held

\* By how much the holds exceed the stock, as sums.
LEMMA DeficitIs ==
  ASSUME IInv, IInv', NEW v \in Variants
  PROVE  \E r \in Nat, q \in Nat, k \in Nat, l \in Nat :
           /\ r = SumOf(Held(v), Sessions) /\ q = SumOf(Held(v)', Sessions)
           /\ k = stock[v] /\ l = stock'[v]
           /\ Deficit(v) = IF r > k THEN r - k ELSE 0
           /\ Deficit(v)' = IF q > l THEN q - l ELSE 0
<1>1. SumOf(Held(v), Sessions) \in Nat /\ SumOf(Held(v)', Sessions) \in Nat
  BY HeldAreNat, SetsAssumption, SumNat
<1>2. ReservedBy(Sessions, v) = SumOf(Held(v), Sessions) /\ ReservedBy(Sessions, v)' = SumOf(Held(v)', Sessions)
  BY ReservedIsSum
<1>3. stock[v] \in Nat /\ stock'[v] \in Nat
  BY DEF IInv, TypeOK
<1> QED BY <1>1, <1>2, <1>3 DEF Deficit

\* A step that holds nothing more and takes nothing off the shelf.
LEMMA HoldsFall ==
  ASSUME IInv, IInv', NEW v \in Variants, stock'[v] >= stock[v],
         \A s \in Sessions : HeldBy(s, v)' <= HeldBy(s, v)
  PROVE  ~(Deficit(v)' > Deficit(v))
<1>1. PICK r \in Nat, q \in Nat, k \in Nat, l \in Nat :
           /\ r = SumOf(Held(v), Sessions) /\ q = SumOf(Held(v)', Sessions)
           /\ k = stock[v] /\ l = stock'[v]
           /\ Deficit(v) = IF r > k THEN r - k ELSE 0
           /\ Deficit(v)' = IF q > l THEN q - l ELSE 0
  BY DeficitIs
<1>2. q <= r
  <2>1. \A s \in Sessions : Held(v)'[s] \in Int /\ Held(v)[s] \in Int /\ Held(v)'[s] <= Held(v)[s]
    BY HeldAreNat
  <2>2. SumOf(Held(v)', Sessions) <= SumOf(Held(v), Sessions)
    BY <2>1, SetsAssumption, SumMono
  <2> QED BY <1>1, <2>2
<1> QED BY <1>1, <1>2

\* A reservation row that is left alone, or no longer active, holds no more.
LEMMA RowsRelease ==
  ASSUME IInv, IInv', now' >= now, NEW s \in Sessions, NEW v \in Variants,
         \/ reservation'[s][v] = reservation[s][v]
         \/ reservation'[s][v].status \notin ActiveReservation
  PROVE  HeldBy(s, v)' <= HeldBy(s, v)
<1>1. reservation[s][v] \in ReservationRow /\ reservation'[s][v] \in ReservationRow /\ now \in Nat /\ now' \in Nat
  BY DEF IInv, TypeOK
<1>2. HeldBy(s, v)' = 0 \/ (HeldBy(s, v)' = HeldBy(s, v) /\ HeldBy(s, v) \in Nat)
  BY <1>1 DEF HeldBy, HoldsStock, ReservationRow
<1>3. HeldBy(s, v) \in Nat
  BY <1>1 DEF HeldBy, ReservationRow
<1> QED BY <1>2, <1>3

\* A session in payment holds what its order asks for.
LEMMA HoldInPayment ==
  ASSUME IInv, NEW s \in Sessions, InTime(s), NEW v \in Variants
  PROVE  HeldBy(s, v) = order[s].items[v] /\ order[s].items[v] \in Nat
<1>1. SessionInv(s) /\ reservation[s][v] \in ReservationRow /\ session[s] \in SessionRow /\ now \in Nat
  BY DEF IInv, TypeOK
<1>2. order[s].items[v] = reservation[s][v].quantity
  BY <1>1 DEF SessionInv, Linked, InTime
<1>3. reservation[s][v].quantity \in Nat
  BY <1>1 DEF ReservationRow
<1>4. CASE reservation[s][v] = NoReservation
  BY <1>2, <1>4 DEF HeldBy, HoldsStock, NoReservation, ActiveReservation
<1>5. CASE reservation[s][v] # NoReservation
  <2>1. reservation[s][v].status = "payment_processing" /\ reservation[s][v].expires > now
    BY <1>1, <1>5 DEF SessionInv, StatusOfRows, InTime
  <2> QED BY <1>2, <1>3, <2>1 DEF HeldBy, HoldsStock, ActiveReservation
<1> QED BY <1>2, <1>3, <1>4, <1>5

-----------------------------------------------------------------------------
\* A checkout takes no more than the others leave on the shelf.
LEMMA StartCheckoutEatsNothing ==
  ASSUME IInv, IInv', NEW u \in Users, NEW s \in Sessions, NEW cart \in Carts, StartCheckout(u, s, cart),
         NEW v \in Variants
  PROVE  ~(Deficit(v)' > Deficit(v))
<1>1. /\ UNCHANGED <<now, stock>> /\ reservation' = [reservation EXCEPT ![s] = HeldRows(cart)]
      /\ reservation \in [Sessions -> [Variants -> ReservationRow]]
      /\ cart[v] \in Nat
      /\ cart[v] > 0 => cart[v] <= AvailableTo(s, v)
      /\ now \in Nat /\ ReservationTTL \in Nat \ {0}
  BY SetsAssumption, NumbersAssumption DEF StartCheckout, IInv, TypeOK
<1>2. \A t \in Sessions \ {s} : reservation'[t][v] = reservation[t][v]
  BY <1>1
<1>3. reservation'[s][v] = HeldRows(cart)[v]
  BY <1>1
<1>4. CASE cart[v] = 0
  <2>1. reservation'[s][v].status \notin ActiveReservation
    BY <1>3, <1>4 DEF HeldRows, NoReservation, ActiveReservation
  <2>2. \A t \in Sessions : HeldBy(t, v)' <= HeldBy(t, v)
    <3>1. now' >= now
      BY <1>1
    <3> QED BY <1>2, <2>1, <3>1, RowsRelease
  <2>3. stock'[v] >= stock[v]
    BY <1>1 DEF IInv, TypeOK
  <2> QED BY <2>2, <2>3, HoldsFall
<1>5. CASE cart[v] > 0
  <2>1. HeldBy(s, v)' = cart[v]
    BY <1>1, <1>3, <1>5 DEF HeldBy, HoldsStock, HeldRows, ActiveReservation
  <2>2. \A t \in Sessions \ {s} : HeldBy(t, v)' = HeldBy(t, v)
    BY <1>1, <1>2 DEF HeldBy, HoldsStock
  <2>3. PICK r \in Nat, q \in Nat, k \in Nat, l \in Nat :
           /\ r = SumOf(Held(v), Sessions) /\ q = SumOf(Held(v)', Sessions)
           /\ k = stock[v] /\ l = stock'[v]
           /\ Deficit(v) = IF r > k THEN r - k ELSE 0
           /\ Deficit(v)' = IF q > l THEN q - l ELSE 0
    BY DeficitIs
  <2>4. IsFiniteSet(Sessions \ {s})
    BY SetsAssumption, FS_Subset
  <2>5. SumOf(Held(v)', Sessions) = Held(v)'[s] + SumOf(Held(v)', Sessions \ {s})
    <3>1. \A t \in Sessions : Held(v)'[t] \in Int
      BY HeldAreNat
    <3> QED BY <3>1, SetsAssumption, SumPick
  <2>6. SumOf(Held(v)', Sessions \ {s}) = SumOf(Held(v), Sessions \ {s})
    <3>1. \A t \in Sessions \ {s} : Held(v)'[t] = Held(v)[t]
      BY <2>2, HeldAreNat
    <3> QED BY <2>4, <3>1, SumSame
  <2>7. AvailableTo(s, v) = stock[v] - SumOf(Held(v), Sessions \ {s})
    BY ReservedIsSum DEF AvailableTo
  <2>8. PICK o \in Nat : o = SumOf(Held(v), Sessions \ {s})
    <3>1. \A t \in Sessions \ {s} : Held(v)[t] \in Nat
      BY HeldAreNat
    <3> QED BY <2>4, <3>1, SumNat
  <2>9. q = cart[v] + o /\ cart[v] <= k - o /\ l = k
    BY <1>1, <1>5, <2>1, <2>3, <2>5, <2>6, <2>7, <2>8, HeldAreNat
  <2> QED BY <1>1, <2>3, <2>8, <2>9
<1> QED BY <1>1, <1>4, <1>5

\* /pay keeps the hold as it is.
LEMMA PayEatsNothing ==
  ASSUME IInv, IInv', NEW s \in Sessions, HoldBecomesOrder(s), session[s].expires > now,
         NEW v \in Variants
  PROVE  ~(Deficit(v)' > Deficit(v))
<1>1. /\ UNCHANGED <<now, stock>> /\ session[s].status = "active" /\ session[s].expires > now
      /\ reservation \in [Sessions -> [Variants -> ReservationRow]] /\ now \in Nat
      /\ reservation' = [reservation EXCEPT ![s] =
            [w \in Variants |->
               IF reservation[s][w].status = "reserved"
               THEN [reservation[s][w] EXCEPT !.status = "payment_processing", !.expires = now + PaymentTTL]
               ELSE reservation[s][w]]]
  BY DEF HoldBecomesOrder, PlaceOrder, IInv, TypeOK
<1>2. \A t \in Sessions \ {s} : reservation'[t][v] = reservation[t][v]
  BY <1>1
<1>3. reservation'[s][v] =
        IF reservation[s][v].status = "reserved"
        THEN [reservation[s][v] EXCEPT !.status = "payment_processing", !.expires = now + PaymentTTL]
        ELSE reservation[s][v]
  BY <1>1
<1>4. reservation[s][v] \in ReservationRow /\ SessionInv(s) /\ stock[v] \in Nat /\ stock'[v] >= stock[v] /\ now' >= now
  <2>1. stock[v] \in Nat /\ reservation[s][v] \in ReservationRow /\ SessionInv(s)
    BY DEF IInv, TypeOK
  <2>2. now' = now /\ stock' = stock /\ now \in Nat
    BY <1>1
  <2> QED BY <2>1, <2>2
<1>5. HeldBy(s, v)' <= HeldBy(s, v)
  <2>1. CASE reservation[s][v].status = "reserved"
    <3>1. reservation[s][v] # NoReservation
      BY <2>1 DEF NoReservation
    <3>2. reservation[s][v].expires > now
      BY <1>1, <1>4, <3>1 DEF SessionInv
    <3>3. HeldBy(s, v) = reservation[s][v].quantity
      BY <2>1, <3>2 DEF HeldBy, HoldsStock, ActiveReservation
    <3>4. reservation'[s][v].quantity = reservation[s][v].quantity
      BY <1>3, <1>4, <2>1 DEF ReservationRow
    <3>5. reservation[s][v].quantity \in Nat
      BY <1>4 DEF ReservationRow
    <3> QED BY <3>3, <3>4, <3>5 DEF HeldBy
  <2>2. CASE reservation[s][v].status # "reserved"
    BY <1>3, <1>4, <2>2, RowsRelease
  <2> QED BY <2>1, <2>2
<1>6. \A t \in Sessions : HeldBy(t, v)' <= HeldBy(t, v)
  BY <1>2, <1>4, <1>5, RowsRelease
<1> QED BY <1>1, <1>4, <1>6, HoldsFall

\* A step that only releases holds and only adds stock.
LEMMA ReleaseEatsNothing ==
  ASSUME IInv, IInv', NEW v \in Variants, now' >= now, stock'[v] >= stock[v],
         \A t \in Sessions : \/ reservation'[t][v] = reservation[t][v]
                             \/ reservation'[t][v].status \notin ActiveReservation
  PROVE  ~(Deficit(v)' > Deficit(v))
<1>1. \A t \in Sessions : HeldBy(t, v)' <= HeldBy(t, v)
  BY RowsRelease
<1> QED BY <1>1, HoldsFall

\* The capture of a hold still running takes what it held.
LEMMA SaleInTimeEatsNothing ==
  ASSUME IInv, IInv', NEW s \in Sessions, NEW id, ApplySale(s, id), UNCHANGED now, InTime(s), NEW v \in Variants
  PROVE  ~(Deficit(v)' > Deficit(v))
<1>1. /\ stock'[v] = stock[v] - order[s].items[v] /\ stock[v] \in Nat
      /\ reservation' = [reservation EXCEPT ![s] =
           [w \in Variants |-> IF reservation[s][w].status = "none" THEN reservation[s][w]
                               ELSE [reservation[s][w] EXCEPT !.status = "completed"]]]
      /\ reservation \in [Sessions -> [Variants -> ReservationRow]] /\ reservation[s][v] \in ReservationRow
  BY DEF ApplySale, TransitionSession, IInv, TypeOK
<1>2. \A t \in Sessions \ {s} : HeldBy(t, v)' = HeldBy(t, v)
  BY <1>1 DEF HeldBy, HoldsStock
<1>3. HeldBy(s, v)' = 0
  BY <1>1 DEF HeldBy, HoldsStock, ActiveReservation, ReservationRow
<1>4. HeldBy(s, v) = order[s].items[v] /\ order[s].items[v] \in Nat
  BY HoldInPayment
<1>5. PICK r \in Nat, q \in Nat, k \in Nat, l \in Nat :
           /\ r = SumOf(Held(v), Sessions) /\ q = SumOf(Held(v)', Sessions)
           /\ k = stock[v] /\ l = stock'[v]
           /\ Deficit(v) = IF r > k THEN r - k ELSE 0
           /\ Deficit(v)' = IF q > l THEN q - l ELSE 0
  BY DeficitIs
<1>6. SumOf(Held(v)', Sessions) = SumOf(Held(v), Sessions) - Held(v)[s] + Held(v)'[s]
  <2>1. \A t \in Sessions : Held(v)[t] \in Int /\ Held(v)'[t] \in Int
    BY HeldAreNat
  <2>2. \A t \in Sessions \ {s} : Held(v)[t] = Held(v)'[t]
    BY <1>2, HeldAreNat
  <2>3. PICK f, e : f = Held(v) /\ e = Held(v)'
    OBVIOUS
  <2>4. /\ \A t \in Sessions : f[t] \in Int /\ e[t] \in Int
        /\ \A t \in Sessions \ {s} : f[t] = e[t]
    BY <2>1, <2>2, <2>3
  <2>5. SumOf(e, Sessions) = SumOf(f, Sessions) - f[s] + e[s]
    BY <2>4, SetsAssumption, SumChange
  <2> QED BY <2>3, <2>5
<1>7. q = r - order[s].items[v] /\ l = k - order[s].items[v]
  BY <1>1, <1>3, <1>4, <1>5, <1>6, HeldAreNat
<1> QED BY <1>4, <1>5, <1>7

\* An adjustment stays above what is held.
LEMMA AdjustEatsNothing ==
  ASSUME IInv, IInv', NEW w \in Variants, NEW target \in 0..MaxStock, AdminAdjust(w, target), NEW v \in Variants
  PROVE  ~(Deficit(v)' > Deficit(v))
<1>1. /\ UNCHANGED <<now, reservation>> /\ stock' = [stock EXCEPT ![w] = target]
      /\ target >= ReservedBy(Sessions, w) /\ target \in Nat /\ stock \in [Variants -> Nat]
  BY NumbersAssumption DEF AdminAdjust, holdVars, IInv, TypeOK
<1>2. CASE v = w
  <2>1. Held(v)' = Held(v)
    BY <1>1 DEF Held, HeldBy, HoldsStock
  <2>2. stock'[v] = target /\ target >= SumOf(Held(v), Sessions)
    BY <1>1, <1>2, ReservedIsSum
  <2>3. PICK r \in Nat, q \in Nat, k \in Nat, l \in Nat :
           /\ r = SumOf(Held(v), Sessions) /\ q = SumOf(Held(v)', Sessions)
           /\ k = stock[v] /\ l = stock'[v]
           /\ Deficit(v) = IF r > k THEN r - k ELSE 0
           /\ Deficit(v)' = IF q > l THEN q - l ELSE 0
    BY DeficitIs
  <2>4. l >= q
    BY <2>1, <2>2, <2>3
  <2> QED BY <2>3, <2>4
<1>3. CASE v # w
  <2>1. stock'[v] >= stock[v] /\ now' >= now
    BY <1>1, <1>3 DEF IInv, TypeOK
  <2> QED BY <1>1, <2>1, ReleaseEatsNothing
<1> QED BY <1>2, <1>3

\* What every step other than the capture of a lapsed hold does to the deficit.
LEMMA OnlyCapturesEat ==
  ASSUME IInv, [Next]_vars, NEW v \in Variants, Deficit(v)' > Deficit(v)
  PROVE  \E s \in Sessions : order[s].pay # "paid" /\ order'[s].pay = "paid" /\ ~InTime(s)
<1>0. IInv' /\ now \in Nat /\ stock[v] \in Nat /\ order \in [Sessions -> OrderRow]
      /\ reservation \in [Sessions -> [Variants -> ReservationRow]]
  BY StepIInv DEF IInv, TypeOK
<1>1. ASSUME now' = now \/ now' = now + 1, stock' = stock,
             \A t \in Sessions : \/ reservation'[t][v] = reservation[t][v]
                                 \/ reservation'[t][v].status \notin ActiveReservation
      PROVE  FALSE
  <2>1. now' >= now /\ stock'[v] >= stock[v]
    BY <1>0, <1>1
  <2> QED BY <1>0, <1>1, <2>1, ReleaseEatsNothing
<1>2. ASSUME NEW s \in Sessions, NEW to \in {"completed", "cancelled"}, TransitionSession(s, to)
      PROVE  \A t \in Sessions : \/ reservation'[t][v] = reservation[t][v]
                                 \/ reservation'[t][v].status \notin ActiveReservation
  BY <1>0, <1>2 DEF TransitionSession, ActiveReservation, ReservationRow
<1>3. CASE UserNext
  <2>1. ASSUME NEW s \in Sessions, CancelCheckout(s) PROVE FALSE
    <3>1. now' = now /\ stock' = stock
          /\ reservation' = [reservation EXCEPT ![s] =
               [w \in Variants |-> IF reservation[s][w].status \in ActiveReservation
                                   THEN [reservation[s][w] EXCEPT !.status = "cancelled"]
                                   ELSE reservation[s][w]]]
      BY <2>1 DEF CancelCheckout
    <3>2. \A t \in Sessions : \/ reservation'[t][v] = reservation[t][v]
                              \/ reservation'[t][v].status \notin ActiveReservation
      BY <1>0, <3>1 DEF ActiveReservation, ReservationRow
    <3> QED BY <1>1, <3>1, <3>2
  <2>2. ASSUME NEW s \in Sessions, StartPayment(s) PROVE FALSE
    BY <1>0, <2>2, PaymentIsForAHold, PayEatsNothing DEF StartPayment, Payable
  <2> QED BY <1>0, <1>3, <2>1, <2>2, StartCheckoutEatsNothing DEF UserNext
<1>4. CASE GatewayNext
  BY <1>1, <1>4 DEF GatewayNext, GatewayFails, GatewayCaptures, inventoryVars, holdVars
<1>5. CASE Sweep
  <2>1. now' = now /\ stock' = stock /\ \A t \in Sessions : reservation'[t][v] = SweptReservation(reservation[t][v])
    BY <1>5 DEF Sweep
  <2>2. ASSUME NEW t \in Sessions
        PROVE  \/ reservation'[t][v] = reservation[t][v]
               \/ reservation'[t][v].status \notin ActiveReservation
    <3>1. reservation[t][v] \in ReservationRow
      BY <1>0
    <3> QED BY <2>1, <3>1 DEF SweptReservation, ReservationRow, ActiveReservation
  <2> QED BY <1>1, <2>1, <2>2
<1>6. CASE AdminNext
  <2>1. ASSUME NEW s \in Sessions, NEW to \in OrderStatus, Fulfil(s, to) PROVE FALSE
    BY <1>1, <2>1 DEF Fulfil, inventoryVars, holdVars
  <2>2. ASSUME NEW s \in Sessions, AdminCancel(s, order[s]) PROVE FALSE
    <3>1. CASE TransitionSession(s, "cancelled") /\ UNCHANGED <<now, stock>>
      BY <1>1, <1>2, <3>1
    <3>2. CASE UNCHANGED holdVars /\ now' = now /\ stock' = [w \in Variants |-> stock[w] + order[s].items[w]]
      <4>1. order[s].items[v] \in Nat
        BY <1>0 DEF OrderRow
      <4>2. stock'[v] >= stock[v] /\ now' >= now /\ reservation' = reservation
        BY <1>0, <3>2, <4>1 DEF holdVars
      <4> QED BY <1>0, <4>2, ReleaseEatsNothing
    <3> QED BY <2>2, <3>1, <3>2 DEF AdminCancel
  <2> QED BY <1>0, <1>6, <2>1, <2>2, AdjustEatsNothing DEF AdminNext
<1>7. CASE Tick \/ UNCHANGED vars
  BY <1>1, <1>7 DEF Tick, vars, inventoryVars, holdVars
<1>8. ASSUME NEW s \in Sessions, NEW e \in Event, Webhook(s, e)
      PROVE  order[s].pay # "paid" /\ order'[s].pay = "paid" /\ ~InTime(s)
  <2>1. CASE OnFailed(s, e.id, payment[s], order[s])
    BY <1>1, <1>2, <2>1 DEF OnFailed, inventoryVars
  <2>2. CASE UNCHANGED <<inventoryVars, holdVars, now>>
    BY <1>1, <2>2 DEF inventoryVars, holdVars
  <2>3. CASE ApplySale(s, e.id) /\ now' = now /\ payment[s].status # "captured"
    <3>1. ~InTime(s)
      BY <1>0, <2>3, SaleInTimeEatsNothing
    <3>2. order[s].pay # "paid"
      BY <2>3 DEF IInv, SessionInv
    <3>3. order'[s].pay = "paid"
      BY <1>0, <2>3 DEF ApplySale, OrderRow
    <3> QED BY <3>1, <3>2, <3>3
  <2> QED BY <1>8, <2>1, <2>2, <2>3 DEF Webhook, OnCaptured, RecordRefund, AlreadyCaptured
<1> QED BY <1>3, <1>4, <1>5, <1>6, <1>7, <1>8 DEF Next

\* A hold still running that is refunded was not on the shelf any more.
LEMMA RefundInTime ==
  ASSUME IInv, [Next]_vars, NEW s \in Sessions, ~payment[s].refund, payment'[s].refund, InTime(s)
  PROVE  \E v \in Variants : Deficit(v) > 0
<1>0. /\ payment \in [Sessions -> PaymentRow] /\ stock \in [Variants -> Nat] /\ SessionInv(s)
      /\ session[s].status = "payment_processing" /\ IInv'
  BY StepIInv DEF IInv, TypeOK, InTime
<1>1. order[s].status = "placed" /\ order[s].pay = "pending"
  BY <1>0 DEF SessionInv, Linked
<1>2. ASSUME NEW t \in Sessions, NEW e \in Event, Webhook(t, e) PROVE ~Fulfillable(s)
  <2>1. CASE NeedsRefund(t, order[t]) /\ RecordRefund(t, e.id)
    <3>1. t = s
      BY <1>0, <2>1 DEF RecordRefund
    <3> QED BY <1>1, <2>1, <3>1 DEF NeedsRefund
  <2>2. CASE OnCaptured(t, e.id, payment[t], order[t])
    <3>1. CASE payment' = [payment EXCEPT ![t].event = e.id]
      BY <1>0, <3>1 DEF PaymentRow
    <3>2. CASE ApplySale(t, e.id)
      <4>1. payment' = [payment EXCEPT ![t] = [payment[t] EXCEPT !.status = "captured", !.event = e.id]]
        BY <3>2 DEF ApplySale
      <4> QED BY <1>0, <4>1 DEF PaymentRow
    <3> QED BY <2>1, <2>2, <3>1, <3>2 DEF OnCaptured
  <2>3. CASE OnFailed(t, e.id, payment[t], order[t])
    <3>1. FailPayment(t, e.id, payment[t])
      BY <2>3 DEF OnFailed
    <3>2. CASE payment' = [payment EXCEPT ![t] =
                 [payment[t] EXCEPT !.status = "failed", !.event = e.id, !.refund = FALSE]]
      BY <1>0, <3>2 DEF PaymentRow
    <3>3. CASE payment' = [payment EXCEPT ![t] = [payment[t] EXCEPT !.event = e.id, !.refund = FALSE]]
      BY <1>0, <3>3 DEF PaymentRow
    <3>4. CASE payment' = [payment EXCEPT ![t] = [payment[t] EXCEPT !.event = e.id]]
      BY <1>0, <3>4 DEF PaymentRow
    <3> QED BY <3>1, <3>2, <3>3, <3>4 DEF FailPayment
  <2> QED BY <1>2, <2>2, <2>3 DEF Webhook
<1>3. ~Fulfillable(s)
  <2>1. CASE UserNext
    <3>1. ASSUME NEW t \in Sessions, StartPayment(t) PROVE FALSE
      <4>1. payment' = [payment EXCEPT ![t] = NewPayment]
        BY <3>1 DEF StartPayment, PlaceOrder
      <4> QED BY <1>0, <4>1 DEF NewPayment
    <3> QED BY <2>1, <3>1 DEF UserNext, StartCheckout, CancelCheckout
  <2>2. CASE GatewayNext
    BY <2>2 DEF GatewayNext, GatewayFails, GatewayCaptures, saleVars
  <2>3. CASE AdminNext
    BY <2>3 DEF AdminNext, Fulfil, AdminCancel, AdminAdjust, saleVars
  <2>4. CASE Sweep \/ Tick \/ UNCHANGED vars
    BY <2>4 DEF Sweep, Tick, vars, saleVars
  <2> QED BY <1>2, <2>1, <2>2, <2>3, <2>4 DEF Next
<1>4. PICK v \in Variants : ~(order[s].items[v] <= stock[v])
  BY <1>3 DEF Fulfillable
<1>5. Held(v)[s] = order[s].items[v] /\ order[s].items[v] \in Nat
  BY HoldInPayment DEF Held
<1>6. Held(v)[s] <= SumOf(Held(v), Sessions)
  <2>1. \A t \in Sessions : Held(v)[t] \in Nat
    BY <1>0, HeldAreNat
  <2> QED BY <2>1, SetsAssumption, SumNat
<1>7. Deficit(v) > 0
  BY <1>0, <1>4, <1>5, <1>6, DeficitIs
<1> QED BY <1>7

\* Nothing but a capture after the deadline takes a unit from under a hold.
THEOREM OnlyALateCaptureEatsAHold == Spec => OnlyLateCaptureEatsAHold
<1>1. IInv /\ [Next]_vars =>
        [\A v \in Variants : Deficit(v)' > Deficit(v) =>
           \E s \in Sessions : order[s].pay # "paid" /\ order'[s].pay = "paid" /\ ~InTime(s)]_vars
  BY OnlyCapturesEat
<1> QED BY <1>1, Invariance, PTL DEF Spec, OnlyLateCaptureEatsAHold

\* A customer who pays in time is refunded only where a unit was eaten before.
THEOREM PayingInTimeIsHonoured == Spec => HoldInTimeIsHonoured
<1>1. IInv /\ [Next]_vars =>
        [\A s \in Sessions : ~payment[s].refund /\ payment'[s].refund /\ InTime(s) =>
           \E v \in Variants : Deficit(v) > 0]_vars
  BY RefundInTime
<1> QED BY <1>1, Invariance, PTL DEF Spec, HoldInTimeIsHonoured

-----------------------------------------------------------------------------
(* Where no capture is late *)

\* An order is paid for while its hold is still running.
SoldInTime == \A s \in Sessions : order[s].pay # "paid" /\ order'[s].pay = "paid" => InTime(s)

\* Nothing is held when the shop opens.
LEMMA InitBacked == Init => ReservationsBackedByStock
<1> SUFFICES ASSUME Init, NEW v \in Variants PROVE Deficit(v) = 0
  BY DEF ReservationsBackedByStock
<1>1. \A s \in Sessions : Held(v)[s] = 0
  BY DEF Held, HeldBy, HoldsStock, Init, NoReservation, ActiveReservation
<1>2. SumOf(Held(v), Sessions) = 0
  BY <1>1, SetsAssumption, SumZero
<1>3. ReservedBy(Sessions, v) = 0
  BY <1>2, ReservedIsSum
<1>4. stock[v] \in Nat
  BY InitIInv DEF IInv, TypeOK
<1> QED BY <1>3, <1>4 DEF Deficit

\* A step in which no order is sold late takes no unit from under a hold.
LEMMA BackedStep ==
  ASSUME IInv, [Next]_vars, [SoldInTime]_vars, ReservationsBackedByStock
  PROVE  ReservationsBackedByStock'
<1> SUFFICES ASSUME NEW v \in Variants PROVE Deficit(v)' = 0
  BY DEF ReservationsBackedByStock
<1>1. IInv' /\ Deficit(v) = 0
  BY StepIInv DEF ReservationsBackedByStock
<1>2. Deficit(v)' \in Nat
  BY <1>1, DeficitIs
<1>3. ~(Deficit(v)' > Deficit(v))
  <2>1. CASE SoldInTime
    BY <2>1, OnlyCapturesEat DEF SoldInTime
  <2>2. CASE UNCHANGED vars
    <3>1. order' = order
      BY <2>2 DEF vars
    <3> QED BY <3>1, OnlyCapturesEat
  <2> QED BY <2>1, <2>2
<1> QED BY <1>1, <1>2, <1>3

\* "reservations are always backed by stock": true of every history in which no
\* order is paid for after its hold has been released or has lapsed; adjustments,
\* cancellations, sweeps and checkouts never take a unit from under a hold.
THEOREM BackedUnlessSoldLate == Spec /\ [][SoldInTime]_vars => []ReservationsBackedByStock
<1>1. IInv /\ [Next]_vars /\ [SoldInTime]_vars /\ ReservationsBackedByStock => ReservationsBackedByStock'
  BY BackedStep
<1> QED BY <1>1, InitBacked, Invariance, PTL DEF Spec

\* No capture within a running hold becomes a refund.
PaidInTimeIsSold ==
  [][\A s \in Sessions : ~payment[s].refund /\ payment'[s].refund => ~InTime(s)]_vars

\* Every customer who pays in time gets the goods, as long as nobody else's order
\* is sold after its hold was over.
THEOREM EveryHoldIsHonoured == Spec /\ [][SoldInTime]_vars => PaidInTimeIsSold
<1>1. ASSUME IInv, [Next]_vars, ReservationsBackedByStock,
             NEW s \in Sessions, ~payment[s].refund, payment'[s].refund
      PROVE  ~InTime(s)
  BY <1>1, RefundInTime DEF ReservationsBackedByStock
<1>2. IInv /\ [Next]_vars /\ ReservationsBackedByStock =>
        [\A s \in Sessions : ~payment[s].refund /\ payment'[s].refund => ~InTime(s)]_vars
  BY <1>1
<1> QED BY <1>2, BackedUnlessSoldLate, Invariance, PTL DEF Spec, PaidInTimeIsSold
=============================================================================
