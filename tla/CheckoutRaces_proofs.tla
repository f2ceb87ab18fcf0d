------------------------- MODULE CheckoutRaces_proofs -------------------------
(* Theorems about CheckoutRaces: whichever stale rows the handlers act upon,  *)
(* nothing leaves without money, and sessions, holds and orders keep to each  *)
(* other; and where no stale row is acted upon, all that Checkout guarantees  *)
(* is kept.  For every number of users, sessions and handlers in flight.      *)
EXTENDS CheckoutRaces, Checkout_proofs, TLAPS

\* The rows that decide about money, and the quantities that become an order.
RowsOK ==
  /\ now \in Nat
  /\ reservation \in [Sessions -> [Variants -> ReservationRow]]
  /\ order \in [Sessions -> OrderRow]
  /\ payment \in [Sessions -> PaymentRow]
  /\ gateway \in [Sessions -> GatewayState]

\* What is paid for, gone or to be refunded.
Spent(ord, pay) == ord.pay = "paid" \/ ord.status \in {"packed", "shipped", "delivered"} \/ pay.refund

\* Money was taken for what is spent, and before it is announced.
Backed(s) ==
  /\ Spent(order[s], payment[s]) => gateway[s].taken
  /\ \A e \in gateway[s].events : e.kind = "captured" => gateway[s].taken

\* What a handler carries: a capture was announced, /pay has quantities.
Carried(w) ==
  worker[w] # Idle =>
    /\ worker[w].s \in Sessions
    /\ worker[w].kind \in {"captured", "failed"} => worker[w].id \in EventIds
    /\ worker[w].kind = "captured" => gateway[worker[w].s].taken
    /\ worker[w].kind = "pay" => worker[w].lines \in [Variants -> Nat]

\* The inductive invariant.
RacesIInv ==
  /\ RowsOK
  /\ \A s \in Sessions : Backed(s)
  /\ worker = [w \in Workers |-> worker[w]]
  /\ \A w \in Workers : Carried(w)

\* What a step of the checkout does for money: rows stay rows, what is spent is
\* backed, and money that was taken stays taken.
MoneyKept ==
  /\ RowsOK'
  /\ \A s \in Sessions : Backed(s)' /\ (gateway[s].taken => gateway'[s].taken)

-----------------------------------------------------------------------------
(* Steps of the checkout, on the rows as they are and whatever was loaded *)

\* A step that writes the order and the payment of one session.
LEMMA WriteOne ==
  ASSUME RowsOK, \A s \in Sessions : Backed(s),
         NEW s \in Sessions, NEW ord \in OrderRow, NEW pay \in PaymentRow,
         order' = [order EXCEPT ![s] = ord], payment' = [payment EXCEPT ![s] = pay],
         UNCHANGED <<now, gateway>>, reservation' \in [Sessions -> [Variants -> ReservationRow]],
         Spent(ord, pay) => gateway[s].taken
  PROVE  MoneyKept
<1>1. order \in [Sessions -> OrderRow] /\ payment \in [Sessions -> PaymentRow]
  BY DEF RowsOK
<1>2. RowsOK'
  BY <1>1 DEF RowsOK
<1>3. \A t \in Sessions : /\ order'[t] = IF t = s THEN ord ELSE order[t]
                          /\ payment'[t] = IF t = s THEN pay ELSE payment[t]
  BY <1>1
<1>4. ASSUME NEW t \in Sessions PROVE Backed(t)'
  BY <1>3 DEF Backed, Spent
<1> QED BY <1>2, <1>4 DEF MoneyKept

\* complete_sale and cancel_for_order keep the reservations' type.
LEMMA TransitionRows ==
  ASSUME RowsOK, NEW s \in Sessions, NEW to \in ReservationStatus, TransitionSession(s, to)
  PROVE  reservation' \in [Sessions -> [Variants -> ReservationRow]]
<1> DEFINE row(v) == IF reservation[s][v].status = "none" THEN reservation[s][v]
                     ELSE [reservation[s][v] EXCEPT !.status = to]
<1>1. reservation \in [Sessions -> [Variants -> ReservationRow]]
  BY DEF RowsOK
<1>2. reservation' = [reservation EXCEPT ![s] = [v \in Variants |-> row(v)]]
  BY DEF TransitionSession
<1>3. \A v \in Variants : row(v) \in ReservationRow
  BY <1>1 DEF ReservationRow
<1> HIDE DEF row
<1> QED BY <1>1, <1>2, <1>3

\* A capture pays for the order or flags a refund, in either case with money.
LEMMA CapturedMoney ==
  ASSUME RowsOK, \A s \in Sessions : Backed(s), NEW s \in Sessions, NEW id \in EventIds,
         gateway[s].taken, NEW seenPay, NEW seenOrd, OnCaptured(s, id, seenPay, seenOrd)
  PROVE  MoneyKept
<1>1. /\ order \in [Sessions -> OrderRow] /\ payment \in [Sessions -> PaymentRow]
      /\ order[s] \in OrderRow /\ payment[s] \in PaymentRow
      /\ reservation \in [Sessions -> [Variants -> ReservationRow]] /\ UNCHANGED <<now, gateway>>
  BY DEF RowsOK, OnCaptured
<1>2. CASE AlreadyCaptured(seenPay)
  <2> DEFINE pay == [payment[s] EXCEPT !.event = id]
  <2>1. payment' = [payment EXCEPT ![s] = pay] /\ order' = [order EXCEPT ![s] = order[s]]
        /\ reservation' = reservation
    BY <1>1, <1>2 DEF OnCaptured, holdVars
  <2>2. pay \in PaymentRow
    BY <1>1 DEF PaymentRow
  <2> HIDE DEF pay
  <2> QED BY <1>1, <2>1, <2>2, WriteOne
<1>3. CASE ~AlreadyCaptured(seenPay) /\ NeedsRefund(s, seenOrd)
  <2> DEFINE pay == [payment[s] EXCEPT !.status = "captured", !.event = id, !.refund = TRUE]
  <2>1. payment' = [payment EXCEPT ![s] = pay] /\ order' = [order EXCEPT ![s] = order[s]]
        /\ reservation' = reservation
    BY <1>1, <1>3 DEF OnCaptured, RecordRefund, RefundOwed, holdVars
  <2>2. pay \in PaymentRow
    BY <1>1 DEF PaymentRow, GatewayStatus
  <2> HIDE DEF pay
  <2> QED BY <1>1, <2>1, <2>2, WriteOne
<1>4. CASE ~AlreadyCaptured(seenPay) /\ ~NeedsRefund(s, seenOrd)
  <2> DEFINE pay == [payment[s] EXCEPT !.status = "captured", !.event = id]
             ord == [order[s] EXCEPT !.pay = "paid"]
  <2>1. payment' = [payment EXCEPT ![s] = pay] /\ order' = [order EXCEPT ![s] = ord]
        /\ TransitionSession(s, "completed")
    BY <1>1, <1>4 DEF OnCaptured, ApplySale
  <2>2. pay \in PaymentRow /\ ord \in OrderRow
    BY <1>1 DEF PaymentRow, GatewayStatus, OrderRow, PaymentStatus
  <2>3. reservation' \in [Sessions -> [Variants -> ReservationRow]]
    BY <2>1, TransitionRows DEF ReservationStatus
  <2> HIDE DEF pay, ord
  <2> QED BY <1>1, <2>1, <2>2, <2>3, WriteOne
<1> QED BY <1>2, <1>3, <1>4

\* A failure leaves the status of the order and flags nothing new.
LEMMA FailedMoney ==
  ASSUME RowsOK, \A s \in Sessions : Backed(s), NEW s \in Sessions, NEW id \in EventIds,
         NEW seenPay, NEW seenOrd, OnFailed(s, id, seenPay, seenOrd)
  PROVE  MoneyKept
<1>1. /\ order \in [Sessions -> OrderRow] /\ payment \in [Sessions -> PaymentRow]
      /\ order[s] \in OrderRow /\ payment[s] \in PaymentRow /\ Backed(s)
      /\ UNCHANGED <<now, gateway>> /\ TransitionSession(s, "cancelled")
  BY DEF RowsOK, OnFailed
<1>2. reservation' \in [Sessions -> [Variants -> ReservationRow]]
  BY <1>1, TransitionRows DEF ReservationStatus
<1>3. PICK pay \in PaymentRow : payment' = [payment EXCEPT ![s] = pay]
                                /\ (pay.refund => payment[s].refund)
  <2> DEFINE failed == [payment[s] EXCEPT !.status = "failed", !.event = id, !.refund = FALSE]
             seen == [payment[s] EXCEPT !.event = id, !.refund = FALSE]
             kept == [payment[s] EXCEPT !.event = id]
  <2>1. \/ payment' = [payment EXCEPT ![s] = failed] \/ payment' = [payment EXCEPT ![s] = seen]
        \/ payment' = [payment EXCEPT ![s] = kept]
    BY DEF OnFailed, FailPayment
  <2>2. /\ failed \in PaymentRow /\ seen \in PaymentRow /\ kept \in PaymentRow
        /\ ~failed.refund /\ ~seen.refund /\ (kept.refund <=> payment[s].refund)
    BY <1>1 DEF PaymentRow, GatewayStatus
  <2> HIDE DEF failed, seen, kept
  <2> QED BY <2>1, <2>2
<1> DEFINE to == IF seenOrd.pay = "failed" THEN order[s].pay ELSE "failed"
           ord == [order[s] EXCEPT !.pay = to]
<1>4. order' = [order EXCEPT ![s] = ord]
  BY <1>1 DEF OnFailed
<1>5. ord \in OrderRow /\ ord.status = order[s].status /\ (ord.pay = "paid" => order[s].pay = "paid")
  BY <1>1 DEF OrderRow, PaymentStatus
<1> HIDE DEF ord
<1> QED BY <1>1, <1>2, <1>3, <1>4, <1>5, WriteOne DEF Backed, Spent

\* The admin's cancel writes the status alone.
LEMMA CancelMoney ==
  ASSUME RowsOK, \A s \in Sessions : Backed(s), NEW s \in Sessions, NEW seenOrd, AdminCancel(s, seenOrd)
  PROVE  MoneyKept
<1>1. /\ order \in [Sessions -> OrderRow] /\ payment \in [Sessions -> PaymentRow]
      /\ order[s] \in OrderRow /\ payment[s] \in PaymentRow /\ Backed(s)
      /\ reservation \in [Sessions -> [Variants -> ReservationRow]]
      /\ UNCHANGED <<now, gateway, payment>>
  BY DEF RowsOK, AdminCancel
<1> DEFINE ord == [order[s] EXCEPT !.status = "cancelled"]
<1>2. order' = [order EXCEPT ![s] = ord] /\ payment' = [payment EXCEPT ![s] = payment[s]]
  BY <1>1 DEF AdminCancel
<1>3. ord \in OrderRow /\ ord.status = "cancelled" /\ ord.pay = order[s].pay
  BY <1>1 DEF OrderRow, OrderStatus
<1>4. reservation' \in [Sessions -> [Variants -> ReservationRow]]
  BY <1>1, TransitionRows DEF AdminCancel, holdVars, ReservationStatus
<1> HIDE DEF ord
<1> QED BY <1>1, <1>2, <1>3, <1>4, WriteOne DEF Backed, Spent

\* /pay makes an order nobody has paid yet.
LEMMA PayMoney ==
  ASSUME RowsOK, \A s \in Sessions : Backed(s), NEW s \in Sessions,
         NEW lines \in [Variants -> Nat], PlaceOrder(s, lines)
  PROVE  MoneyKept
<1> DEFINE ord == [status |-> "placed", pay |-> "pending", items |-> lines]
           row(v) == IF reservation[s][v].status = "reserved"
                     THEN [reservation[s][v] EXCEPT !.status = "payment_processing",
                                                    !.expires = now + PaymentTTL]
                     ELSE reservation[s][v]
<1>1. /\ reservation \in [Sessions -> [Variants -> ReservationRow]]
      /\ reservation' = [reservation EXCEPT ![s] = [v \in Variants |-> row(v)]]
      /\ order' = [order EXCEPT ![s] = ord] /\ payment' = [payment EXCEPT ![s] = NewPayment]
      /\ UNCHANGED <<now, gateway>>
  BY DEF RowsOK, PlaceOrder
<1>2. \A v \in Variants : row(v) \in ReservationRow
  <2>1. now + PaymentTTL \in Nat
    BY NumbersAssumption DEF RowsOK
  <2> SUFFICES ASSUME NEW v \in Variants PROVE row(v) \in ReservationRow
    OBVIOUS
  <2> DEFINE until == now + PaymentTTL
             held == [reservation[s][v] EXCEPT !.status = "payment_processing", !.expires = until]
  <2>2. reservation[s][v] \in ReservationRow
    BY <1>1
  <2>3. until \in Nat
    BY <2>1
  <2> HIDE DEF until
  <2>4. held \in ReservationRow
    BY <2>2, <2>3 DEF ReservationRow, ReservationStatus
  <2> QED BY <2>2, <2>4 DEF until
<1> HIDE DEF row
<1>3. reservation' \in [Sessions -> [Variants -> ReservationRow]]
  BY <1>1, <1>2
<1>4. ord \in OrderRow /\ NewPayment \in PaymentRow /\ ~Spent(ord, NewPayment)
  BY DEF OrderRow, OrderStatus, PaymentStatus, PaymentRow, NewPayment, GatewayStatus, Spent
<1> HIDE DEF ord
<1> QED BY <1>1, <1>3, <1>4, WriteOne

\* The checkout's other steps on the tables as a whole: no money is spent.
LEMMA OtherMoney ==
  ASSUME RowsOK, \A s \in Sessions : Backed(s),
         \/ \E u \in Users, s \in Sessions, cart \in Carts : StartCheckout(u, s, cart)
         \/ \E s \in Sessions : CancelCheckout(s)
         \/ GatewayNext
         \/ \E s \in Sessions, to \in OrderStatus : Fulfil(s, to)
         \/ \E v \in Variants, target \in 0..MaxStock : AdminAdjust(v, target)
         \/ Tick \/ UNCHANGED vars
  PROVE  MoneyKept
<1>0. /\ now \in Nat /\ reservation \in [Sessions -> [Variants -> ReservationRow]]
      /\ order \in [Sessions -> OrderRow] /\ payment \in [Sessions -> PaymentRow]
      /\ gateway \in [Sessions -> GatewayState]
  BY DEF RowsOK
<1>1. ASSUME NEW u \in Users, NEW s \in Sessions, NEW cart \in Carts, StartCheckout(u, s, cart)
      PROVE  MoneyKept
  <2>1. /\ reservation' = [reservation EXCEPT ![s] = HeldRows(cart)]
        /\ UNCHANGED <<now, order, payment, gateway>>
    BY <1>1 DEF StartCheckout
  <2>2. HeldRows(cart) \in [Variants -> ReservationRow]
    <3>1. now + ReservationTTL \in Nat /\ cart \in [Variants -> Nat]
      BY <1>0, NumbersAssumption, SetsAssumption
    <3> QED BY <3>1 DEF HeldRows, ReservationRow, ReservationStatus, NoReservation
  <2>3. RowsOK'
    BY <1>0, <2>1, <2>2 DEF RowsOK
  <2> QED BY <2>1, <2>3 DEF MoneyKept, Backed, Spent
<1>2. ASSUME NEW s \in Sessions, CancelCheckout(s) PROVE MoneyKept
  <2> DEFINE row(v) == IF reservation[s][v].status \in ActiveReservation
                       THEN [reservation[s][v] EXCEPT !.status = "cancelled"] ELSE reservation[s][v]
             gone == [order[s] EXCEPT !.status = "cancelled", !.pay = "failed"]
             ord == IF order[s].pay = "pending" THEN gone ELSE order[s]
  <2>1. /\ reservation' = [reservation EXCEPT ![s] = [v \in Variants |-> row(v)]]
        /\ UNCHANGED <<now, payment, gateway>>
    BY <1>2 DEF CancelCheckout
  <2>2. \A v \in Variants : row(v) \in ReservationRow
    BY <1>0 DEF ReservationRow, ReservationStatus
  <2> HIDE DEF row
  <2>3. reservation' \in [Sessions -> [Variants -> ReservationRow]]
    BY <1>0, <2>1, <2>2
  <2>4. order' = [order EXCEPT ![s] = ord] /\ payment' = [payment EXCEPT ![s] = payment[s]]
    BY <1>0, <1>2, <2>1 DEF CancelCheckout
  <2>5. order[s] \in OrderRow /\ payment[s] \in PaymentRow /\ Backed(s)
    BY <1>0
  <2>6. gone \in OrderRow /\ gone.status = "cancelled" /\ gone.pay = "failed"
    BY <2>5 DEF OrderRow, OrderStatus, PaymentStatus
  <2> HIDE DEF gone
  <2>7. ord \in OrderRow /\ (Spent(ord, payment[s]) => gateway[s].taken)
    BY <2>5, <2>6 DEF Backed, Spent
  <2> HIDE DEF ord
  <2> QED BY <2>1, <2>3, <2>4, <2>5, <2>7, WriteOne
<1>3. ASSUME GatewayNext PROVE MoneyKept
  <2>1. PICK s \in Sessions, id \in EventIds : GatewayFails(s, id) \/ GatewayCaptures(s, id)
    BY <1>3 DEF GatewayNext
  <2>2. /\ UNCHANGED <<now, reservation, order, payment>>
        /\ gateway[s] \in GatewayState
    BY <1>0, <2>1 DEF GatewayFails, GatewayCaptures, holdVars, saleVars
  <2>3. PICK kind \in {"failed", "captured"}, new \in GatewayState :
          /\ gateway' = [gateway EXCEPT ![s] = new]
          /\ new.events = gateway[s].events \cup {[id |-> id, kind |-> kind]}
          /\ (gateway[s].taken \/ kind = "captured") => new.taken
    <3> DEFINE f == [id |-> id, kind |-> "failed"]
               c == [id |-> id, kind |-> "captured"]
               failed == [gateway[s] EXCEPT !.events = gateway[s].events \cup {f}]
               taken == [taken |-> TRUE, events |-> gateway[s].events \cup {c}]
    <3>1. f \in Event /\ c \in Event
      BY DEF Event
    <3>2. CASE GatewayFails(s, id)
      <4>1. gateway' = [gateway EXCEPT ![s] = failed]
        BY <3>2 DEF GatewayFails
      <4> HIDE DEF f
      <4>2. /\ failed \in GatewayState /\ failed.events = gateway[s].events \cup {f}
            /\ gateway[s].taken => failed.taken
        BY <2>2, <3>1 DEF GatewayState
      <4> HIDE DEF failed
      <4> QED BY <4>1, <4>2 DEF f
    <3>3. CASE GatewayCaptures(s, id)
      <4>1. gateway' = [gateway EXCEPT ![s] = taken]
        BY <1>0, <3>3 DEF GatewayCaptures
      <4> HIDE DEF c
      <4>2. taken \in GatewayState /\ taken.events = gateway[s].events \cup {c} /\ taken.taken
        BY <2>2, <3>1 DEF GatewayState
      <4> HIDE DEF taken
      <4> QED BY <4>1, <4>2 DEF c
    <3> QED BY <2>1, <3>2, <3>3
  <2>4. RowsOK'
    BY <1>0, <2>2, <2>3 DEF RowsOK
  <2>5. \A t \in Sessions : gateway'[t] = IF t = s THEN new ELSE gateway[t]
    BY <1>0, <2>3
  <2>6. ASSUME NEW t \in Sessions PROVE Backed(t)' /\ (gateway[t].taken => gateway'[t].taken)
    BY <2>2, <2>3, <2>5 DEF Backed, Spent
  <2> QED BY <2>4, <2>6 DEF MoneyKept
<1>4. ASSUME NEW s \in Sessions, NEW to \in OrderStatus, Fulfil(s, to) PROVE MoneyKept
  <2> DEFINE ord == [order[s] EXCEPT !.status = to]
  <2>1. order[s] \in OrderRow /\ payment[s] \in PaymentRow /\ Backed(s)
        /\ UNCHANGED <<now, reservation, payment, gateway>>
    BY <1>0, <1>4 DEF Fulfil, holdVars
  <2>2. order' = [order EXCEPT ![s] = ord] /\ payment' = [payment EXCEPT ![s] = payment[s]]
    BY <1>0, <1>4, <2>1 DEF Fulfil
  <2>3. ord \in OrderRow
    BY <2>1 DEF OrderRow
  <2>4. gateway[s].taken
    BY <1>4, <2>1 DEF Fulfil, Packable, Backed, Spent
  <2> HIDE DEF ord
  <2> QED BY <1>0, <2>1, <2>2, <2>3, <2>4, WriteOne
<1>5. ASSUME (\E v \in Variants, target \in 0..MaxStock : AdminAdjust(v, target)) \/ Tick
             \/ UNCHANGED vars
      PROVE  MoneyKept
  <2>1. now' \in Nat /\ UNCHANGED <<reservation, order, payment, gateway>>
    BY <1>0, <1>5 DEF AdminAdjust, Tick, vars, holdVars, saleVars
  <2> QED BY <1>0, <2>1 DEF RowsOK, MoneyKept, Backed, Spent
<1> QED BY <1>1, <1>2, <1>3, <1>4, <1>5

\* The sweeps fail what was pending and end holds.
LEMMA SweepMoney ==
  ASSUME RowsOK, \A s \in Sessions : Backed(s), Sweep
  PROVE  MoneyKept
<1>0. /\ now \in Nat /\ reservation \in [Sessions -> [Variants -> ReservationRow]]
      /\ order \in [Sessions -> OrderRow] /\ UNCHANGED <<now, payment, gateway>>
      /\ order' = [s \in Sessions |-> SweptOrder(s)]
      /\ reservation' = [s \in Sessions |-> [v \in Variants |-> SweptReservation(reservation[s][v])]]
  BY DEF RowsOK, Sweep
<1>1. ASSUME NEW row \in ReservationRow PROVE SweptReservation(row) \in ReservationRow
  BY DEF SweptReservation, ReservationRow, ReservationStatus
<1>2. ASSUME NEW s \in Sessions
      PROVE  /\ SweptOrder(s) \in OrderRow /\ SweptOrder(s).status = order[s].status
             /\ SweptOrder(s).pay = "paid" => order[s].pay = "paid"
  <2> DEFINE failed == [order[s] EXCEPT !.pay = "failed"]
  <2>1. failed \in OrderRow /\ failed.status = order[s].status /\ failed.pay = "failed"
    BY <1>0 DEF OrderRow, PaymentStatus
  <2>2. SweptOrder(s) = failed \/ SweptOrder(s) = order[s]
    BY DEF SweptOrder
  <2> HIDE DEF failed
  <2> QED BY <1>0, <2>1, <2>2
<1>3. RowsOK'
  <2>1. reservation' \in [Sessions -> [Variants -> ReservationRow]]
    BY <1>0, <1>1
  <2>2. order' \in [Sessions -> OrderRow]
    BY <1>0, <1>2
  <2> QED BY <1>0, <2>1, <2>2 DEF RowsOK
<1>4. \A s \in Sessions : Backed(s)'
  BY <1>0, <1>2 DEF Backed, Spent
<1> QED BY <1>0, <1>3, <1>4 DEF MoneyKept

-----------------------------------------------------------------------------
(* The handlers *)

\* Nothing is under way at first.
LEMMA RacesInitIInv == RacesInit => RacesIInv
<1> SUFFICES ASSUME RacesInit PROVE RacesIInv
  OBVIOUS
<1>1. RowsOK
  BY DEF RacesInit, Init, RowsOK, ReservationRow, ReservationStatus, NoReservation, OrderRow,
         OrderStatus, PaymentStatus, NoOrder, PaymentRow, GatewayStatus, NoPayment, GatewayState
<1>2. \A s \in Sessions : Backed(s)
  BY DEF RacesInit, Init, Backed, Spent, NoOrder, NoPayment
<1>3. worker = [w \in Workers |-> worker[w]] /\ \A w \in Workers : Carried(w)
  BY DEF RacesInit, Carried
<1> QED BY <1>1, <1>2, <1>3 DEF RacesIInv

\* A step that keeps the money and leaves every handler with what it had, or idle.
LEMMA HandlersKept ==
  ASSUME RacesIInv, MoneyKept,
         worker' = worker \/ \E w \in Workers : worker' = [worker EXCEPT ![w] = Idle]
  PROVE  RacesIInv'
<1>1. worker' = [w \in Workers |-> worker'[w]] /\ \A w \in Workers : worker'[w] \in {worker[w], Idle}
  BY DEF RacesIInv
<1>2. ASSUME NEW w \in Workers PROVE Carried(w)'
  BY <1>1 DEF RacesIInv, MoneyKept, Carried
<1> QED BY <1>1, <1>2 DEF RacesIInv, MoneyKept

\* The quantities /pay loads.
LEMMA LoadedLines ==
  ASSUME RowsOK, NEW s \in Sessions
  PROVE  LinesToPay(s) \in [Variants -> Nat]
<1>1. \A v \in Variants : reservation[s][v].quantity \in Nat
  BY DEF RowsOK, ReservationRow
<1> QED BY <1>1 DEF LinesToPay

\* Loading changes no row, and a capture is loaded because it was announced.
LEMMA LoadKept ==
  ASSUME RacesIInv, NEW w \in Workers, NEW s \in Sessions,
         \/ \E e \in Event : LoadWebhook(w, s, e)
         \/ LoadAdminCancel(w, s) \/ LoadPay(w, s)
  PROVE  RacesIInv'
<1>1. UNCHANGED vars
  BY DEF LoadWebhook, LoadAdminCancel, LoadPay
<1>2. RowsOK' /\ \A t \in Sessions : Backed(t)' /\ gateway'[t] = gateway[t]
  BY <1>1 DEF RacesIInv, RowsOK, Backed, Spent, vars
<1>3. PICK row : /\ worker' = [worker EXCEPT ![w] = row] /\ row.s = s
                 /\ row.kind \in {"captured", "failed"} => row.id \in EventIds
                 /\ row.kind = "captured" => gateway[s].taken
                 /\ row.kind = "pay" => row.lines \in [Variants -> Nat]
  <2>1. CASE \E e \in Event : LoadWebhook(w, s, e)
    <3> PICK e \in Event : LoadWebhook(w, s, e)
      BY <2>1
    <3> DEFINE row == [kind |-> e.kind, s |-> s, id |-> e.id, pay |-> payment[s], ord |-> order[s]]
    <3>1. worker' = [worker EXCEPT ![w] = row] /\ e \in gateway[s].events
      BY DEF LoadWebhook, Load
    <3>2. e.id \in EventIds /\ e.kind \in {"captured", "failed"}
      BY DEF Event
    <3>3. e.kind = "captured" => gateway[s].taken
      BY <3>1 DEF RacesIInv, Backed
    <3>4. row.s = s /\ row.kind = e.kind /\ row.id = e.id
      OBVIOUS
    <3> HIDE DEF row
    <3> QED BY <3>1, <3>2, <3>3, <3>4
  <2>2. CASE LoadAdminCancel(w, s)
    <3> DEFINE row == [kind |-> "admin_cancel", s |-> s, ord |-> order[s]]
    <3>1. worker' = [worker EXCEPT ![w] = row]
      BY <2>2 DEF LoadAdminCancel, Load
    <3>2. row.s = s /\ row.kind = "admin_cancel"
      OBVIOUS
    <3> HIDE DEF row
    <3> QED BY <3>1, <3>2
  <2>3. CASE LoadPay(w, s)
    <3> DEFINE row == [kind |-> "pay", s |-> s, lines |-> LinesToPay(s)]
    <3>1. worker' = [worker EXCEPT ![w] = row] /\ LinesToPay(s) \in [Variants -> Nat]
      BY <2>3, LoadedLines DEF LoadPay, Load, RacesIInv
    <3>2. row.s = s /\ row.kind = "pay" /\ row.lines = LinesToPay(s)
      OBVIOUS
    <3> HIDE DEF row
    <3> QED BY <3>1, <3>2
  <2> QED BY <2>1, <2>2, <2>3
<1>4. \A x \in Workers : worker'[x] = IF x = w THEN row ELSE worker[x]
  BY <1>3 DEF RacesIInv
<1>5. worker' = [x \in Workers |-> worker'[x]]
  BY <1>3 DEF RacesIInv
<1>6. ASSUME NEW x \in Workers PROVE Carried(x)'
  BY <1>2, <1>3, <1>4 DEF RacesIInv, Carried
<1> QED BY <1>2, <1>5, <1>6 DEF RacesIInv

\* A handler acts on what it carries, which may be stale.
LEMMA CommitKept ==
  ASSUME RacesIInv, NEW w \in Workers,
         \/ CommitCaptured(w) \/ CommitFailed(w) \/ CommitAdminCancel(w)
         \/ CommitPay(w) \/ RefusePay(w)
  PROVE  RacesIInv'
<1>1. worker' = [worker EXCEPT ![w] = Idle] /\ worker[w] # Idle
  BY DEF CommitCaptured, CommitFailed, CommitAdminCancel, CommitPay, RefusePay, Done, Idle
<1>2. Carried(w) /\ worker[w].s \in Sessions /\ RowsOK /\ \A t \in Sessions : Backed(t)
  BY <1>1 DEF RacesIInv, Carried
<1>3. CASE CommitCaptured(w)
  <2>1. MoneyKept
    BY <1>1, <1>2, <1>3, CapturedMoney DEF CommitCaptured, Done, Carried
  <2> QED BY <1>1, <2>1, HandlersKept
<1>4. CASE CommitFailed(w)
  <2>1. MoneyKept
    BY <1>1, <1>2, <1>4, FailedMoney DEF CommitFailed, Done, Carried
  <2> QED BY <1>1, <2>1, HandlersKept
<1>5. CASE CommitAdminCancel(w)
  <2>1. MoneyKept
    BY <1>1, <1>2, <1>5, CancelMoney DEF CommitAdminCancel
  <2> QED BY <1>1, <2>1, HandlersKept
<1>6. CASE CommitPay(w)
  <2>1. MoneyKept
    BY <1>1, <1>2, <1>6, PayMoney DEF CommitPay, Done, Carried
  <2> QED BY <1>1, <2>1, HandlersKept
<1>7. CASE RefusePay(w)
  <2>1. MoneyKept
    BY <1>2, <1>7, OtherMoney DEF RefusePay
  <2> QED BY <1>1, <2>1, HandlersKept
<1> QED BY <1>3, <1>4, <1>5, <1>6, <1>7

\* A handler that runs in one piece.
LEMMA WholeKept ==
  ASSUME RacesIInv, Whole \/ UNCHANGED vars, UNCHANGED worker
  PROVE  RacesIInv'
<1>1. RowsOK /\ \A t \in Sessions : Backed(t)
  BY DEF RacesIInv
<1>2. MoneyKept
  <2>1. ASSUME NEW s \in Sessions, StartPayment(s) PROVE MoneyKept
    BY <1>1, <2>1, LoadedLines, PayMoney DEF StartPayment
  <2>2. ASSUME NEW s \in Sessions, NEW e \in Event, Webhook(s, e) PROVE MoneyKept
    <3>1. e.id \in EventIds /\ e \in gateway[s].events
      BY <2>2 DEF Event, Webhook
    <3>2. CASE e.kind = "captured" /\ OnCaptured(s, e.id, payment[s], order[s])
      BY <1>1, <3>1, <3>2, CapturedMoney DEF Backed
    <3>3. CASE OnFailed(s, e.id, payment[s], order[s])
      BY <1>1, <3>1, <3>3, FailedMoney
    <3> QED BY <2>2, <3>2, <3>3 DEF Webhook
  <2>3. ASSUME NEW s \in Sessions, AdminCancel(s, order[s]) PROVE MoneyKept
    BY <1>1, <2>3, CancelMoney
  <2>4. CASE Sweep
    BY <1>1, <2>4, SweepMoney
  <2>5. CASE \/ \E u \in Users, s \in Sessions, cart \in Carts : StartCheckout(u, s, cart)
             \/ \E s \in Sessions : CancelCheckout(s)
             \/ GatewayNext
             \/ \E s \in Sessions, to \in OrderStatus : Fulfil(s, to)
             \/ \E v \in Variants, target \in 0..MaxStock : AdminAdjust(v, target)
             \/ Tick \/ UNCHANGED vars
    BY <1>1, <2>5, OtherMoney
  <2> QED BY <2>1, <2>2, <2>3, <2>4, <2>5 DEF Whole, AdminNext
<1> QED BY <1>2, HandlersKept

\* Every step of a request keeps the invariant, also between its read and its write.
LEMMA RacesStep == RacesIInv /\ [RacesNext]_raceVars => RacesIInv'
<1> SUFFICES ASSUME RacesIInv, [RacesNext]_raceVars PROVE RacesIInv'
  OBVIOUS
<1>1. CASE \E w \in Workers, s \in Sessions :
             \/ \E e \in Event : LoadWebhook(w, s, e)
             \/ LoadAdminCancel(w, s) \/ LoadPay(w, s)
  BY <1>1, LoadKept
<1>2. CASE \E w \in Workers : \/ CommitCaptured(w) \/ CommitFailed(w) \/ CommitAdminCancel(w)
                              \/ CommitPay(w) \/ RefusePay(w)
  BY <1>2, CommitKept
<1>3. CASE (Whole \/ UNCHANGED vars) /\ UNCHANGED worker
  BY <1>3, WholeKept
<1> QED BY <1>1, <1>2, <1>3 DEF RacesNext, raceVars

-----------------------------------------------------------------------------

\* The invariant of the interleaved requests holds in every reachable state.
THEOREM RacesInvariance == RacesSpec => []RacesIInv
BY RacesInitIInv, RacesStep, PTL DEF RacesSpec

\* Goods leave, an order counts as paid and a refund is owed only for money the
\* gateway took, whichever stale rows webhooks, /pay and the admin's cancel act
\* upon and however many of them are in flight.
THEOREM MoneyComesFirst == RacesSpec => []NothingWithoutMoney
<1>1. RacesIInv => NothingWithoutMoney
  BY DEF RacesIInv, Backed, Spent, NothingWithoutMoney
<1> QED BY <1>1, RacesInvariance, PTL
-----------------------------------------------------------------------------
(* Sessions, holds and orders: what stale handlers cannot break *)

\* The session has an order, and so a payment the gateway knows of.
Ordered(s) == order[s].status # "none"

\* What the rows of one session know of each other, whatever stale handlers do
\* about its money.
HoldSession(s) ==
  /\ \A v \in Variants : reservation[s][v] # NoReservation =>
       /\ reservation[s][v].status = StatusOfRows(session[s].status)
       /\ reservation[s][v].status # "none"
       /\ reservation[s][v].expires = session[s].expires
  /\ Ordered(s) => \A v \in Variants : order[s].items[v] = reservation[s][v].quantity
  /\ Ordered(s) => session[s].status \notin {"none", "active"}
  /\ order[s].status = "placed" /\ order[s].pay = "pending" => session[s].status = "payment_processing"
  /\ Ordered(s) <=> payment[s].status # "none"
  /\ ~Ordered(s) => order[s].pay = "none"
  /\ gateway[s].events # {} => Ordered(s)

\* What a handler loaded and is still so: the order exists, a payment that had
\* failed is not awaited again, and /pay has the session and its lines to itself.
Loaded(w) ==
  worker[w] # Idle =>
    /\ worker[w].s \in Sessions
    /\ worker[w].kind # "pay" => worker[w].ord \in OrderRow /\ Ordered(worker[w].s)
    /\ worker[w].kind # "pay" /\ worker[w].ord.pay = "failed" => order[worker[w].s].pay # "pending"
    /\ worker[w].kind = "pay" => /\ session[worker[w].s].status = "active"
                                 /\ worker[w].lines = LinesToPay(worker[w].s)

\* The lock on a session has one holder.
OnePayer ==
  \A w, x \in Workers :
    worker[w].kind = "pay" /\ worker[x].kind = "pay" /\ worker[w].s = worker[x].s => w = x

\* The inductive invariant, beside RacesIInv.
HoldIInv ==
  /\ TypeOK /\ OneLiveSession /\ OnePayer
  /\ \A s \in Sessions : HoldSession(s)
  /\ \A w \in Workers : Loaded(w)

\* What a step may do to one session.  The last conjunct is the row lock.
Moved(s) ==
  /\ HoldSession(s)'
  /\ Ordered(s) => Ordered(s)'
  /\ Ordered(s) /\ order[s].pay # "pending" => order'[s].pay # "pending"
  /\ SessionLocked(s)' => session'[s] = session[s] /\ reservation'[s] = reservation[s]

\* A handler went on or ended.
WorkersRest == worker' = worker \/ \E w \in Workers : worker' = [worker EXCEPT ![w] = Idle]

-----------------------------------------------------------------------------
(* Frames *)

LEMMA WorkersAre ==
  ASSUME RacesIInv, WorkersRest
  PROVE  \A w \in Workers : worker'[w] = worker[w] \/ worker'[w] = Idle
BY DEF RacesIInv, WorkersRest

\* A step that moves every session as it may leaves the handlers with what is so.
LEMMA MovedKept ==
  ASSUME RacesIInv, HoldIInv, WorkersRest, TypeOK', OneLiveSession', \A s \in Sessions : Moved(s)
  PROVE  HoldIInv'
<1>1. \A w \in Workers : worker'[w] = worker[w] \/ worker'[w] = Idle
  BY WorkersAre
<1>2. OnePayer'
  BY <1>1 DEF HoldIInv, OnePayer, Idle
<1>3. ASSUME NEW w \in Workers, worker'[w] # Idle PROVE Loaded(w)'
  <2>1. worker'[w] = worker[w] /\ Loaded(w) /\ worker[w].s \in Sessions
    BY <1>1, <1>3 DEF HoldIInv, Loaded
  <2> DEFINE s == worker[w].s
  <2>2. Moved(s)
    BY <2>1
  <2>3. worker[w].kind = "pay" => SessionLocked(s)'
    BY <2>1 DEF SessionLocked
  <2>4. worker[w].kind = "pay" => session'[s].status = "active" /\ LinesToPay(s)' = LinesToPay(s)
    BY <1>3, <2>1, <2>2, <2>3 DEF Moved, Loaded, LinesToPay
  <2> QED BY <1>3, <2>1, <2>2, <2>4 DEF Loaded, Moved
<1>4. \A w \in Workers : Loaded(w)'
  BY <1>3 DEF Loaded
<1> QED BY <1>2, <1>4 DEF HoldIInv, Moved

\* Only the rows of a session matter to what is known of it.
LEMMA HoldFrame ==
  ASSUME NEW s \in Sessions, HoldSession(s),
         session'[s] = session[s], reservation'[s] = reservation[s], order'[s] = order[s],
         payment'[s].status = payment[s].status,
         gateway'[s].events = gateway[s].events \/ Ordered(s)
  PROVE  Moved(s)
BY DEF HoldSession, Moved, Ordered, StatusOfRows, NoReservation

\* A session with an order is not locked by a /pay, nor is one whose lock was
\* not taken.
LEMMA OrderedIsFree ==
  ASSUME RacesIInv, HoldIInv, WorkersRest, NEW s \in Sessions, Ordered(s) \/ ~SessionLocked(s)
  PROVE  ~SessionLocked(s)'
<1>1. ASSUME NEW w \in Workers, worker[w].kind = "pay", worker[w].s = s PROVE FALSE
  <2>1. Loaded(w) /\ HoldSession(s) /\ worker[w] # Idle
    BY <1>1 DEF HoldIInv, Idle
  <2> QED BY <1>1, <2>1 DEF Loaded, HoldSession, SessionLocked
<1>2. \A w \in Workers : worker'[w] = worker[w] \/ worker'[w] = Idle
  BY WorkersAre
<1> QED BY <1>1, <1>2 DEF SessionLocked, Idle

\* No session becomes live.
LEMMA NoneGoesLive ==
  ASSUME OneLiveSession,
         \A s \in Sessions : session'[s].status \in LiveSession => session[s].status \in LiveSession
  PROVE  OneLiveSession'
BY DEF OneLiveSession

\* A step about one session that makes none live.
LEMMA OneMoved ==
  ASSUME RacesIInv, HoldIInv, WorkersRest, TypeOK', NEW s \in Sessions, Moved(s),
         session'[s].status \in LiveSession => session[s].status \in LiveSession,
         \A t \in Sessions \ {s} :
           /\ session'[t] = session[t] /\ reservation'[t] = reservation[t] /\ order'[t] = order[t]
           /\ payment'[t] = payment[t] /\ gateway'[t] = gateway[t]
  PROVE  HoldIInv'
<1>1. OneLiveSession'
  BY NoneGoesLive DEF HoldIInv
<1>2. ASSUME NEW t \in Sessions \ {s} PROVE Moved(t)
  BY HoldFrame DEF HoldIInv
<1> QED BY <1>1, <1>2, MovedKept

-----------------------------------------------------------------------------
(* Steps *)

\* complete_sale and cancel_for_order write one status to all rows of a session.
LEMMA TransitionHold ==
  ASSUME TypeOK, NEW s \in Sessions, HoldSession(s), NEW to \in {"completed", "cancelled"},
         TransitionSession(s, to)
  PROVE  /\ session' \in [Sessions -> SessionRow] /\ session'[s].status = to
         /\ \A v \in Variants :
              /\ reservation'[s][v].quantity = reservation[s][v].quantity
              /\ reservation'[s][v] # NoReservation =>
                   reservation'[s][v].status = to /\ reservation'[s][v].expires = session'[s].expires
         /\ \A t \in Sessions \ {s} : session'[t] = session[t] /\ reservation'[t] = reservation[t]
<1>1. /\ session \in [Sessions -> SessionRow] /\ session[s] \in SessionRow
      /\ reservation \in [Sessions -> [Variants -> ReservationRow]]
  BY DEF TypeOK
<1> DEFINE new == [session[s] EXCEPT !.status = to]
           row(v) == IF reservation[s][v].status = "none" THEN reservation[s][v]
                     ELSE [reservation[s][v] EXCEPT !.status = to]
<1>2. session' = [session EXCEPT ![s] = new]
  BY <1>1 DEF TransitionSession
<1>3. new \in SessionRow /\ new.status = to /\ new.expires = session[s].expires
  BY <1>1 DEF SessionRow, SessionStatus
<1>4. reservation' = [reservation EXCEPT ![s] = [v \in Variants |-> row(v)]]
  BY <1>1 DEF TransitionSession
<1>5. ASSUME NEW v \in Variants
      PROVE  /\ row(v).quantity = reservation[s][v].quantity
             /\ row(v) # NoReservation => row(v).status = to /\ row(v).expires = session[s].expires
  <2>1. /\ reservation[s][v] \in ReservationRow
        /\ reservation[s][v] # NoReservation =>
             /\ reservation[s][v].expires = session[s].expires
             /\ reservation[s][v].status # "none"
    BY <1>1 DEF HoldSession
  <2> DEFINE set == [reservation[s][v] EXCEPT !.status = to]
  <2>2. /\ set.quantity = reservation[s][v].quantity /\ set.status = to
        /\ set.expires = reservation[s][v].expires
    BY <2>1 DEF ReservationRow
  <2> HIDE DEF set
  <2>3. CASE reservation[s][v].status = "none"
    <3>1. row(v) = reservation[s][v]
      BY <2>3
    <3>2. reservation[s][v] = NoReservation
      BY <2>1, <2>3
    <3> QED BY <2>1, <2>3, <3>1, <3>2
  <2>4. CASE reservation[s][v].status # "none"
    <3>1. row(v) = set /\ reservation[s][v] # NoReservation
      BY <2>4 DEF set, NoReservation
    <3> QED BY <2>1, <2>2, <3>1
  <2> QED BY <2>3, <2>4
<1> HIDE DEF new, row
<1> QED BY <1>1, <1>2, <1>3, <1>4, <1>5

\* A capture: the event is noted, the refund is, or the sale is made.
LEMMA CapturedHold ==
  ASSUME RacesIInv, HoldIInv, WorkersRest, RowsOK', NEW s \in Sessions, Ordered(s),
         NEW id \in EventIds, NEW seenPay, NEW seenOrd, OnCaptured(s, id, seenPay, seenOrd)
  PROVE  HoldIInv'
<1>1. /\ TypeOK /\ HoldSession(s) /\ UNCHANGED <<now, gateway>>
      /\ session \in [Sessions -> SessionRow] /\ order \in [Sessions -> OrderRow]
      /\ payment \in [Sessions -> PaymentRow] /\ payment[s] \in PaymentRow /\ order[s] \in OrderRow
      /\ stock \in [Variants -> Nat] /\ sold \in [Variants -> Nat] /\ adjusted \in [Variants -> Int]
  BY DEF HoldIInv, TypeOK, OnCaptured
<1>2. ~SessionLocked(s)'
  BY OrderedIsFree
<1>3. PICK pay : /\ payment' = [payment EXCEPT ![s] = pay]
                 /\ pay.status \in {payment[s].status, "captured"}
  <2> DEFINE noted == [payment[s] EXCEPT !.event = id]
             owed == [payment[s] EXCEPT !.status = "captured", !.event = id, !.refund = TRUE]
             done == [payment[s] EXCEPT !.status = "captured", !.event = id]
  <2>1. \/ payment' = [payment EXCEPT ![s] = noted] \/ payment' = [payment EXCEPT ![s] = owed]
        \/ payment' = [payment EXCEPT ![s] = done]
    BY <1>1 DEF OnCaptured, RecordRefund, RefundOwed, ApplySale
  <2>2. noted.status = payment[s].status /\ owed.status = "captured" /\ done.status = "captured"
    BY <1>1 DEF PaymentRow
  <2> HIDE DEF noted, owed, done
  <2> QED BY <2>1, <2>2
<1>4. /\ payment'[s].status # "none"
      /\ \A t \in Sessions \ {s} : payment'[t] = payment[t] /\ gateway'[t] = gateway[t]
  BY <1>1, <1>3 DEF HoldSession
<1>5. CASE UNCHANGED <<inventoryVars, holdVars, order>>
  <2>1. UNCHANGED <<stock, sold, adjusted, session, reservation, order>>
    BY <1>5 DEF inventoryVars, holdVars
  <2>2. TypeOK'
    BY <1>1, <2>1 DEF TypeOK, RowsOK
  <2>3. Moved(s)
    BY <1>1, <1>2, <1>4, <2>1 DEF Moved, HoldSession, Ordered, StatusOfRows, NoReservation
  <2> QED BY <1>4, <2>1, <2>2, <2>3, OneMoved
<1>6. CASE Fulfillable(s) /\ ApplySale(s, id)
  <2> DEFINE ord == [order[s] EXCEPT !.pay = "paid"]
  <2>1. /\ session' \in [Sessions -> SessionRow] /\ session'[s].status = "completed"
        /\ \A v \in Variants :
             /\ reservation'[s][v].quantity = reservation[s][v].quantity
             /\ reservation'[s][v] # NoReservation =>
                  reservation'[s][v].status = "completed" /\ reservation'[s][v].expires = session'[s].expires
        /\ \A t \in Sessions \ {s} : session'[t] = session[t] /\ reservation'[t] = reservation[t]
    BY <1>1, <1>6, TransitionHold DEF ApplySale
  <2>2. order' = [order EXCEPT ![s] = ord]
    BY <1>1, <1>6 DEF ApplySale
  <2>3. ord.status = order[s].status /\ ord.items = order[s].items /\ ord.pay = "paid"
    BY <1>1 DEF OrderRow
  <2> HIDE DEF ord
  <2>4. /\ order'[s] = ord
        /\ \A t \in Sessions \ {s} : order'[t] = order[t]
    BY <1>1, <2>2
  <2>5. stock' \in [Variants -> Nat] /\ sold' \in [Variants -> Nat] /\ adjusted' = adjusted
    <3>1. \A v \in Variants : order[s].items[v] \in Nat /\ order[s].items[v] <= stock[v]
      BY <1>1, <1>6 DEF OrderRow, Fulfillable
    <3>2. /\ stock' = [v \in Variants |-> stock[v] - order[s].items[v]]
          /\ sold' = [v \in Variants |-> sold[v] + order[s].items[v]] /\ adjusted' = adjusted
      BY <1>6 DEF ApplySale
    <3>3. \A v \in Variants : stock[v] - order[s].items[v] \in Nat /\ sold[v] + order[s].items[v] \in Nat
      BY <1>1, <3>1
    <3> QED BY <3>2, <3>3
  <2>6. TypeOK'
    BY <1>1, <2>1, <2>5 DEF TypeOK, RowsOK
  <2>7. Moved(s)
    BY <1>1, <1>2, <1>4, <2>1, <2>3, <2>4 DEF Moved, HoldSession, Ordered, StatusOfRows, NoReservation
  <2> QED BY <1>4, <2>1, <2>4, <2>6, <2>7, OneMoved DEF LiveSession
<1> QED BY <1>5, <1>6 DEF OnCaptured, NeedsRefund, RecordRefund, inventoryVars

\* A failure ends the hold and decides the order, whose payment is not awaited
\* again if it was seen to have failed.
LEMMA FailedHold ==
  ASSUME RacesIInv, HoldIInv, WorkersRest, RowsOK', NEW s \in Sessions, Ordered(s),
         NEW id \in EventIds, NEW seenPay, NEW seenOrd, OnFailed(s, id, seenPay, seenOrd),
         seenOrd.pay = "failed" => order[s].pay # "pending"
  PROVE  HoldIInv'
<1>1. /\ TypeOK /\ HoldSession(s) /\ UNCHANGED <<now, gateway, stock, sold, adjusted>>
      /\ order \in [Sessions -> OrderRow] /\ payment \in [Sessions -> PaymentRow]
      /\ payment[s] \in PaymentRow /\ order[s] \in OrderRow
  BY DEF HoldIInv, TypeOK, OnFailed, inventoryVars
<1>2. ~SessionLocked(s)'
  BY OrderedIsFree
<1>3. PICK pay : /\ payment' = [payment EXCEPT ![s] = pay]
                 /\ pay.status \in {payment[s].status, "failed"}
  <2> DEFINE failed == [payment[s] EXCEPT !.status = "failed", !.event = id, !.refund = FALSE]
             seen == [payment[s] EXCEPT !.event = id, !.refund = FALSE]
             kept == [payment[s] EXCEPT !.event = id]
  <2>1. \/ payment' = [payment EXCEPT ![s] = failed] \/ payment' = [payment EXCEPT ![s] = seen]
        \/ payment' = [payment EXCEPT ![s] = kept]
    BY DEF OnFailed, FailPayment
  <2>2. failed.status = "failed" /\ seen.status = payment[s].status /\ kept.status = payment[s].status
    BY <1>1 DEF PaymentRow
  <2> HIDE DEF failed, seen, kept
  <2> QED BY <2>1, <2>2
<1>4. /\ payment'[s].status # "none"
      /\ \A t \in Sessions \ {s} : payment'[t] = payment[t] /\ gateway'[t] = gateway[t]
  BY <1>1, <1>3 DEF HoldSession
<1>5. /\ session' \in [Sessions -> SessionRow] /\ session'[s].status = "cancelled"
      /\ \A v \in Variants :
           /\ reservation'[s][v].quantity = reservation[s][v].quantity
           /\ reservation'[s][v] # NoReservation =>
                reservation'[s][v].status = "cancelled" /\ reservation'[s][v].expires = session'[s].expires
      /\ \A t \in Sessions \ {s} : session'[t] = session[t] /\ reservation'[t] = reservation[t]
  BY <1>1, TransitionHold DEF OnFailed
<1> DEFINE to == IF seenOrd.pay = "failed" THEN order[s].pay ELSE "failed"
           ord == [order[s] EXCEPT !.pay = to]
<1>6. order' = [order EXCEPT ![s] = ord]
  BY <1>1 DEF OnFailed
<1>7. ord.status = order[s].status /\ ord.items = order[s].items /\ ord.pay # "pending"
  BY <1>1 DEF OrderRow
<1> HIDE DEF ord
<1>8. order'[s] = ord /\ \A t \in Sessions \ {s} : order'[t] = order[t]
  BY <1>1, <1>6
<1>9. TypeOK'
  BY <1>1, <1>5 DEF TypeOK, RowsOK
<1>10. Moved(s)
  BY <1>1, <1>2, <1>4, <1>5, <1>7, <1>8 DEF Moved, HoldSession, Ordered, StatusOfRows, NoReservation
<1> QED BY <1>4, <1>5, <1>8, <1>9, <1>10, OneMoved DEF LiveSession

\* The admin's cancel releases the hold or restocks what the loaded order says.
LEMMA AdminCancelHold ==
  ASSUME RacesIInv, HoldIInv, WorkersRest, RowsOK', NEW s \in Sessions, Ordered(s),
         NEW seenOrd \in OrderRow, AdminCancel(s, seenOrd)
  PROVE  HoldIInv'
<1>1. /\ TypeOK /\ HoldSession(s) /\ UNCHANGED <<now, gateway, payment, sold, adjusted>>
      /\ session \in [Sessions -> SessionRow] /\ order \in [Sessions -> OrderRow]
      /\ order[s] \in OrderRow /\ stock \in [Variants -> Nat]
  BY DEF HoldIInv, TypeOK, AdminCancel
<1>2. ~SessionLocked(s)'
  BY OrderedIsFree
<1> DEFINE ord == [order[s] EXCEPT !.status = "cancelled"]
<1>3. order' = [order EXCEPT ![s] = ord]
  BY <1>1 DEF AdminCancel
<1>4. ord.status = "cancelled" /\ ord.items = order[s].items /\ ord.pay = order[s].pay
  BY <1>1 DEF OrderRow
<1> HIDE DEF ord
<1>5. order'[s] = ord /\ \A t \in Sessions \ {s} : order'[t] = order[t]
  BY <1>1, <1>3
<1>6. CASE stock' = [v \in Variants |-> stock[v] + seenOrd.items[v]] /\ UNCHANGED holdVars
  <2>1. stock' \in [Variants -> Nat] /\ UNCHANGED <<session, reservation>>
    BY <1>1, <1>6 DEF holdVars, OrderRow
  <2>2. TypeOK'
    BY <1>1, <2>1 DEF TypeOK, RowsOK
  <2>3. Moved(s)
    BY <1>1, <1>2, <1>4, <1>5, <2>1 DEF Moved, HoldSession, Ordered, StatusOfRows, NoReservation
  <2> QED BY <1>1, <1>5, <2>1, <2>2, <2>3, OneMoved
<1>7. CASE TransitionSession(s, "cancelled") /\ UNCHANGED stock
  <2>1. /\ session' \in [Sessions -> SessionRow] /\ session'[s].status = "cancelled"
        /\ \A v \in Variants :
             /\ reservation'[s][v].quantity = reservation[s][v].quantity
             /\ reservation'[s][v] # NoReservation =>
                  reservation'[s][v].status = "cancelled" /\ reservation'[s][v].expires = session'[s].expires
        /\ \A t \in Sessions \ {s} : session'[t] = session[t] /\ reservation'[t] = reservation[t]
    BY <1>1, <1>7, TransitionHold
  <2>2. TypeOK'
    BY <1>1, <1>7, <2>1 DEF TypeOK, RowsOK
  <2>3. Moved(s)
    BY <1>1, <1>2, <1>4, <1>5, <2>1 DEF Moved, HoldSession, Ordered, StatusOfRows, NoReservation
  <2> QED BY <1>1, <1>5, <2>1, <2>2, <2>3, OneMoved DEF LiveSession
<1> QED BY <1>6, <1>7 DEF AdminCancel

\* What /pay converts is what an active session holds.
LEMMA LoadedAreHeld ==
  ASSUME TypeOK, NEW s \in Sessions, HoldSession(s), session[s].status = "active"
  PROVE  /\ LinesToPay(s) \in [Variants -> Nat]
         /\ \A v \in Variants : LinesToPay(s)[v] = reservation[s][v].quantity
<1>1. \A v \in Variants : reservation[s][v] \in ReservationRow
  BY DEF TypeOK
<1>2. \A v \in Variants : reservation[s][v].quantity \in Nat
  BY <1>1 DEF ReservationRow
<1>3. \A v \in Variants : reservation[s][v].status # "reserved" => reservation[s][v].quantity = 0
  BY DEF HoldSession, StatusOfRows, NoReservation
<1> QED BY <1>2, <1>3 DEF LinesToPay

\* The order is for what the session holds, because its lock was kept.
LEMMA PayHold ==
  ASSUME RacesIInv, HoldIInv, WorkersRest, RowsOK', NEW s \in Sessions,
         session[s].status = "active", ~SessionLocked(s)', PlaceOrder(s, LinesToPay(s))
  PROVE  HoldIInv'
<1> DEFINE lines == LinesToPay(s)
           until == now + PaymentTTL
           held == [status |-> "payment_processing", expires |-> until]
           row(v) == IF reservation[s][v].status = "reserved"
                     THEN [reservation[s][v] EXCEPT !.status = "payment_processing", !.expires = until]
                     ELSE reservation[s][v]
           ord == [status |-> "placed", pay |-> "pending", items |-> lines]
<1>1. /\ TypeOK /\ HoldSession(s) /\ ~Ordered(s) /\ until \in Nat
      /\ session \in [Sessions -> SessionRow] /\ order \in [Sessions -> OrderRow]
      /\ payment \in [Sessions -> PaymentRow]
      /\ reservation \in [Sessions -> [Variants -> ReservationRow]]
  BY NumbersAssumption DEF HoldIInv, TypeOK, HoldSession
<1>2. lines \in [Variants -> Nat] /\ \A v \in Variants : lines[v] = reservation[s][v].quantity
  BY <1>1, LoadedAreHeld
<1>3. /\ session' = [session EXCEPT ![s] = held] /\ order' = [order EXCEPT ![s] = ord]
      /\ payment' = [payment EXCEPT ![s] = NewPayment]
      /\ reservation' = [reservation EXCEPT ![s] = [v \in Variants |-> row(v)]]
      /\ UNCHANGED <<now, stock, sold, adjusted, gateway>>
  BY <1>1 DEF PlaceOrder
<1>4. \A v \in Variants : /\ row(v).quantity = reservation[s][v].quantity
                          /\ row(v) # NoReservation =>
                               row(v).status = "payment_processing" /\ row(v).expires = until
  <2> SUFFICES ASSUME NEW v \in Variants
               PROVE  /\ row(v).quantity = reservation[s][v].quantity
                      /\ row(v) # NoReservation =>
                           row(v).status = "payment_processing" /\ row(v).expires = until
    OBVIOUS
  <2> DEFINE set == [reservation[s][v] EXCEPT !.status = "payment_processing", !.expires = until]
  <2>1. reservation[s][v] \in ReservationRow
    BY <1>1
  <2> HIDE DEF until
  <2>2. /\ set.quantity = reservation[s][v].quantity
        /\ set.status = "payment_processing" /\ set.expires = until
    BY <2>1 DEF ReservationRow
  <2> HIDE DEF set
  <2>3. CASE reservation[s][v].status = "reserved"
    BY <2>2, <2>3 DEF set
  <2>4. CASE reservation[s][v].status # "reserved"
    BY <1>1, <2>4 DEF HoldSession, StatusOfRows
  <2> QED BY <2>3, <2>4
<1>5. held \in SessionRow /\ held.status = "payment_processing" /\ held.expires = until
  BY <1>1 DEF SessionRow, SessionStatus
<1>6. ord.status = "placed" /\ ord.pay = "pending" /\ ord.items = lines
  OBVIOUS
<1> HIDE DEF lines, until, held, row, ord
<1>7. /\ session'[s] = held /\ order'[s] = ord /\ payment'[s].status = "created"
      /\ \A v \in Variants : reservation'[s][v] = row(v)
      /\ \A t \in Sessions \ {s} :
           /\ session'[t] = session[t] /\ reservation'[t] = reservation[t] /\ order'[t] = order[t]
           /\ payment'[t] = payment[t] /\ gateway'[t] = gateway[t]
  BY <1>1, <1>3 DEF NewPayment
<1>8. TypeOK'
  <2>1. session' \in [Sessions -> SessionRow]
    BY <1>1, <1>3, <1>5
  <2> QED BY <1>1, <1>3, <2>1 DEF TypeOK, RowsOK
<1>9. HoldSession(s)'
  BY <1>2, <1>4, <1>5, <1>6, <1>7 DEF HoldSession, Ordered, StatusOfRows
<1>10. Moved(s)
  BY <1>1, <1>9 DEF Moved
<1> QED BY <1>7, <1>8, <1>10, OneMoved DEF LiveSession

\* A checkout rewrites the rows of a session nobody pays for.
LEMMA StartCheckoutHold ==
  ASSUME RacesIInv, HoldIInv, WorkersRest, RowsOK', NEW u \in Users, NEW s \in Sessions,
         NEW cart \in Carts, ~SessionLocked(s)', StartCheckout(u, s, cart)
  PROVE  HoldIInv'
<1> DEFINE until == now + ReservationTTL
           live == [status |-> "active", expires |-> until]
<1>1. /\ TypeOK /\ OneLiveSession /\ \A t \in Sessions : HoldSession(t)
      /\ session \in [Sessions -> SessionRow] /\ until \in Nat
      /\ reservation \in [Sessions -> [Variants -> ReservationRow]]
  BY NumbersAssumption DEF HoldIInv, TypeOK
<1>2. /\ session[s].status \in {"none", "active"} /\ Owner[s] = u
      /\ session[s].status = "none" => LiveSessionsOf(u) = {}
  BY DEF StartCheckout, Acquired, Reservable, LiveSessionsOf, LiveSession
<1>3. /\ session' = [session EXCEPT ![s] = live]
      /\ reservation' = [reservation EXCEPT ![s] = HeldRows(cart)]
      /\ UNCHANGED <<now, stock, sold, adjusted, order, payment, gateway>>
  BY DEF StartCheckout
<1>4. live \in SessionRow /\ live.status = "active" /\ live.expires = until
  BY <1>1 DEF SessionRow, SessionStatus
<1>5. \A v \in Variants : HeldRows(cart)[v] # NoReservation =>
        HeldRows(cart)[v].status = "reserved" /\ HeldRows(cart)[v].expires = until
  BY DEF HeldRows
<1> HIDE DEF until, live
<1>6. /\ session'[s] = live /\ reservation'[s] = HeldRows(cart)
      /\ \A t \in Sessions \ {s} : session'[t] = session[t] /\ reservation'[t] = reservation[t]
  BY <1>1, <1>3
<1>7. TypeOK'
  <2>1. session' \in [Sessions -> SessionRow]
    BY <1>1, <1>3, <1>4
  <2> QED BY <1>1, <1>3, <2>1 DEF TypeOK, RowsOK
<1>8. OneLiveSession'
  <2>1. \A t \in Sessions \ {s} : session[t].status \in LiveSession => Owner[t] # u
    BY <1>1, <1>2 DEF OneLiveSession, LiveSessionsOf, LiveSession
  <2> QED BY <1>1, <1>2, <1>6, <2>1 DEF OneLiveSession
<1>9. Moved(s)
  <2>1. ~Ordered(s)
    BY <1>1, <1>2 DEF HoldSession
  <2>2. HoldSession(s)'
    BY <1>1, <1>3, <1>4, <1>5, <1>6, <2>1 DEF HoldSession, Ordered, StatusOfRows
  <2> QED BY <2>1, <2>2 DEF Moved
<1>10. ASSUME NEW t \in Sessions \ {s} PROVE Moved(t)
  BY <1>1, <1>3, <1>6, HoldFrame
<1> QED BY <1>7, <1>8, <1>9, <1>10, MovedKept

\* A cancel ends the hold and withdraws the order that waits.
LEMMA CancelCheckoutHold ==
  ASSUME RacesIInv, HoldIInv, WorkersRest, RowsOK', NEW s \in Sessions,
         ~SessionLocked(s)', CancelCheckout(s)
  PROVE  HoldIInv'
<1> DEFINE new == [session[s] EXCEPT !.status = "cancelled"]
           row(v) == IF reservation[s][v].status \in ActiveReservation
                     THEN [reservation[s][v] EXCEPT !.status = "cancelled"] ELSE reservation[s][v]
           gone == [order[s] EXCEPT !.status = "cancelled", !.pay = "failed"]
           ord == IF order[s].pay = "pending" THEN gone ELSE order[s]
<1>1. /\ TypeOK /\ HoldSession(s) /\ session[s].status \in LiveSession
      /\ session \in [Sessions -> SessionRow] /\ order \in [Sessions -> OrderRow]
      /\ session[s] \in SessionRow /\ order[s] \in OrderRow
      /\ reservation \in [Sessions -> [Variants -> ReservationRow]]
      /\ UNCHANGED <<now, stock, sold, adjusted, payment, gateway>>
  BY DEF HoldIInv, TypeOK, CancelCheckout
<1>2. /\ session' = [session EXCEPT ![s] = new] /\ order' = [order EXCEPT ![s] = ord]
      /\ reservation' = [reservation EXCEPT ![s] = [v \in Variants |-> row(v)]]
  BY <1>1 DEF CancelCheckout
<1>3. new \in SessionRow /\ new.status = "cancelled" /\ new.expires = session[s].expires
  BY <1>1 DEF SessionRow, SessionStatus
<1>4. \A v \in Variants :
        /\ row(v).quantity = reservation[s][v].quantity
        /\ row(v) # NoReservation => row(v).status = "cancelled" /\ row(v).expires = session[s].expires
  <2> SUFFICES ASSUME NEW v \in Variants
               PROVE  /\ row(v).quantity = reservation[s][v].quantity
                      /\ row(v) # NoReservation =>
                           row(v).status = "cancelled" /\ row(v).expires = session[s].expires
    OBVIOUS
  <2> DEFINE set == [reservation[s][v] EXCEPT !.status = "cancelled"]
  <2>1. reservation[s][v] \in ReservationRow
    BY <1>1
  <2>2. /\ set.quantity = reservation[s][v].quantity
        /\ set.status = "cancelled" /\ set.expires = reservation[s][v].expires
    BY <2>1 DEF ReservationRow
  <2> HIDE DEF set
  <2>3. CASE reservation[s][v] # NoReservation
    <3>1. reservation[s][v].status \in ActiveReservation /\ reservation[s][v].expires = session[s].expires
      BY <1>1, <2>3 DEF HoldSession, StatusOfRows, LiveSession, ActiveReservation
    <3> QED BY <2>2, <3>1 DEF set
  <2>4. CASE reservation[s][v] = NoReservation
    BY <2>4 DEF NoReservation, ActiveReservation
  <2> QED BY <2>3, <2>4
<1>5. /\ ord.items = order[s].items /\ ord.status # "none" <=> Ordered(s)
      /\ ord.pay # "pending"
      /\ order[s].pay # "pending" => ord = order[s]
  <2>1. gone.status = "cancelled" /\ gone.pay = "failed" /\ gone.items = order[s].items
    BY <1>1 DEF OrderRow
  <2> HIDE DEF gone
  <2>2. order[s].pay = "pending" => Ordered(s)
    BY <1>1 DEF HoldSession
  <2> QED BY <2>1, <2>2 DEF Ordered
<1> HIDE DEF new, row, ord
<1>6. /\ session'[s] = new /\ order'[s] = ord
      /\ \A v \in Variants : reservation'[s][v] = row(v)
      /\ \A t \in Sessions \ {s} :
           session'[t] = session[t] /\ reservation'[t] = reservation[t] /\ order'[t] = order[t]
  BY <1>1, <1>2
<1>7. TypeOK'
  <2>1. session' \in [Sessions -> SessionRow]
    BY <1>1, <1>2, <1>3
  <2> QED BY <1>1, <2>1 DEF TypeOK, RowsOK
<1>8. HoldSession(s)'
  BY <1>1, <1>3, <1>4, <1>5, <1>6 DEF HoldSession, Ordered, StatusOfRows
<1>9. Moved(s)
  BY <1>5, <1>6, <1>8 DEF Moved, Ordered
<1> QED BY <1>1, <1>3, <1>6, <1>7, <1>9, OneMoved DEF LiveSession

\* The gateway speaks of payments it was asked for.
LEMMA GatewayHold ==
  ASSUME RacesIInv, HoldIInv, WorkersRest, RowsOK', GatewayNext
  PROVE  HoldIInv'
<1>1. PICK s \in Sessions, id \in EventIds : GatewayFails(s, id) \/ GatewayCaptures(s, id)
  BY DEF GatewayNext
<1>2. /\ UNCHANGED <<now, stock, sold, adjusted, session, reservation, order, payment>>
      /\ payment[s].status # "none"
  BY <1>1 DEF GatewayFails, GatewayCaptures, inventoryVars, holdVars, saleVars
<1>3. \A t \in Sessions \ {s} : gateway'[t] = gateway[t]
  BY <1>1 DEF GatewayFails, GatewayCaptures, HoldIInv, TypeOK
<1>4. TypeOK' /\ OneLiveSession'
  BY <1>2 DEF TypeOK, RowsOK, HoldIInv, OneLiveSession
<1>5. ASSUME NEW t \in Sessions PROVE Moved(t)
  <2>1. HoldSession(t) /\ (t = s => Ordered(t))
    BY <1>2 DEF HoldIInv, HoldSession
  <2> QED BY <1>2, <1>3, <2>1, HoldFrame
<1> QED BY <1>4, <1>5, MovedKept

\* The desk moves a paid order on.
LEMMA FulfilHold ==
  ASSUME RacesIInv, HoldIInv, WorkersRest, RowsOK', NEW s \in Sessions, NEW to \in OrderStatus, Fulfil(s, to)
  PROVE  HoldIInv'
<1> DEFINE ord == [order[s] EXCEPT !.status = to]
<1>1. /\ TypeOK /\ HoldSession(s) /\ Ordered(s) /\ to \in {"packed", "shipped", "delivered"}
      /\ order \in [Sessions -> OrderRow] /\ order[s] \in OrderRow
      /\ UNCHANGED <<now, stock, sold, adjusted, session, reservation, payment, gateway>>
  BY DEF HoldIInv, TypeOK, Fulfil, Ordered, inventoryVars, holdVars
<1>2. order' = [order EXCEPT ![s] = ord]
  BY <1>1 DEF Fulfil
<1>3. ord.status = to /\ ord.items = order[s].items /\ ord.pay = order[s].pay
  BY <1>1 DEF OrderRow
<1> HIDE DEF ord
<1>4. order'[s] = ord /\ \A t \in Sessions \ {s} : order'[t] = order[t]
  BY <1>1, <1>2
<1>5. TypeOK'
  BY <1>1 DEF TypeOK, RowsOK
<1>6. HoldSession(s)'
  BY <1>1, <1>3, <1>4 DEF HoldSession, Ordered, StatusOfRows
<1>7. Moved(s)
  BY <1>1, <1>3, <1>4, <1>6 DEF Moved, Ordered
<1> QED BY <1>1, <1>4, <1>5, <1>7, OneMoved

\* The other steps write no row of a session.
LEMMA ShelfHold ==
  ASSUME RacesIInv, HoldIInv, WorkersRest, RowsOK',
         (\E v \in Variants, target \in 0..MaxStock : AdminAdjust(v, target)) \/ Tick \/ UNCHANGED vars
  PROVE  HoldIInv'
<1>1. UNCHANGED <<sold, session, reservation, order, payment, gateway>>
  BY DEF AdminAdjust, Tick, vars, inventoryVars, holdVars, saleVars
<1>2. stock' \in [Variants -> Nat] /\ adjusted' \in [Variants -> Int]
  <2>1. stock \in [Variants -> Nat] /\ adjusted \in [Variants -> Int]
    BY DEF HoldIInv, TypeOK
  <2>2. ASSUME NEW v \in Variants, NEW target \in 0..MaxStock, AdminAdjust(v, target)
        PROVE  stock' \in [Variants -> Nat] /\ adjusted' \in [Variants -> Int]
    <3>1. target \in Nat /\ adjusted[v] + target - stock[v] \in Int
      BY <2>1, NumbersAssumption
    <3> QED BY <2>1, <2>2, <3>1 DEF AdminAdjust
  <2>3. CASE Tick \/ UNCHANGED vars
    BY <2>1, <2>3 DEF Tick, vars, inventoryVars
  <2> QED BY <2>2, <2>3
<1>3. TypeOK' /\ OneLiveSession'
  BY <1>1, <1>2 DEF TypeOK, RowsOK, HoldIInv, OneLiveSession
<1>4. \A t \in Sessions : Moved(t)
  BY <1>1, HoldFrame DEF HoldIInv
<1> QED BY <1>3, <1>4, MovedKept

\* The sweeps end session and rows alike, but none a /pay has locked.
LEMMA SweepHold ==
  ASSUME RacesIInv, HoldIInv, WorkersRest, RowsOK', Sweep,
         \A s \in Sessions : SessionLocked(s)' => ~Lapsed(session[s])
  PROVE  HoldIInv'
<1>1. /\ TypeOK /\ OneLiveSession
      /\ session \in [Sessions -> SessionRow] /\ order \in [Sessions -> OrderRow]
      /\ reservation \in [Sessions -> [Variants -> ReservationRow]]
      /\ UNCHANGED <<now, stock, sold, adjusted, payment, gateway>>
      /\ order' = [s \in Sessions |-> SweptOrder(s)]
      /\ reservation' = [s \in Sessions |-> [v \in Variants |-> SweptReservation(reservation[s][v])]]
      /\ session' = [s \in Sessions |-> SweptSession(session[s])]
  BY DEF HoldIInv, TypeOK, Sweep
<1>2. ASSUME NEW row \in SessionRow
      PROVE  /\ SweptSession(row) \in SessionRow /\ SweptSession(row).expires = row.expires
             /\ ~Lapsed(row) => SweptSession(row) = row
             /\ Lapsed(row) /\ row.status = "active" => SweptSession(row).status = "expired"
             /\ Lapsed(row) /\ row.status = "payment_processing" => SweptSession(row).status = "cancelled"
             /\ row.status \notin LiveSession => SweptSession(row) = row
  BY DEF SweptSession, SessionRow, SessionStatus, LiveSession
<1>3. ASSUME NEW row \in ReservationRow
      PROVE  /\ SweptReservation(row).expires = row.expires
             /\ SweptReservation(row).quantity = row.quantity
             /\ ~Lapsed(row) => SweptReservation(row) = row
             /\ Lapsed(row) /\ row.status = "reserved" => SweptReservation(row).status = "expired"
             /\ Lapsed(row) /\ row.status = "payment_processing" => SweptReservation(row).status = "cancelled"
             /\ row.status \notin ActiveReservation => SweptReservation(row) = row
  BY DEF SweptReservation, ReservationRow, ReservationStatus, ActiveReservation
<1>4. ASSUME NEW s \in Sessions
      PROVE  /\ SweptOrder(s).status = order[s].status /\ SweptOrder(s).items = order[s].items
             /\ SweptOrder(s).pay = "pending" => order[s].pay = "pending" /\ SweptOrder(s) = order[s]
             /\ Lapsed(session[s]) /\ session[s].status = "payment_processing" => SweptOrder(s).pay # "pending"
             /\ order[s].pay = "none" => SweptOrder(s).pay = "none"
  <2> DEFINE failed == [order[s] EXCEPT !.pay = "failed"]
  <2>1. failed.status = order[s].status /\ failed.pay = "failed" /\ failed.items = order[s].items
    BY <1>1 DEF OrderRow
  <2>2. SweptOrder(s) = IF session[s].status = "payment_processing" /\ Lapsed(session[s])
                           /\ order[s].pay = "pending"
                        THEN failed ELSE order[s]
    BY DEF SweptOrder
  <2> HIDE DEF failed
  <2> QED BY <2>1, <2>2
<1>5. TypeOK'
  <2>1. session' \in [Sessions -> SessionRow]
    BY <1>1, <1>2
  <2> QED BY <1>1, <2>1 DEF TypeOK, RowsOK
<1>6. OneLiveSession'
  <2>1. ASSUME NEW s \in Sessions, session'[s].status \in LiveSession PROVE session[s].status \in LiveSession
    <3>1. session[s] \in SessionRow /\ session'[s] = SweptSession(session[s])
      BY <1>1
    <3> QED BY <1>2, <2>1, <3>1
  <2> QED BY <1>1, <2>1, NoneGoesLive
<1>7. ASSUME NEW s \in Sessions PROVE Moved(s)
  <2>1. /\ session[s] \in SessionRow /\ session'[s] = SweptSession(session[s])
        /\ order'[s] = SweptOrder(s) /\ HoldSession(s) /\ reservation[s] \in [Variants -> ReservationRow]
        /\ reservation'[s] = [v \in Variants |-> SweptReservation(reservation[s][v])]
    BY <1>1 DEF HoldIInv
  <2>2. \A v \in Variants : /\ reservation[s][v] \in ReservationRow
                            /\ reservation'[s][v] = SweptReservation(reservation[s][v])
    BY <2>1
  <2>3. ASSUME NEW v \in Variants, reservation[s][v] = NoReservation
        PROVE  reservation'[s][v] = NoReservation
    BY <1>3, <2>2, <2>3 DEF NoReservation, ActiveReservation
  <2>4. ASSUME NEW v \in Variants, reservation[s][v] # NoReservation
        PROVE  /\ reservation'[s][v].status = StatusOfRows(session'[s].status)
               /\ reservation'[s][v].status # "none"
               /\ reservation'[s][v].expires = session'[s].expires
    <3>1. /\ reservation[s][v].status = StatusOfRows(session[s].status)
          /\ reservation[s][v].status # "none" /\ reservation[s][v].expires = session[s].expires
          /\ Lapsed(reservation[s][v]) <=> Lapsed(session[s])
      BY <2>1, <2>4 DEF HoldSession, Lapsed
    <3>2. CASE ~Lapsed(session[s])
      <4>1. session'[s] = session[s] /\ reservation'[s][v] = reservation[s][v]
        BY <1>2, <1>3, <2>1, <2>2, <3>1, <3>2
      <4> QED BY <3>1, <4>1
    <3>3. CASE Lapsed(session[s]) /\ session[s].status \in LiveSession
      <4>1. \/ session'[s].status = "expired" /\ reservation'[s][v].status = "expired"
            \/ session'[s].status = "cancelled" /\ reservation'[s][v].status = "cancelled"
        BY <1>2, <1>3, <2>1, <2>2, <3>1, <3>3 DEF LiveSession, StatusOfRows
      <4>2. session'[s].expires = session[s].expires /\ reservation'[s][v].expires = reservation[s][v].expires
        BY <1>2, <1>3, <2>1, <2>2
      <4> QED BY <3>1, <4>1, <4>2 DEF StatusOfRows
    <3>4. CASE session[s].status \notin LiveSession
      <4>1. reservation[s][v].status \notin ActiveReservation
        BY <2>1, <3>1, <3>4 DEF StatusOfRows, LiveSession, ActiveReservation, SessionRow, SessionStatus
      <4>2. session'[s] = session[s] /\ reservation'[s][v] = reservation[s][v]
        BY <1>2, <1>3, <2>1, <2>2, <3>4, <4>1
      <4> QED BY <3>1, <4>2
    <3> QED BY <3>2, <3>3, <3>4
  <2>5. \A v \in Variants : reservation'[s][v].quantity = reservation[s][v].quantity
    BY <1>3, <2>2
  <2>6. \/ session'[s] = session[s]
        \/ session'[s].status \in {"expired", "cancelled"} /\ session[s].status \in LiveSession
    BY <1>2, <2>1 DEF LiveSession, SessionRow
  <2>7. order'[s].status = "placed" /\ order'[s].pay = "pending" => session'[s].status = "payment_processing"
    <3> SUFFICES ASSUME order'[s].status = "placed", order'[s].pay = "pending"
                 PROVE  session'[s].status = "payment_processing"
      OBVIOUS
    <3>1. session[s].status = "payment_processing" /\ ~Lapsed(session[s])
      BY <1>4, <2>1 DEF HoldSession
    <3> QED BY <1>2, <2>1, <3>1
  <2>8. Ordered(s)' <=> Ordered(s)
    BY <1>4, <2>1 DEF Ordered
  <2>9. HoldSession(s)'
    <3>1. order'[s].items = order[s].items /\ (order[s].pay = "none" => order'[s].pay = "none")
          /\ payment'[s] = payment[s] /\ gateway'[s] = gateway[s]
      BY <1>1, <1>4, <2>1
    <3>2. \A v \in Variants : reservation'[s][v] # NoReservation =>
            /\ reservation'[s][v].status = StatusOfRows(session'[s].status)
            /\ reservation'[s][v].status # "none"
            /\ reservation'[s][v].expires = session'[s].expires
      BY <2>3, <2>4
    <3>3. Ordered(s) => session'[s].status \notin {"none", "active"}
      BY <2>1, <2>6 DEF HoldSession
    <3> QED BY <2>1, <2>5, <2>7, <2>8, <3>1, <3>2, <3>3 DEF HoldSession, StatusOfRows, NoReservation
  <2>10. order[s].pay # "pending" => order'[s].pay # "pending"
    BY <1>4, <2>1
  <2>11. SessionLocked(s)' => session'[s] = session[s] /\ reservation'[s] = reservation[s]
    <3> SUFFICES ASSUME ~Lapsed(session[s])
                 PROVE  session'[s] = session[s] /\ reservation'[s] = reservation[s]
      OBVIOUS
    <3>1. \A v \in Variants : reservation'[s][v] = reservation[s][v]
      <4>1. ASSUME NEW v \in Variants, reservation[s][v] # NoReservation
            PROVE  reservation'[s][v] = reservation[s][v]
        BY <1>3, <2>1, <2>2, <4>1 DEF HoldSession, Lapsed
      <4> QED BY <2>3, <4>1
    <3>2. reservation'[s] = reservation[s]
      BY <2>1, <3>1
    <3> QED BY <1>2, <2>1, <3>2
  <2> QED BY <2>8, <2>9, <2>10, <2>11 DEF Moved
<1> QED BY <1>5, <1>6, <1>7, MovedKept

-----------------------------------------------------------------------------
(* Handlers *)

\* No handler is under way at first and no session exists.
LEMMA HoldInit == RacesInit => HoldIInv
<1> SUFFICES ASSUME RacesInit PROVE HoldIInv
  OBVIOUS
<1> USE SetsAssumption, NumbersAssumption
    DEF RacesInit, Init, NoSession, NoReservation, NoOrder, NoPayment
<1>1. TypeOK
  BY DEF TypeOK, SessionRow, ReservationRow, OrderRow, PaymentRow, GatewayState, Event,
         SessionStatus, ReservationStatus, OrderStatus, PaymentStatus, GatewayStatus, NoEvent
<1>2. OneLiveSession /\ \A s \in Sessions : HoldSession(s)
  BY DEF OneLiveSession, LiveSession, HoldSession, Ordered
<1>3. OnePayer /\ \A w \in Workers : Loaded(w)
  BY DEF OnePayer, Loaded, Idle
<1> QED BY <1>1, <1>2, <1>3 DEF HoldIInv

\* What a handler loads is so when it loads it, and /pay takes a free lock.
LEMMA LoadHold ==
  ASSUME RacesIInv, HoldIInv, NEW w \in Workers, NEW s \in Sessions,
         \/ \E e \in Event : LoadWebhook(w, s, e)
         \/ LoadAdminCancel(w, s) \/ LoadPay(w, s)
  PROVE  HoldIInv'
<1>1. /\ UNCHANGED vars /\ HoldSession(s) /\ order[s] \in OrderRow
      /\ UNCHANGED <<now, stock, sold, adjusted, session, reservation, order, payment, gateway>>
  BY DEF LoadWebhook, LoadAdminCancel, LoadPay, vars, HoldIInv, TypeOK
<1>2. PICK row : /\ worker' = [worker EXCEPT ![w] = row] /\ row.s = s
                 /\ row.kind # "pay" => row.ord = order[s] /\ Ordered(s)
                 /\ row.kind = "pay" => /\ session[s].status = "active" /\ ~SessionLocked(s)
                                        /\ row.lines = LinesToPay(s)
  <2>1. CASE \E e \in Event : LoadWebhook(w, s, e)
    <3> PICK e \in Event : LoadWebhook(w, s, e)
      BY <2>1
    <3> DEFINE row == [kind |-> e.kind, s |-> s, id |-> e.id, pay |-> payment[s], ord |-> order[s]]
    <3>1. worker' = [worker EXCEPT ![w] = row] /\ gateway[s].events # {}
      BY DEF LoadWebhook, Load
    <3>2. e.kind # "pay" /\ Ordered(s)
      BY <1>1, <3>1 DEF Event, HoldSession
    <3>3. row.s = s /\ row.kind = e.kind /\ row.ord = order[s]
      OBVIOUS
    <3> HIDE DEF row
    <3> QED BY <3>1, <3>2, <3>3
  <2>2. CASE LoadAdminCancel(w, s)
    <3> DEFINE row == [kind |-> "admin_cancel", s |-> s, ord |-> order[s]]
    <3>1. worker' = [worker EXCEPT ![w] = row] /\ Ordered(s)
      BY <2>2 DEF LoadAdminCancel, Load, Ordered
    <3>2. row.s = s /\ row.kind = "admin_cancel" /\ row.ord = order[s]
      OBVIOUS
    <3> HIDE DEF row
    <3> QED BY <3>1, <3>2
  <2>3. CASE LoadPay(w, s)
    <3> DEFINE row == [kind |-> "pay", s |-> s, lines |-> LinesToPay(s)]
    <3>1. worker' = [worker EXCEPT ![w] = row] /\ session[s].status = "active" /\ ~SessionLocked(s)
      BY <2>3 DEF LoadPay, Load, Payable
    <3>2. row.s = s /\ row.kind = "pay" /\ row.lines = LinesToPay(s)
      OBVIOUS
    <3> HIDE DEF row
    <3> QED BY <3>1, <3>2
  <2> QED BY <2>1, <2>2, <2>3
<1>3. \A x \in Workers : worker'[x] = IF x = w THEN row ELSE worker[x]
  BY <1>2 DEF RacesIInv
<1>4. TypeOK' /\ OneLiveSession' /\ \A t \in Sessions : HoldSession(t)'
  BY <1>1 DEF HoldIInv, TypeOK, OneLiveSession, HoldSession, Ordered, StatusOfRows, NoReservation
<1>5. OnePayer'
  BY <1>2, <1>3 DEF HoldIInv, OnePayer, SessionLocked
<1>6. ASSUME NEW x \in Workers PROVE Loaded(x)'
  <2>1. CASE x = w
    BY <1>1, <1>2, <1>3, <2>1 DEF Loaded, Ordered, LinesToPay
  <2>2. CASE x # w
    BY <1>1, <1>3, <2>2 DEF HoldIInv, Loaded, Ordered, LinesToPay
  <2> QED BY <2>1, <2>2
<1> QED BY <1>4, <1>5, <1>6 DEF HoldIInv

\* A handler acts on what it loaded.
LEMMA CommitHold ==
  ASSUME RacesIInv, HoldIInv, RowsOK', NEW w \in Workers,
         \/ CommitCaptured(w) \/ CommitFailed(w) \/ CommitAdminCancel(w)
         \/ CommitPay(w) \/ RefusePay(w)
  PROVE  HoldIInv'
<1>1. worker' = [worker EXCEPT ![w] = Idle] /\ worker[w] # Idle
  BY DEF CommitCaptured, CommitFailed, CommitAdminCancel, CommitPay, RefusePay, Done, Idle
<1>2. WorkersRest /\ Loaded(w) /\ Carried(w) /\ worker[w].s \in Sessions
  BY <1>1 DEF WorkersRest, HoldIInv, RacesIInv, Loaded
<1> PICK s \in Sessions : s = worker[w].s
  BY <1>2
<1>3. CASE CommitCaptured(w)
  <2>1. Ordered(s) /\ worker[w].id \in EventIds /\ OnCaptured(s, worker[w].id, worker[w].pay, worker[w].ord)
    BY <1>1, <1>2, <1>3 DEF CommitCaptured, Done, Loaded, Carried
  <2> QED BY <1>2, <2>1, CapturedHold
<1>4. CASE CommitFailed(w)
  <2>1. /\ Ordered(s) /\ worker[w].id \in EventIds /\ OnFailed(s, worker[w].id, worker[w].pay, worker[w].ord)
        /\ worker[w].ord.pay = "failed" => order[s].pay # "pending"
    BY <1>1, <1>2, <1>4 DEF CommitFailed, Done, Loaded, Carried
  <2> QED BY <1>2, <2>1, FailedHold
<1>5. CASE CommitAdminCancel(w)
  <2>1. Ordered(s) /\ worker[w].ord \in OrderRow /\ AdminCancel(s, worker[w].ord)
    BY <1>1, <1>2, <1>5 DEF CommitAdminCancel, Done, Loaded
  <2> QED BY <1>2, <2>1, AdminCancelHold
<1>6. CASE CommitPay(w)
  <2>1. session[s].status = "active" /\ PlaceOrder(s, LinesToPay(s)) /\ worker[w].kind = "pay"
    BY <1>1, <1>2, <1>6 DEF CommitPay, Done, Loaded
  <2>2. ~SessionLocked(s)'
    <3>1. \A x \in Workers : worker'[x] = IF x = w THEN Idle ELSE worker[x]
      BY <1>1 DEF RacesIInv
    <3> QED BY <2>1, <3>1 DEF SessionLocked, HoldIInv, OnePayer, Idle
  <2> QED BY <1>2, <2>1, <2>2, PayHold
<1>7. CASE RefusePay(w)
  BY <1>2, <1>7, ShelfHold DEF RefusePay
<1> QED BY <1>3, <1>4, <1>5, <1>6, <1>7

\* A handler that runs in one piece waits for the session's lock.
LEMMA WholeHold ==
  ASSUME RacesIInv, HoldIInv, RowsOK', Whole \/ UNCHANGED vars, UNCHANGED worker
  PROVE  HoldIInv'
<1>1. WorkersRest
  BY DEF WorkersRest
<1>2. \A s \in Sessions : SessionLocked(s)' <=> SessionLocked(s)
  BY DEF SessionLocked
<1>3. ASSUME NEW u \in Users, NEW s \in Sessions, NEW cart \in Carts,
             ~SessionLocked(s), StartCheckout(u, s, cart)
      PROVE  HoldIInv'
  BY <1>1, <1>2, <1>3, StartCheckoutHold
<1>4. ASSUME NEW s \in Sessions, ~SessionLocked(s), StartPayment(s) PROVE HoldIInv'
  BY <1>1, <1>2, <1>4, PayHold DEF StartPayment, Payable
<1>5. ASSUME NEW s \in Sessions, ~SessionLocked(s), CancelCheckout(s) PROVE HoldIInv'
  BY <1>1, <1>2, <1>5, CancelCheckoutHold
<1>6. ASSUME NEW s \in Sessions, NEW e \in Event, Webhook(s, e) PROVE HoldIInv'
  <2>1. e.id \in EventIds /\ Ordered(s)
    BY <1>6 DEF Event, Webhook, HoldIInv, HoldSession
  <2>2. CASE OnCaptured(s, e.id, payment[s], order[s])
    BY <1>1, <2>1, <2>2, CapturedHold
  <2>3. CASE OnFailed(s, e.id, payment[s], order[s])
    BY <1>1, <2>1, <2>3, FailedHold
  <2> QED BY <1>6, <2>2, <2>3 DEF Webhook
<1>7. ASSUME NEW s \in Sessions, AdminCancel(s, order[s]) PROVE HoldIInv'
  <2>1. Ordered(s) /\ order[s] \in OrderRow
    BY <1>7 DEF AdminCancel, Ordered, HoldIInv, TypeOK
  <2> QED BY <1>1, <1>7, <2>1, AdminCancelHold
<1>8. ASSUME ~SweepBlocked, Sweep PROVE HoldIInv'
  BY <1>1, <1>2, <1>8, SweepHold DEF SweepBlocked
<1>9. CASE \/ \E s \in Sessions, to \in OrderStatus : Fulfil(s, to)
           \/ GatewayNext
           \/ \E v \in Variants, target \in 0..MaxStock : AdminAdjust(v, target)
           \/ Tick \/ UNCHANGED vars
  BY <1>1, <1>9, FulfilHold, GatewayHold, ShelfHold
<1> QED BY <1>3, <1>4, <1>5, <1>6, <1>7, <1>8, <1>9 DEF Whole, AdminNext

\* Every step of a handler, split or whole, keeps the holds together.
LEMMA HoldStep == RacesIInv /\ HoldIInv /\ [RacesNext]_raceVars => HoldIInv'
<1> SUFFICES ASSUME RacesIInv, HoldIInv, [RacesNext]_raceVars PROVE HoldIInv'
  OBVIOUS
<1>0. RowsOK'
  BY RacesStep DEF RacesIInv
<1>1. CASE \E w \in Workers, s \in Sessions :
             \/ \E e \in Event : LoadWebhook(w, s, e)
             \/ LoadAdminCancel(w, s) \/ LoadPay(w, s)
  BY <1>1, LoadHold
<1>2. CASE \E w \in Workers : \/ CommitCaptured(w) \/ CommitFailed(w) \/ CommitAdminCancel(w)
                              \/ CommitPay(w) \/ RefusePay(w)
  BY <1>0, <1>2, CommitHold
<1>3. CASE (Whole \/ UNCHANGED vars) /\ UNCHANGED worker
  BY <1>0, <1>3, WholeHold
<1> QED BY <1>1, <1>2, <1>3 DEF RacesNext, raceVars

-----------------------------------------------------------------------------

\* Sessions, holds and orders belong together in every reachable state, whichever
\* stale rows the handlers act upon.
THEOREM HoldsInvariance == RacesSpec => [](RacesIInv /\ HoldIInv)
<1>1. RacesInit => RacesIInv /\ HoldIInv
  BY RacesInitIInv, HoldInit
<1>2. RacesIInv /\ HoldIInv /\ [RacesNext]_raceVars => (RacesIInv /\ HoldIInv)'
  BY RacesStep, HoldStep
<1> QED BY <1>1, <1>2, PTL DEF RacesSpec

\* No interleaving of handlers breaks the schema; stock stays non-negative because
\* commit_sale looks at it under the inventory locks.
THEOREM RacingTypes == RacesSpec => []TypeOK
<1>1. HoldIInv => TypeOK
  BY DEF HoldIInv
<1> QED BY <1>1, HoldsInvariance, PTL

\* A user has one live checkout although webhooks and cancels act on stale rows.
THEOREM RacingOneLiveSession == RacesSpec => []OneLiveSession
<1>1. HoldIInv => OneLiveSession
  BY DEF HoldIInv
<1> QED BY <1>1, HoldsInvariance, PTL

\* Reservations keep to their session, although a stale handler may move both.
THEOREM RacingRowsFollow == RacesSpec => []RowsFollowSession
<1>1. HoldIInv => RowsFollowSession
  BY DEF HoldIInv, HoldSession, RowsFollowSession
<1> QED BY <1>1, HoldsInvariance, PTL

\* An order is for what its checkout held: nothing changes the lines between the
\* load of /pay and its commit.
THEOREM RacingOrderMatches == RacesSpec => []OrderMatchesHold
<1>1. HoldIInv => OrderMatchesHold
  BY DEF HoldIInv, HoldSession, Ordered, OrderMatchesHold
<1> QED BY <1>1, HoldsInvariance, PTL

\* An order that waits for its payment is found by the backstop, also when a
\* failure saw it before another handler did.
THEOREM RacingAwaitedIsHeld == RacesSpec => []AwaitedPaymentIsHeld
<1>1. HoldIInv => AwaitedPaymentIsHeld
  BY DEF HoldIInv, HoldSession, AwaitedPaymentIsHeld
<1> QED BY <1>1, HoldsInvariance, PTL

-----------------------------------------------------------------------------
(* What stale rows do to a cancelled order: a capture may pay for it, and nothing *)
(* brings it back.                                                               *)

\* A cancelled order keeps its status, whatever a handler loaded before.
CancelledStaysCancelled ==
  [][\A s \in Sessions : order[s].status = "cancelled" => order'[s].status = "cancelled"]_vars

\* The handlers' writes to the order, on whatever they loaded.
LEMMA WritesKeepCancelled ==
  ASSUME TypeOK, NEW s \in Sessions, order[s].status = "cancelled", NEW t \in Sessions, NEW id,
         NEW seenPay, NEW seenOrd,
         OnCaptured(t, id, seenPay, seenOrd) \/ OnFailed(t, id, seenPay, seenOrd) \/ AdminCancel(t, seenOrd)
  PROVE  order'[s].status = "cancelled"
<1>0. order \in [Sessions -> OrderRow] /\ order[s] \in OrderRow
  BY DEF TypeOK
<1>1. CASE OnCaptured(t, id, seenPay, seenOrd)
  <2>1. order' = order \/ order' = [order EXCEPT ![t].pay = "paid"]
    BY <1>1 DEF OnCaptured, RecordRefund, ApplySale
  <2> QED BY <1>0, <2>1 DEF OrderRow
<1>2. CASE OnFailed(t, id, seenPay, seenOrd)
  <2>1. PICK to : order' = [order EXCEPT ![t].pay = to]
    BY <1>2 DEF OnFailed
  <2> QED BY <1>0, <2>1 DEF OrderRow
<1>3. CASE AdminCancel(t, seenOrd)
  BY <1>0, <1>3 DEF AdminCancel, OrderRow
<1> QED BY <1>1, <1>2, <1>3

\* A cancelled order's checkout is over, so /pay makes no order in its place.
LEMMA PayKeepsOrders ==
  ASSUME HoldIInv, NEW s \in Sessions, Ordered(s),
         NEW t \in Sessions, session[t].status = "active", NEW lines, PlaceOrder(t, lines)
  PROVE  order'[s] = order[s]
<1>1. t # s
  BY DEF HoldIInv, HoldSession
<1> QED BY <1>1 DEF PlaceOrder, HoldIInv, TypeOK

\* However the handlers interleave, a cancelled order is never open again.
THEOREM RacingCancelledStays == RacesSpec => CancelledStaysCancelled
<1>1. ASSUME RacesIInv, HoldIInv, [RacesNext]_raceVars, NEW s \in Sessions, order[s].status = "cancelled"
      PROVE  order'[s].status = "cancelled"
  <2>0. TypeOK /\ order \in [Sessions -> OrderRow] /\ order[s] \in OrderRow /\ Ordered(s)
    BY <1>1 DEF HoldIInv, TypeOK, Ordered
  <2>1. CASE order' = order
    BY <1>1, <2>1
  <2>2. ASSUME NEW w \in Workers,
               \/ CommitCaptured(w) \/ CommitFailed(w) \/ CommitAdminCancel(w)
               \/ CommitPay(w) \/ RefusePay(w)
        PROVE  order'[s].status = "cancelled"
    <3>1. worker[w] # Idle /\ Loaded(w)
      BY <1>1, <2>2 DEF CommitCaptured, CommitFailed, CommitAdminCancel, CommitPay, RefusePay, Done, Idle, HoldIInv
    <3>2. PICK t \in Sessions : t = worker[w].s
      BY <3>1 DEF Loaded
    <3>3. CASE CommitPay(w)
      <4>1. session[t].status = "active" /\ PlaceOrder(t, worker[w].lines)
        BY <3>1, <3>2, <3>3 DEF CommitPay, Done, Loaded
      <4> QED BY <1>1, <2>0, <4>1, PayKeepsOrders
    <3>4. CASE CommitCaptured(w) \/ CommitFailed(w) \/ CommitAdminCancel(w)
      BY <1>1, <2>0, <3>2, <3>4, WritesKeepCancelled DEF CommitCaptured, CommitFailed, CommitAdminCancel
    <3> QED BY <1>1, <2>2, <3>3, <3>4 DEF RefusePay, vars
  <2>3. CASE Whole
    <3>1. ASSUME NEW t \in Sessions, StartPayment(t) PROVE order'[s].status = "cancelled"
      BY <1>1, <2>0, <3>1, PayKeepsOrders DEF StartPayment, Payable
    <3>2. ASSUME NEW t \in Sessions, CancelCheckout(t) PROVE order'[s].status = "cancelled"
      <4>1. \/ order' = order
            \/ order' = [order EXCEPT ![t] = [order[t] EXCEPT !.status = "cancelled", !.pay = "failed"]]
        BY <3>2 DEF CancelCheckout
      <4> QED BY <1>1, <2>0, <4>1 DEF OrderRow
    <3>3. ASSUME NEW t \in Sessions, NEW e \in Event, Webhook(t, e) PROVE order'[s].status = "cancelled"
      BY <1>1, <2>0, <3>3, WritesKeepCancelled DEF Webhook
    <3>4. CASE Sweep
      <4>1. order'[s] = SweptOrder(s)
        BY <3>4 DEF Sweep
      <4> QED BY <1>1, <2>0, <4>1 DEF SweptOrder, OrderRow
    <3>5. ASSUME NEW t \in Sessions, NEW to \in OrderStatus, Fulfil(t, to) PROVE order'[s].status = "cancelled"
      BY <1>1, <2>0, <3>5 DEF Fulfil
    <3>6. ASSUME NEW t \in Sessions, AdminCancel(t, order[t]) PROVE order'[s].status = "cancelled"
      BY <1>1, <2>0, <3>6, WritesKeepCancelled
    <3>7. CASE \/ \E u \in Users, t \in Sessions, cart \in Carts : StartCheckout(u, t, cart)
               \/ GatewayNext
               \/ \E v \in Variants, target \in 0..MaxStock : AdminAdjust(v, target)
               \/ Tick
      BY <2>1, <3>7 DEF StartCheckout, GatewayNext, GatewayFails, GatewayCaptures, AdminAdjust, Tick, saleVars
    <3> QED BY <2>3, <3>1, <3>2, <3>3, <3>4, <3>5, <3>6, <3>7 DEF Whole, AdminNext
  <2>4. CASE \E w \in Workers, t \in Sessions :
               \/ \E e \in Event : LoadWebhook(w, t, e)
               \/ LoadAdminCancel(w, t) \/ LoadPay(w, t)
    BY <2>1, <2>4 DEF LoadWebhook, LoadAdminCancel, LoadPay, vars
  <2> QED BY <1>1, <2>1, <2>2, <2>3, <2>4 DEF RacesNext, raceVars, vars
<1>2. RacesIInv /\ HoldIInv /\ [RacesNext]_raceVars =>
        [\A s \in Sessions : order[s].status = "cancelled" => order'[s].status = "cancelled"]_vars
  BY <1>1
<1> QED BY <1>2, HoldsInvariance, PTL DEF RacesSpec, CancelledStaysCancelled

-----------------------------------------------------------------------------
(* What stale rows cost, and all they cost.  Where every webhook and every     *)
(* cancel commits on the rows it loaded, what Checkout guarantees about orders, *)
(* money and stock is kept, whatever overlaps: such a commit is a step of       *)
(* Checkout, and so is that of /pay, except that the hold may have lapsed since *)
(* its expiry was looked at.                                                    *)

\* A webhook or a cancel that commits finds the rows it loaded unchanged.
FreshRows ==
  \A w \in Workers :
    worker[w].kind \in {"captured", "failed", "admin_cancel"} /\ worker'[w] = Idle =>
      /\ worker[w].ord = order[worker[w].s]
      /\ worker[w].kind \in {"captured", "failed"} => worker[w].pay = payment[worker[w].s]

\* A step of the checkout, /pay without its look at the expiry included.
CheckoutStep == Next \/ \E s \in Sessions : HoldBecomesOrder(s)

\* What a webhook carries was announced, and stays so.
Announced(w) ==
  worker[w].kind \in {"captured", "failed"} =>
    [id |-> worker[w].id, kind |-> worker[w].kind] \in gateway[worker[w].s].events

\* The inductive invariant: that of the handlers and that of the whole checkout.
FreshIInv == (\A w \in Workers : Announced(w)) /\ RacesIInv /\ HoldIInv /\ IInv /\ Balanced

\* The gateway takes back no event.
LEMMA EventsStay ==
  ASSUME RacesIInv, [RacesNext]_raceVars, NEW s \in Sessions
  PROVE  gateway[s].events \subseteq gateway'[s].events
<1>0. gateway \in [Sessions -> GatewayState]
  BY DEF RacesIInv, RowsOK
<1>1. ASSUME NEW t \in Sessions, NEW id \in EventIds, GatewayFails(t, id) \/ GatewayCaptures(t, id)
      PROVE  gateway[s].events \subseteq gateway'[s].events
  BY <1>0, <1>1 DEF GatewayFails, GatewayCaptures, GatewayState
<1>2. CASE GatewayNext
  BY <1>1, <1>2 DEF GatewayNext
<1>3. CASE \E w \in Workers : \/ CommitCaptured(w) \/ CommitFailed(w) \/ CommitAdminCancel(w)
                              \/ CommitPay(w) \/ RefusePay(w)
  <2>1. UNCHANGED gateway
    BY <1>3 DEF CommitCaptured, CommitFailed, CommitAdminCancel, CommitPay, RefusePay,
                OnCaptured, OnFailed, AdminCancel, PlaceOrder, vars
  <2> QED BY <2>1
<1>4. CASE \E w \in Workers, t \in Sessions :
             \/ \E e \in Event : LoadWebhook(w, t, e)
             \/ LoadAdminCancel(w, t) \/ LoadPay(w, t)
  BY <1>4 DEF LoadWebhook, LoadAdminCancel, LoadPay, vars
<1>5. CASE Whole /\ ~GatewayNext
  <2>1. UNCHANGED gateway
    BY <1>5 DEF Whole, StartCheckout, StartPayment, PlaceOrder, CancelCheckout, Webhook, OnCaptured,
                OnFailed, Sweep, AdminNext, Fulfil, AdminCancel, AdminAdjust, Tick
  <2> QED BY <2>1
<1> QED BY <1>2, <1>3, <1>4, <1>5 DEF RacesNext, raceVars, vars

\* A webhook is loaded because its event was announced.
LEMMA AnnouncedStep ==
  ASSUME RacesIInv, \A w \in Workers : Announced(w), [RacesNext]_raceVars
  PROVE  \A w \in Workers : Announced(w)'
<1>0. worker = [w \in Workers |-> worker[w]]
  BY DEF RacesIInv
<1>1. \A w \in Workers : worker[w].kind \in {"captured", "failed"} => worker[w].s \in Sessions
  BY DEF RacesIInv, Carried, Idle
<1>2. ASSUME NEW x \in Workers, worker'[x] = worker[x] \/ worker'[x].kind \notin {"captured", "failed"}
      PROVE  Announced(x)'
  BY <1>1, <1>2, EventsStay DEF Announced
<1>3. ASSUME NEW w \in Workers, NEW row, Load(w, row), row.kind \notin {"captured", "failed"},
             NEW x \in Workers
      PROVE  Announced(x)'
  <2>1. worker'[x] = IF x = w THEN row ELSE worker[x]
    BY <1>0, <1>3 DEF Load
  <2> QED BY <1>2, <1>3, <2>1
<1>4. ASSUME NEW w \in Workers, NEW s \in Sessions, NEW e \in Event, LoadWebhook(w, s, e), NEW x \in Workers
      PROVE  Announced(x)'
  <2> DEFINE row == [kind |-> e.kind, s |-> s, id |-> e.id, pay |-> payment[s], ord |-> order[s]]
  <2>1. worker'[x] = IF x = w THEN row ELSE worker[x]
    BY <1>0, <1>4 DEF LoadWebhook, Load
  <2>2. row.s = s /\ [id |-> row.id, kind |-> row.kind] = e
    BY DEF Event
  <2>3. e \in gateway'[s].events
    BY <1>4, EventsStay DEF LoadWebhook
  <2> HIDE DEF row
  <2>4. CASE x = w
    BY <2>1, <2>2, <2>3, <2>4 DEF Announced
  <2> QED BY <1>2, <2>1, <2>4
<1>5. ASSUME NEW w \in Workers, NEW kind, Done(w, kind), NEW x \in Workers PROVE Announced(x)'
  <2>1. worker'[x] = IF x = w THEN Idle ELSE worker[x]
    BY <1>0, <1>5 DEF Done
  <2> QED BY <1>2, <2>1 DEF Idle
<1>6. CASE \E w \in Workers, s \in Sessions : LoadAdminCancel(w, s) \/ LoadPay(w, s)
  BY <1>3, <1>6 DEF LoadAdminCancel, LoadPay
<1>7. CASE \E w \in Workers : \/ CommitCaptured(w) \/ CommitFailed(w) \/ CommitAdminCancel(w)
                              \/ CommitPay(w) \/ RefusePay(w)
  BY <1>5, <1>7 DEF CommitCaptured, CommitFailed, CommitAdminCancel, CommitPay, RefusePay
<1>8. CASE UNCHANGED worker
  BY <1>2, <1>8
<1> QED BY <1>4, <1>6, <1>7, <1>8 DEF RacesNext, raceVars

\* The row lock keeps what /pay acts upon as it was loaded; what the others act
\* upon is as it was by hypothesis.
LEMMA FreshStepsAreSteps ==
  ASSUME FreshIInv, [RacesNext]_raceVars, [FreshRows]_raceVars
  PROVE  [CheckoutStep]_vars
<1>1. ASSUME NEW w \in Workers, NEW kind, Done(w, kind), kind \in {"captured", "failed", "admin_cancel"}
      PROVE  /\ worker[w].kind = kind /\ worker[w].s \in Sessions
             /\ worker[w].ord = order[worker[w].s]
             /\ kind # "admin_cancel" =>
                  /\ worker[w].pay = payment[worker[w].s]
                  /\ [id |-> worker[w].id, kind |-> kind] \in gateway[worker[w].s].events
                  /\ worker[w].id \in EventIds
  <2>1. worker[w].kind = kind /\ worker'[w] = Idle /\ worker'[w] # worker[w]
    BY <1>1 DEF Done, Idle, FreshIInv, RacesIInv
  <2>2. FreshRows
    BY <2>1 DEF raceVars
  <2>3. Carried(w) /\ Announced(w) /\ worker[w] # Idle
    BY <1>1, <2>1 DEF FreshIInv, RacesIInv, Idle
  <2> QED BY <1>1, <2>1, <2>2, <2>3 DEF FreshRows, Carried, Announced
<1>2. ASSUME NEW w \in Workers, CommitPay(w) PROVE CheckoutStep
  <2>1. Loaded(w) /\ worker[w].kind = "pay" /\ worker[w] # Idle
    BY <1>2 DEF CommitPay, Done, FreshIInv, HoldIInv, Idle
  <2>2. PICK s \in Sessions : s = worker[w].s
    BY <2>1 DEF Loaded
  <2>3. HoldBecomesOrder(s)
    BY <1>2, <2>1, <2>2 DEF Loaded, CommitPay, HoldBecomesOrder
  <2> QED BY <2>3 DEF CheckoutStep
<1>3. ASSUME NEW w \in Workers, CommitCaptured(w) \/ CommitFailed(w) PROVE CheckoutStep
  <2> DEFINE s == worker[w].s
             e == [id |-> worker[w].id, kind |-> worker[w].kind]
  <2>1. /\ s \in Sessions /\ e \in Event /\ e \in gateway[s].events
        /\ worker[w].ord = order[s] /\ worker[w].pay = payment[s]
    <3>1. PICK kind \in {"captured", "failed"} : Done(w, kind)
      BY <1>3 DEF CommitCaptured, CommitFailed
    <3>2. /\ worker[w].kind = kind /\ worker[w].s \in Sessions /\ worker[w].id \in EventIds
          /\ worker[w].ord = order[s] /\ worker[w].pay = payment[s]
          /\ [id |-> worker[w].id, kind |-> kind] \in gateway[worker[w].s].events
      BY <1>1, <3>1
    <3> QED BY <3>1, <3>2 DEF Event
  <2>2. Webhook(s, e)
    BY <1>1, <1>3, <2>1 DEF CommitCaptured, CommitFailed, Webhook
  <2> HIDE DEF s, e
  <2> QED BY <2>1, <2>2 DEF CheckoutStep, Next
<1>4. ASSUME NEW w \in Workers, CommitAdminCancel(w) PROVE CheckoutStep
  <2>1. worker[w].s \in Sessions /\ worker[w].ord = order[worker[w].s]
    BY <1>1, <1>4 DEF CommitAdminCancel
  <2>2. \E s \in Sessions : AdminCancel(s, order[s])
    BY <1>4, <2>1 DEF CommitAdminCancel
  <2> QED BY <2>2 DEF CheckoutStep, Next, AdminNext
<1>5. CASE \E w \in Workers : RefusePay(w)
  BY <1>5 DEF RefusePay
<1>6. CASE \E w \in Workers, s \in Sessions :
             \/ \E e \in Event : LoadWebhook(w, s, e)
             \/ LoadAdminCancel(w, s) \/ LoadPay(w, s)
  BY <1>6 DEF LoadWebhook, LoadAdminCancel, LoadPay
<1>7. CASE Whole
  BY <1>7 DEF Whole, CheckoutStep, Next, UserNext
<1> QED BY <1>2, <1>3, <1>4, <1>5, <1>6, <1>7 DEF RacesNext, raceVars

\* No handler is under way when the shop opens.
LEMMA FreshInit == RacesInit => FreshIInv
BY RacesInitIInv, HoldInit, InitIInv, InitBalanced DEF FreshIInv, Announced, Idle, RacesInit

\* Every step keeps it.
LEMMA FreshStep == FreshIInv /\ [RacesNext]_raceVars /\ [FreshRows]_raceVars => FreshIInv'
<1> SUFFICES ASSUME FreshIInv, [RacesNext]_raceVars, [FreshRows]_raceVars PROVE FreshIInv'
  OBVIOUS
<1>1. (\A w \in Workers : Announced(w)') /\ RacesIInv' /\ HoldIInv'
  BY AnnouncedStep, RacesStep, HoldStep DEF FreshIInv
<1>2. [CheckoutStep]_vars
  BY FreshStepsAreSteps
<1>3. IInv' /\ Balanced'
  BY <1>2, StepIInv, StepBalances, PayIInv, PayBalances DEF FreshIInv, CheckoutStep
<1> QED BY <1>1, <1>3 DEF FreshIInv

\* The whole checkout's invariant survives every overlap but a stale commit.
THEOREM FreshInvariance == RacesSpec /\ [][FreshRows]_raceVars => []FreshIInv
<1> QED BY FreshInit, FreshStep, PTL DEF RacesSpec

\* The webhooks and the admin's cancel run in one piece.
OnlyPayRaces == Racing \subseteq {"pay"}

\* The handlers under way are of the kinds that are taken apart.
OnlyRacers == \A w \in Workers : worker[w] = Idle \/ worker[w].kind \in Racing

\* What is loaded is of a kind that is taken apart.
LEMMA RacersStep == RacesIInv /\ OnlyRacers /\ [RacesNext]_raceVars => OnlyRacers'
<1> SUFFICES ASSUME RacesIInv, OnlyRacers, [RacesNext]_raceVars PROVE OnlyRacers'
  OBVIOUS
<1>0. worker = [w \in Workers |-> worker[w]]
  BY DEF RacesIInv
<1>1. ASSUME NEW w \in Workers, NEW row, Load(w, row) PROVE OnlyRacers'
  <2>1. \A x \in Workers : worker'[x] = IF x = w THEN row ELSE worker[x]
    BY <1>0, <1>1 DEF Load
  <2> QED BY <1>1, <2>1 DEF OnlyRacers, Load
<1>2. ASSUME NEW w \in Workers, NEW kind, Done(w, kind) PROVE OnlyRacers'
  <2>1. \A x \in Workers : worker'[x] = IF x = w THEN Idle ELSE worker[x]
    BY <1>0, <1>2 DEF Done
  <2> QED BY <2>1 DEF OnlyRacers
<1>3. CASE \E w \in Workers, s \in Sessions :
             \/ \E e \in Event : LoadWebhook(w, s, e)
             \/ LoadAdminCancel(w, s) \/ LoadPay(w, s)
  BY <1>1, <1>3 DEF LoadWebhook, LoadAdminCancel, LoadPay
<1>4. CASE \E w \in Workers : \/ CommitCaptured(w) \/ CommitFailed(w) \/ CommitAdminCancel(w)
                              \/ CommitPay(w) \/ RefusePay(w)
  BY <1>2, <1>4 DEF CommitCaptured, CommitFailed, CommitAdminCancel, CommitPay, RefusePay
<1>5. CASE UNCHANGED worker
  BY <1>5 DEF OnlyRacers
<1> QED BY <1>3, <1>4, <1>5 DEF RacesNext, raceVars

\* Where only /pay is taken apart no commit is stale, so each theorem below
\* holds for it without the hypothesis.
THEOREM OnlyPayRacesIsFresh == OnlyPayRaces /\ RacesSpec => [][FreshRows]_raceVars
<1>1. OnlyPayRaces /\ OnlyRacers => FreshRows
  BY DEF OnlyPayRaces, OnlyRacers, FreshRows, Idle
<1>2. RacesInit => OnlyRacers
  BY DEF RacesInit, OnlyRacers
<1>3. OnlyPayRaces => OnlyPayRaces'
  BY DEF OnlyPayRaces
<1> QED BY <1>1, <1>2, <1>3, RacersStep, RacesInvariance, PTL DEF RacesSpec

\* Recorded money is a sale or a refund owed, unless a webhook or a cancel writes
\* on the strength of rows that have changed; a hold that lapsed while /pay waited
\* for the inventory rows does no harm to it.
THEOREM FreshMoney == RacesSpec /\ [][FreshRows]_raceVars => []MoneyAccounted
<1>1. FreshIInv => MoneyAccounted
  BY IInvParts DEF FreshIInv
<1> QED BY <1>1, FreshInvariance, PTL

\* The shelf and the sold counter are what the orders say, unless a capture is
\* applied, or a cancel restocks, on the strength of rows that have changed.
THEOREM FreshUnits == RacesSpec /\ [][FreshRows]_raceVars => []EveryUnitAccountedFor
<1>1. FreshIInv => EveryUnitAccountedFor
  BY BalanceIsAccount DEF FreshIInv
<1> QED BY <1>1, FreshInvariance, PTL

\* The paid orders are some of the orders.
LEMMA SoldIsOrdered == FreshIInv => SoldOncePerOrder
<1> SUFFICES ASSUME FreshIInv, NEW v \in Variants PROVE sold[v] <= Sold(Sessions, v)
  BY DEF SoldOncePerOrder
<1> DEFINE f == Items(v)
           paid == [s \in Sessions |-> IF s \in PaidOrders THEN f[s] ELSE 0]
<1>1. PaidOrders \in SUBSET Sessions
  BY DEF PaidOrders
<1>2. sold[v] = SumOf(f, PaidOrders) /\ Sold(Sessions, v) = SumOf(f, Sessions)
  BY SoldIsSum DEF FreshIInv, Balanced
<1>3. \A s \in Sessions : f[s] \in Nat
  BY ItemsAreNat DEF FreshIInv
<1> HIDE DEF f
<1>4. /\ \A s \in PaidOrders : f[s] \in Int /\ paid[s] = f[s]
      /\ \A s \in Sessions \ PaidOrders : paid[s] = 0
      /\ \A s \in Sessions : paid[s] \in Int /\ f[s] \in Int /\ paid[s] <= f[s]
  BY <1>1, <1>3
<1> HIDE DEF paid
<1>5. SumOf(paid, Sessions) = SumOf(f, PaidOrders)
  BY <1>1, <1>4, SetsAssumption, SumFilter
<1>6. SumOf(paid, Sessions) <= SumOf(f, Sessions)
  BY <1>4, SetsAssumption, SumMono
<1> QED BY <1>2, <1>5, <1>6

\* "called once per capture": no order is sold twice, however many captured events
\* of it are handled at once, unless one is applied to a payment that another has
\* captured since it was loaded.
THEOREM FreshSold == RacesSpec /\ [][FreshRows]_raceVars => []SoldOncePerOrder
<1> QED BY SoldIsOrdered, FreshInvariance, PTL

\* A capture that finds its order as it was loaded never pays for a cancelled one.
THEOREM FreshCancelled == RacesSpec /\ [][FreshRows]_raceVars => CancelledIsFinal
<1>1. ASSUME FreshIInv, [RacesNext]_raceVars, [FreshRows]_raceVars,
             NEW s \in Sessions, order[s].status = "cancelled"
      PROVE  order'[s].status = "cancelled" /\ (order'[s].pay = "paid" => order[s].pay = "paid")
  <2>1. IInv /\ [CheckoutStep]_vars
    BY <1>1, FreshStepsAreSteps DEF FreshIInv
  <2>2. CASE \E t \in Sessions : HoldBecomesOrder(t)
    BY <1>1, <2>1, <2>2, PayFrame
  <2> QED BY <1>1, <2>1, <2>2, CancelledStep DEF CheckoutStep, vars
<1>2. FreshIInv /\ [RacesNext]_raceVars /\ [FreshRows]_raceVars =>
        [\A s \in Sessions : order[s].status = "cancelled" =>
           /\ order'[s].status = "cancelled"
           /\ order'[s].pay = "paid" => order[s].pay = "paid"]_vars
  BY <1>1
<1> QED BY <1>2, FreshInvariance, PTL DEF RacesSpec, CancelledIsFinal

\* A paid order stays paid unless a failure that was loaded before the capture is
\* written after it.
THEOREM FreshPaid == RacesSpec /\ [][FreshRows]_raceVars => PaidIsFinal
<1>1. ASSUME FreshIInv, [RacesNext]_raceVars, [FreshRows]_raceVars, NEW s \in Sessions, order[s].pay = "paid"
      PROVE  order'[s].pay = "paid" /\ session'[s] = session[s] /\ payment'[s].status = "captured"
  <2>1. IInv /\ [CheckoutStep]_vars
    BY <1>1, FreshStepsAreSteps DEF FreshIInv
  <2>2. order[s].status # "none" /\ payment[s].status = "captured"
    BY <1>1, <2>1 DEF IInv, SessionInv, Linked, NoOrder
  <2>3. CASE \E t \in Sessions : HoldBecomesOrder(t)
    BY <1>1, <2>1, <2>2, <2>3, PayFrame
  <2> QED BY <1>1, <2>1, <2>2, <2>3, PaidStep DEF CheckoutStep, vars
<1>2. FreshIInv /\ [RacesNext]_raceVars /\ [FreshRows]_raceVars =>
        [\A s \in Sessions : order[s].pay = "paid" =>
           order'[s].pay = "paid" /\ session'[s] = session[s] /\ payment'[s].status = "captured"]_vars
  BY <1>1
<1> QED BY <1>2, FreshInvariance, PTL DEF RacesSpec, PaidIsFinal

\* A customer who pays within a running hold is refunded only where a unit was
\* taken from under a hold before, however captures and /pay requests overlap.
THEOREM FreshHonoured == RacesSpec /\ [][FreshRows]_raceVars => HoldInTimeIsHonoured
<1>1. ASSUME FreshIInv, [RacesNext]_raceVars, [FreshRows]_raceVars,
             NEW s \in Sessions, ~payment[s].refund, payment'[s].refund, InTime(s)
      PROVE  \E v \in Variants : Deficit(v) > 0
  <2>1. IInv /\ [CheckoutStep]_vars /\ payment \in [Sessions -> PaymentRow]
    BY <1>1, FreshStepsAreSteps DEF FreshIInv, IInv, TypeOK
  <2>2. ASSUME NEW t \in Sessions, HoldBecomesOrder(t) PROVE FALSE
    <3>1. payment' = [payment EXCEPT ![t] = NewPayment]
      BY <2>2 DEF HoldBecomesOrder, PlaceOrder
    <3> QED BY <1>1, <2>1, <3>1 DEF NewPayment
  <2> QED BY <1>1, <2>1, <2>2, RefundInTime DEF CheckoutStep
<1>2. FreshIInv /\ [RacesNext]_raceVars /\ [FreshRows]_raceVars =>
        [\A s \in Sessions : ~payment[s].refund /\ payment'[s].refund /\ InTime(s) =>
           \E v \in Variants : Deficit(v) > 0]_vars
  BY <1>1
<1> QED BY <1>2, FreshInvariance, PTL DEF RacesSpec, HoldInTimeIsHonoured

\* Handlers that overlap and commit on fresh rows settle every order as
\* OrderSettlement allows.
THEOREM FreshImplementation == RacesSpec /\ [][FreshRows]_raceVars => ImplementsSettlement
<1>1. RacesInit => Settlement!Init
  BY InitSettles DEF RacesInit
<1>2. FreshIInv /\ [RacesNext]_raceVars /\ [FreshRows]_raceVars =>
        [Settlement!Next]_(Settlement!settlementVars)
  <2> SUFFICES ASSUME FreshIInv, [RacesNext]_raceVars, [FreshRows]_raceVars
               PROVE  [Settlement!Next]_(Settlement!settlementVars)
    OBVIOUS
  <2>1. IInv /\ [CheckoutStep]_vars
    BY FreshStepsAreSteps DEF FreshIInv
  <2>2. CASE \E s \in Sessions : HoldBecomesOrder(s)
    BY <2>1, <2>2, PayPlaces DEF Settlement!Next
  <2> QED BY <2>1, <2>2, StepSettles DEF CheckoutStep
<1> QED BY <1>1, <1>2, FreshInvariance, PTL
     DEF RacesSpec, ImplementsSettlement, Settlement!Spec

\* No step takes a unit from under a live hold, except the capture of an order
\* whose own hold was over, and the /pay whose hold lapsed while it waited.
OnlyLatenessEatsAHold ==
  [][\A v \in Variants : Deficit(v)' > Deficit(v) =>
       \E s \in Sessions :
         \/ order[s].pay # "paid" /\ order'[s].pay = "paid" /\ ~InTime(s)
         \/ order[s].status = "none" /\ order'[s].status = "placed" /\ session[s].expires <= now]_vars

\* A /pay that waits for the inventory rows beyond the end of its hold takes the
\* units back from whoever holds them by then; nothing else but a late capture does.
THEOREM FreshLateness == RacesSpec /\ [][FreshRows]_raceVars => OnlyLatenessEatsAHold
<1>1. ASSUME FreshIInv, FreshIInv', [RacesNext]_raceVars, [FreshRows]_raceVars,
             NEW v \in Variants, Deficit(v)' > Deficit(v)
      PROVE  \E s \in Sessions :
               \/ order[s].pay # "paid" /\ order'[s].pay = "paid" /\ ~InTime(s)
               \/ order[s].status = "none" /\ order'[s].status = "placed" /\ session[s].expires <= now
  <2>1. IInv /\ IInv' /\ [CheckoutStep]_vars
    BY <1>1, FreshStepsAreSteps DEF FreshIInv
  <2>2. ASSUME NEW s \in Sessions, HoldBecomesOrder(s)
        PROVE  order[s].status = "none" /\ order'[s].status = "placed" /\ session[s].expires <= now
    <3>1. ~(session[s].expires > now)
      BY <1>1, <2>1, <2>2, PayEatsNothing
    <3>2. session[s] \in SessionRow /\ now \in Nat /\ order \in [Sessions -> OrderRow]
      BY <2>1 DEF IInv, TypeOK
    <3>3. session[s].expires \in Nat
      BY <3>2 DEF SessionRow
    <3>4. session[s].expires <= now
      BY <3>1, <3>2, <3>3
    <3> QED BY <2>1, <2>2, <3>2, <3>4 DEF HoldBecomesOrder, PlaceOrder, IInv, SessionInv, Linked
  <2>3. CASE \E s \in Sessions : HoldBecomesOrder(s)
    BY <2>2, <2>3
  <2> QED BY <1>1, <2>1, <2>3, OnlyCapturesEat DEF CheckoutStep
<1>2. FreshIInv /\ FreshIInv' /\ [RacesNext]_raceVars /\ [FreshRows]_raceVars =>
        [\A v \in Variants : Deficit(v)' > Deficit(v) =>
           \E s \in Sessions :
             \/ order[s].pay # "paid" /\ order'[s].pay = "paid" /\ ~InTime(s)
             \/ order[s].status = "none" /\ order'[s].status = "placed" /\ session[s].expires <= now]_vars
  BY <1>1
<1> QED BY <1>2, FreshInvariance, PTL DEF RacesSpec, OnlyLatenessEatsAHold
=============================================================================
