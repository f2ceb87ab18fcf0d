---------------------------- MODULE Orders_proofs ----------------------------
(* Theorems about orders and carts.  Fulfilment: requests that act on an      *)
(* order they read earlier neither send out nor hand over what is not paid    *)
(* for.  The legacy checkout: a key orders once, and the inventory row keeps  *)
(* to its columns.  Carts: a line is raised within the stock.  All for every  *)
(* number of orders, requests, carriers, keys, shoppers and goods.            *)
EXTENDS Fulfilment, LegacyOrders, Cart, SumLemmas

-----------------------------------------------------------------------------
(* Fulfilment *)

\* The payment states a method knows.
PayOfMethod(row) ==
  row.pay \in (IF row.method = "cod" THEN {"cod_pending", "paid"} ELSE {"pending", "failed", "paid"})

\* Past packing: what only a settled order reaches, or one paid at the door.
Gone == {"packed", "shipped", "delivered"}

\* An order, its shipment, its money and what it has given back.  A failure that
\* is written late may turn the payment state back, but not what was received.
OrderIsSound(o) ==
  /\ parcel[o].status = "none" => parcel[o].pay = "pending" /\ parcel[o].method = "razorpay"
  /\ PayOfMethod(parcel[o])
  /\ o \in received => parcel[o].method = "razorpay" /\ parcel[o].pay \in {"paid", "failed"}
  /\ parcel[o].method = "razorpay"
     /\ (parcel[o].pay = "paid" \/ parcel[o].status \in Gone \/ shipment[o].vendor # Missing
           \/ returned[o] > 0)
       => o \in received
  /\ parcel[o].method = "cod" /\ (parcel[o].status = "delivered" \/ shipment[o].vendor # Missing)
       => parcel[o].pay = "paid"

\* What a request has read was true, and what it needs of it still is: the
\* method is the order's, money received stays received, and cash stays paid.
ReadIsSound(c) ==
  desk[c] # Free =>
    /\ desk[c].row.status # "none" /\ parcel[desk[c].parcel].status # "none"
    /\ Accepts(desk[c].op, desk[c].row) /\ PayOfMethod(desk[c].row)
    /\ parcel[desk[c].parcel].method = desk[c].row.method
    /\ desk[c].row.method = "razorpay" /\ (desk[c].row.pay = "paid" \/ desk[c].row.status \in Gone)
         => desk[c].parcel \in received
    /\ desk[c].row.method = "cod" /\ desk[c].row.pay = "paid" => parcel[desk[c].parcel].pay = "paid"

\* The inductive invariant.
IInv ==
  /\ FulfilmentTypeOK
  /\ \A o \in Parcels : OrderIsSound(o)
  /\ \A c \in Clerks : ReadIsSound(c)

\* There are no orders at first.
LEMMA InitIInv == FulfilmentInit => IInv
<1> SUFFICES ASSUME FulfilmentInit PROVE IInv
  OBVIOUS
<1>1. FulfilmentTypeOK
  BY DEF FulfilmentInit, FulfilmentTypeOK, ParcelRow, Methods, ParcelStatus, ParcelPay,
         ShipmentRow, NoShipment
<1>2. \A o \in Parcels : OrderIsSound(o)
  BY DEF FulfilmentInit, OrderIsSound, PayOfMethod, Gone, NoShipment
<1>3. \A c \in Clerks : ReadIsSound(c)
  BY DEF FulfilmentInit, ReadIsSound
<1> QED BY <1>1, <1>2, <1>3 DEF IInv

\* A step that writes one order and reads none keeps the invariant if the row
\* it leaves is sound, keeps its method, its money and its cash.
LEMMA WriteIInv ==
  ASSUME IInv, FulfilmentTypeOK', NEW o \in Parcels,
         \A q \in Parcels \ {o} : parcel'[q] = parcel[q] /\ shipment'[q] = shipment[q]
                                  /\ returned'[q] = returned[q] /\ (q \in received' <=> q \in received),
         OrderIsSound(o)',
         parcel[o].status # "none" =>
           parcel'[o].status # "none" /\ parcel'[o].method = parcel[o].method,
         parcel[o].method = "cod" /\ parcel[o].pay = "paid" => parcel'[o].pay = "paid",
         o \in received => o \in received',
         \A c \in Clerks : desk'[c] = desk[c] \/ desk'[c] = Free
  PROVE  IInv'
<1>1. \A q \in Parcels : OrderIsSound(q)'
  BY DEF IInv, OrderIsSound, PayOfMethod
<1>2. ASSUME NEW c \in Clerks, desk'[c] # Free PROVE ReadIsSound(c)'
  <2>1. desk'[c] = desk[c] /\ desk[c] # Free /\ desk[c].parcel \in Parcels
    BY <1>2 DEF IInv, FulfilmentTypeOK, Job
  <2>2. ReadIsSound(c)
    BY DEF IInv
  <2>3. /\ parcel[desk[c].parcel].status # "none" => parcel'[desk[c].parcel].status # "none"
        /\ parcel[desk[c].parcel].status # "none" =>
             parcel'[desk[c].parcel].method = parcel[desk[c].parcel].method
        /\ parcel[desk[c].parcel].method = "cod" /\ parcel[desk[c].parcel].pay = "paid" =>
             parcel'[desk[c].parcel].pay = "paid"
        /\ desk[c].parcel \in received => desk[c].parcel \in received'
    BY <2>1
  <2> QED BY <2>1, <2>2, <2>3 DEF ReadIsSound
<1>3. \A c \in Clerks : ReadIsSound(c)'
  BY <1>2 DEF ReadIsSound
<1> QED BY <1>1, <1>3 DEF IInv

\* An order comes, or is given up by the backstop or the customer.
LEMMA CheckoutIInv ==
  ASSUME IInv, NEW o \in Parcels,
         (\E method \in Methods : PlaceParcel(o, method)) \/ Backstop(o) \/ Withdrawn(o)
  PROVE  IInv'
<1>1. /\ parcel[o] \in ParcelRow /\ parcel \in [Parcels -> ParcelRow] /\ OrderIsSound(o)
      /\ UNCHANGED <<shipment, desk, returned, received>>
  BY DEF IInv, FulfilmentTypeOK, PlaceParcel, Backstop, Withdrawn
<1>2. PICK row \in ParcelRow :
        /\ parcel' = [parcel EXCEPT ![o] = row]
        /\ row.status \notin {"none"} \cup Gone \/ row.status = parcel[o].status
        /\ row.status # "none" /\ PayOfMethod(row) /\ row.pay # "paid"
        /\ parcel[o].pay = "pending"
        /\ parcel[o].status # "none" => row.method = "razorpay" /\ parcel[o].method = "razorpay"
  <2>1. CASE \E method \in Methods : PlaceParcel(o, method)
    <3> PICK method \in Methods : PlaceParcel(o, method)
      BY <2>1
    <3> DEFINE new == [method |-> method, status |-> "placed",
                       pay |-> IF method = "cod" THEN "cod_pending" ELSE "pending"]
    <3>1. parcel' = [parcel EXCEPT ![o] = new] /\ parcel[o].status = "none" /\ parcel[o].pay = "pending"
      BY <1>1 DEF PlaceParcel, OrderIsSound
    <3>2. new \in ParcelRow /\ PayOfMethod(new) /\ new.status = "placed" /\ new.pay # "paid"
      BY DEF ParcelRow, Methods, ParcelStatus, ParcelPay, PayOfMethod
    <3> HIDE DEF new
    <3> QED BY <3>1, <3>2 DEF Gone
  <2>2. CASE Backstop(o)
    <3> DEFINE new == [parcel[o] EXCEPT !.pay = "failed"]
    <3>1. parcel' = [parcel EXCEPT ![o] = new] /\ Awaited(o)
      BY <1>1, <2>2 DEF Backstop
    <3>2. new \in ParcelRow /\ new.status = parcel[o].status /\ new.method = parcel[o].method
          /\ new.pay = "failed"
      BY <1>1 DEF ParcelRow, ParcelPay
    <3> HIDE DEF new
    <3> QED BY <3>1, <3>2 DEF Awaited, PayOfMethod
  <2>3. CASE Withdrawn(o)
    <3> DEFINE new == [parcel[o] EXCEPT !.status = "cancelled", !.pay = "failed"]
    <3>1. parcel' = [parcel EXCEPT ![o] = new] /\ Awaited(o)
      BY <1>1, <2>3 DEF Withdrawn
    <3>2. new \in ParcelRow /\ new.status = "cancelled" /\ new.method = parcel[o].method
          /\ new.pay = "failed"
      BY <1>1 DEF ParcelRow, ParcelPay, ParcelStatus
    <3> HIDE DEF new
    <3> QED BY <3>1, <3>2 DEF Awaited, PayOfMethod, Gone
  <2> QED BY <2>1, <2>2, <2>3
<1>3. parcel'[o] = row /\ FulfilmentTypeOK'
  BY <1>1, <1>2 DEF IInv, FulfilmentTypeOK
<1>4. o \notin received /\ (parcel[o].status \notin Gone \/ parcel[o].method # "razorpay")
      /\ (parcel[o].method = "razorpay" => shipment[o].vendor = Missing /\ ~(returned[o] > 0))
      /\ parcel[o].method = "razorpay"
  BY <1>1, <1>2 DEF OrderIsSound, PayOfMethod
<1>5. OrderIsSound(o)'
  BY <1>1, <1>2, <1>3, <1>4 DEF OrderIsSound, PayOfMethod, Gone
<1> QED BY <1>1, <1>2, <1>3, <1>4, <1>5, WriteIInv

\* The gateway's reports are written over whatever the order has become: a
\* capture brings money in, and a failure changes the payment state alone.
LEMMA GatewayIInv ==
  ASSUME IInv, NEW c \in Clerks, CommitCaptured(c) \/ CommitFailed(c)
  PROVE  IInv'
<1>1. PICK o \in Parcels :
        /\ desk[c] \in Job /\ desk[c] # Free /\ desk[c].parcel = o
        /\ desk' = [desk EXCEPT ![c] = Free] /\ UNCHANGED <<shipment, returned>>
  <2>1. desk[c] \in {Free} \cup Job /\ desk[c] # Free
    BY DEF IInv, FulfilmentTypeOK, CommitCaptured, CommitFailed, Free
  <2> QED BY <2>1 DEF Job, CommitCaptured, CommitFailed, Done
<1>2. /\ parcel \in [Parcels -> ParcelRow] /\ parcel[o] \in ParcelRow
      /\ desk \in [Clerks -> {Free} \cup Job] /\ received \subseteq Parcels
      /\ OrderIsSound(o) /\ ReadIsSound(c)
  BY <1>1 DEF IInv, FulfilmentTypeOK
<1>3. parcel[o].method = "razorpay" /\ parcel[o].status # "none"
  BY <1>1, <1>2 DEF ReadIsSound, Accepts, CommitCaptured, CommitFailed
<1>4. PICK pay \in {"paid", "failed", parcel[o].pay} :
        /\ parcel' = [parcel EXCEPT ![o] = [parcel[o] EXCEPT !.pay = pay]]
        /\ \/ pay = "paid" /\ received' = received \cup {o}
           \/ pay \in {"failed", parcel[o].pay} /\ received' = received
  <2>1. parcel = [parcel EXCEPT ![o] = [parcel[o] EXCEPT !.pay = parcel[o].pay]]
    <3>1. parcel[o] = [parcel[o] EXCEPT !.pay = parcel[o].pay]
      BY <1>2 DEF ParcelRow
    <3> QED BY <1>2, <3>1
  <2>2. CASE CommitCaptured(c)
    BY <1>1, <2>2 DEF CommitCaptured
  <2>3. CASE CommitFailed(c)
    BY <1>1, <2>1, <2>3 DEF CommitFailed
  <2> QED BY <2>2, <2>3
<1> DEFINE new == [parcel[o] EXCEPT !.pay = pay]
<1>5. /\ new \in ParcelRow /\ new.status = parcel[o].status /\ new.method = parcel[o].method
      /\ new.pay = pay
  BY <1>2 DEF ParcelRow, ParcelPay
<1>6. parcel' = [parcel EXCEPT ![o] = new]
  BY <1>4
<1> HIDE DEF new
<1>7. parcel'[o] = new /\ \A q \in Parcels \ {o} : parcel'[q] = parcel[q]
  BY <1>2, <1>6
<1>8. FulfilmentTypeOK'
  BY <1>1, <1>2, <1>4, <1>5, <1>6 DEF IInv, FulfilmentTypeOK
<1>9. OrderIsSound(o)'
  BY <1>1, <1>2, <1>3, <1>4, <1>5, <1>7 DEF OrderIsSound, PayOfMethod
<1>10. \A d \in Clerks : desk'[d] = desk[d] \/ desk'[d] = Free
  BY <1>1, <1>2
<1> QED BY <1>1, <1>3, <1>4, <1>5, <1>7, <1>8, <1>9, <1>10, WriteIInv

\* Reading writes no order, and what is read is as sound as the order it is of.
LEMMA ReadIInv ==
  ASSUME IInv, NEW c \in Clerks, NEW op \in Requests, NEW o \in Parcels, ReadOrder(c, op, o)
  PROVE  IInv'
<1> DEFINE job == [op |-> op, parcel |-> o, row |-> parcel[o], shipped |-> shipment[o].made]
<1>1. /\ desk' = [desk EXCEPT ![c] = job] /\ UNCHANGED <<parcel, shipment, returned, received>>
      /\ parcel[o] \in ParcelRow /\ shipment[o] \in ShipmentRow /\ OrderIsSound(o)
      /\ parcel[o].status # "none" /\ Accepts(op, parcel[o])
  BY DEF IInv, FulfilmentTypeOK, ReadOrder
<1>2. job \in Job
  BY <1>1 DEF Job, ShipmentRow
<1>3. FulfilmentTypeOK'
  BY <1>1, <1>2 DEF IInv, FulfilmentTypeOK
<1>4. \A q \in Parcels : OrderIsSound(q)'
  BY <1>1 DEF IInv, OrderIsSound
<1>5. ASSUME NEW d \in Clerks PROVE ReadIsSound(d)'
  <2>1. CASE d = c
    <3>1. desk'[c] = job
      BY <1>1 DEF IInv, FulfilmentTypeOK
    <3> HIDE DEF job
    <3>2. job.row = parcel[o] /\ job.parcel = o /\ job.op = op
      BY DEF job
    <3> QED BY <1>1, <2>1, <3>1, <3>2 DEF ReadIsSound, OrderIsSound
  <2>2. CASE d # c
    <3>1. desk'[d] = desk[d] /\ ReadIsSound(d)
      BY <1>1, <2>2 DEF IInv, FulfilmentTypeOK
    <3> QED BY <1>1, <3>1 DEF ReadIsSound
  <2> QED BY <2>1, <2>2
<1> QED BY <1>3, <1>4, <1>5 DEF IInv

\* A request that packs, delivers, cancels or takes cash writes the status it
\* was asked for over whatever the order has become.
LEMMA CommitIInv ==
  ASSUME IInv, NEW c \in Clerks,
         CommitPack(c) \/ CommitDeliver(c) \/ CommitCancel(c) \/ CommitCodPaid(c)
  PROVE  IInv'
<1>1. PICK o \in Parcels, read \in ParcelRow :
        /\ desk[c] \in Job /\ desk[c] # Free /\ desk[c].parcel = o /\ desk[c].row = read
        /\ desk' = [desk EXCEPT ![c] = Free]
  <2>1. desk[c] \in {Free} \cup Job /\ desk[c] # Free
    BY DEF IInv, FulfilmentTypeOK, CommitPack, CommitDeliver, CommitCancel, CommitCodPaid, Free
  <2> QED BY <2>1 DEF Job, CommitPack, CommitDeliver, CommitCancel, CommitCodPaid, Done
<1>2. /\ parcel \in [Parcels -> ParcelRow] /\ shipment \in [Parcels -> ShipmentRow]
      /\ returned \in [Parcels -> Nat] /\ desk \in [Clerks -> {Free} \cup Job]
      /\ OrderIsSound(o) /\ ReadIsSound(c)
  BY <1>1 DEF IInv, FulfilmentTypeOK
<1>3. /\ read.status # "none" /\ parcel[o].status # "none" /\ Accepts(desk[c].op, read)
      /\ PayOfMethod(read) /\ parcel[o].method = read.method
      /\ read.method = "razorpay" /\ (read.pay = "paid" \/ read.status \in Gone) => o \in received
      /\ read.method = "cod" /\ read.pay = "paid" => parcel[o].pay = "paid"
      /\ received' = received /\ received \subseteq Parcels
  BY <1>1, <1>2 DEF IInv, FulfilmentTypeOK, ReadIsSound, CommitPack, CommitDeliver, CommitCancel, CommitCodPaid
<1>4. PICK row \in ParcelRow, ship \in ShipmentRow, back \in Nat :
        /\ parcel' = [parcel EXCEPT ![o] = row]
        /\ shipment' = [shipment EXCEPT ![o] = ship]
        /\ returned' = [returned EXCEPT ![o] = back]
        /\ row.status # "none" /\ PayOfMethod(row) /\ row.method = parcel[o].method
        /\ parcel[o].method = "razorpay" =>
             /\ row.pay = parcel[o].pay
             /\ (row.status \in Gone \/ back > 0) => o \in received
        /\ parcel[o].method = "cod" =>
             /\ parcel[o].pay = "paid" => row.pay = "paid"
             /\ row.status = "delivered" => row.pay = "paid"
        /\ ship.vendor = shipment[o].vendor
  <2>0. /\ o \in Parcels /\ parcel[o] \in ParcelRow /\ shipment[o] \in ShipmentRow
        /\ returned[o] \in Nat
    BY <1>1, <1>2
  <2>1. CASE CommitPack(c)
    <3> DEFINE new == [parcel[o] EXCEPT !.status = "packed"]
    <3>1. /\ parcel' = [parcel EXCEPT ![o] = new] /\ shipment' = [shipment EXCEPT ![o] = shipment[o]]
          /\ returned' = [returned EXCEPT ![o] = returned[o]]
      BY <1>1, <1>2, <2>0, <2>1 DEF CommitPack
    <3>2. MayPack(read)
      BY <1>1, <1>3, <2>1 DEF Accepts, CommitPack
    <3>3. parcel[o].method = "razorpay" => o \in received
      BY <1>3, <3>2 DEF MayPack
    <3>4. /\ new \in ParcelRow /\ new.status = "packed" /\ new.pay = parcel[o].pay
          /\ new.method = parcel[o].method
      BY <2>0 DEF ParcelRow, ParcelStatus
    <3> HIDE DEF new
    <3> QED BY <1>2, <2>0, <3>1, <3>3, <3>4 DEF PayOfMethod, OrderIsSound
  <2>2. CASE CommitDeliver(c)
    <3> DEFINE pay == PayOnDelivery(read, parcel[o].pay)
               new == [parcel[o] EXCEPT !.status = "delivered", !.pay = pay]
               sent == [shipment[o] EXCEPT !.made = TRUE]
    <3>1. /\ parcel' = [parcel EXCEPT ![o] = new] /\ shipment' = [shipment EXCEPT ![o] = sent]
          /\ returned' = [returned EXCEPT ![o] = returned[o]]
      BY <1>1, <1>2, <2>0, <2>2 DEF CommitDeliver
    <3>2. read.status = "shipped"
      BY <1>1, <1>3, <2>2 DEF Accepts, Allowed, CommitDeliver
    <3>3. IF parcel[o].method = "cod" THEN pay = "paid" ELSE pay = parcel[o].pay /\ o \in received
      BY <1>3, <2>0, <3>2 DEF PayOfMethod, PayOnDelivery, Gone, ParcelRow, Methods
    <3>4. /\ new \in ParcelRow /\ new.status = "delivered" /\ new.pay = pay
          /\ new.method = parcel[o].method
      BY <2>0, <3>3 DEF ParcelRow, ParcelStatus, ParcelPay
    <3>5. sent \in ShipmentRow /\ sent.vendor = shipment[o].vendor
      BY <2>0 DEF ShipmentRow
    <3> HIDE DEF new, sent, pay
    <3> QED BY <1>2, <2>0, <3>1, <3>3, <3>4, <3>5 DEF PayOfMethod, OrderIsSound
  <2>3. CASE CommitCancel(c)
    <3> DEFINE new == [parcel[o] EXCEPT !.status = "cancelled"]
               back == IF StockLeft(read) THEN returned[o] + 1 ELSE returned[o]
    <3>1. /\ parcel' = [parcel EXCEPT ![o] = new] /\ shipment' = [shipment EXCEPT ![o] = shipment[o]]
          /\ returned' = [returned EXCEPT ![o] = back]
      BY <1>1, <1>2, <2>0, <2>3 DEF CommitCancel
    <3>2. back \in Nat /\ (parcel[o].method = "razorpay" /\ back > 0 => o \in received)
      BY <1>2, <1>3, <2>0 DEF StockLeft, OrderIsSound
    <3>3. /\ new \in ParcelRow /\ new.status = "cancelled" /\ new.pay = parcel[o].pay
          /\ new.method = parcel[o].method
      BY <2>0 DEF ParcelRow, ParcelStatus
    <3> HIDE DEF new, back
    <3> QED BY <1>2, <2>0, <3>1, <3>2, <3>3 DEF PayOfMethod, OrderIsSound, Gone
  <2>4. CASE CommitCodPaid(c)
    <3> DEFINE new == [parcel[o] EXCEPT !.pay = "paid"]
    <3>1. /\ parcel' = [parcel EXCEPT ![o] = new] /\ shipment' = [shipment EXCEPT ![o] = shipment[o]]
          /\ returned' = [returned EXCEPT ![o] = returned[o]]
      BY <1>1, <1>2, <2>0, <2>4 DEF CommitCodPaid
    <3>2. /\ new \in ParcelRow /\ new.status = parcel[o].status /\ new.pay = "paid"
          /\ new.method = parcel[o].method
      BY <2>0 DEF ParcelRow, ParcelPay
    <3>3. parcel[o].method = "cod"
      BY <1>1, <1>3, <2>4 DEF Accepts, CommitCodPaid
    <3> HIDE DEF new
    <3> QED BY <1>2, <1>3, <2>0, <3>1, <3>2, <3>3 DEF PayOfMethod, OrderIsSound
  <2> QED BY <2>1, <2>2, <2>3, <2>4
<1>5. o \in Parcels /\ parcel'[o] = row /\ shipment'[o] = ship /\ returned'[o] = back
  BY <1>2, <1>4
<1>6. FulfilmentTypeOK'
  BY <1>1, <1>2, <1>3, <1>4, <1>5 DEF FulfilmentTypeOK
<1>7. OrderIsSound(o)'
  <2>1. row.method \in Methods
    BY DEF ParcelRow
  <2> QED BY <1>2, <1>3, <1>4, <1>5, <2>1 DEF OrderIsSound, PayOfMethod, Methods
<1>8. \A d \in Clerks : desk'[d] = desk[d] \/ desk'[d] = Free
  BY <1>1, <1>2
<1>9. \A q \in Parcels \ {o} : parcel'[q] = parcel[q] /\ shipment'[q] = shipment[q]
                               /\ returned'[q] = returned[q]
  BY <1>2, <1>4
<1> QED BY <1>3, <1>4, <1>5, <1>6, <1>7, <1>8, <1>9, WriteIInv

\* Sending out: what was packed when it was read was paid, or is paid at the
\* door; a courier, who names the carrier, had read a paid one.
LEMMA ShipIInv ==
  ASSUME IInv, NEW c \in Clerks, NEW awb \in Awbs, CommitShip(c, awb)
  PROVE  IInv'
<1>1. PICK o \in Parcels, read \in ParcelRow :
        /\ desk[c] \in Job /\ desk[c] # Free /\ desk[c].parcel = o /\ desk[c].row = read
        /\ desk' = [desk EXCEPT ![c] = Free]
  <2>1. desk[c] \in {Free} \cup Job /\ desk[c] # Free
    BY DEF IInv, FulfilmentTypeOK, CommitShip, Free
  <2> QED BY <2>1 DEF Job, CommitShip, Done
<1>2. /\ parcel \in [Parcels -> ParcelRow] /\ shipment \in [Parcels -> ShipmentRow]
      /\ returned \in [Parcels -> Nat] /\ desk \in [Clerks -> {Free} \cup Job]
      /\ parcel[o] \in ParcelRow /\ shipment[o] \in ShipmentRow
      /\ OrderIsSound(o) /\ ReadIsSound(c) /\ received \subseteq Parcels
  BY <1>1 DEF IInv, FulfilmentTypeOK
<1>3. /\ parcel[o].status # "none" /\ Accepts(desk[c].op, read) /\ PayOfMethod(read)
      /\ parcel[o].method = read.method
      /\ read.method = "razorpay" /\ (read.pay = "paid" \/ read.status \in Gone) => o \in received
      /\ read.method = "cod" /\ read.pay = "paid" => parcel[o].pay = "paid"
  BY <1>1, <1>2 DEF ReadIsSound
<1> DEFINE new == [parcel[o] EXCEPT !.status = "shipped"]
           vendor == IF desk[c].op = "set_awb" THEN VendorOf[awb] ELSE shipment[o].vendor
           sent == [made |-> TRUE, awb |-> awb, vendor |-> vendor]
<1>4. /\ parcel' = [parcel EXCEPT ![o] = new] /\ shipment' = [shipment EXCEPT ![o] = sent]
      /\ UNCHANGED <<returned, received>>
  BY <1>1, <1>2 DEF CommitShip
<1>5. /\ new \in ParcelRow /\ new.status = "shipped" /\ new.pay = parcel[o].pay
      /\ new.method = parcel[o].method
  BY <1>2 DEF ParcelRow, ParcelStatus
<1>6. sent \in ShipmentRow /\ sent.vendor = vendor
  BY <1>2 DEF ShipmentRow, Vendors
<1>7. parcel[o].method = "razorpay" => o \in received
  <2>1. read.status = "packed"
    BY <1>1, <1>3 DEF CommitShip, Accepts, Allowed, MayDispatch
  <2> QED BY <1>3, <2>1 DEF Gone
<1>8. parcel[o].method = "cod" /\ vendor # Missing => parcel[o].pay = "paid"
  BY <1>1, <1>2, <1>3 DEF OrderIsSound, Accepts, MayDispatch
<1> HIDE DEF new, sent, vendor
<1>9. parcel'[o] = new /\ shipment'[o] = sent /\ returned'[o] = returned[o]
  BY <1>2, <1>4
<1>10. FulfilmentTypeOK'
  BY <1>1, <1>2, <1>4, <1>5, <1>6 DEF FulfilmentTypeOK
<1>11. OrderIsSound(o)'
  BY <1>2, <1>4, <1>5, <1>6, <1>7, <1>8, <1>9 DEF OrderIsSound, PayOfMethod
<1>12. \A d \in Clerks : desk'[d] = desk[d] \/ desk'[d] = Free
  BY <1>1, <1>2
<1>13. \A q \in Parcels \ {o} : parcel'[q] = parcel[q] /\ shipment'[q] = shipment[q]
                                /\ returned'[q] = returned[q]
  BY <1>2, <1>4
<1> QED BY <1>3, <1>4, <1>5, <1>9, <1>10, <1>11, <1>12, <1>13, WriteIInv

\* A refused request, and an edit of the shipment, which keeps the carrier.
LEMMA ShipmentIInv ==
  ASSUME IInv,
         \/ \E c \in Clerks : RefuseShipment(c)
         \/ \E o \in Parcels, awb \in Awbs \cup {Missing} : UpdateShipment(o, awb)
  PROVE  IInv'
<1>1. ASSUME NEW c \in Clerks, RefuseShipment(c) PROVE IInv'
  <2>1. UNCHANGED <<parcel, shipment, returned, received>> /\ desk' = [desk EXCEPT ![c] = Free]
    BY <1>1 DEF RefuseShipment, Done
  <2>2. PICK o \in Parcels : desk[c].parcel = o
    <3>1. desk[c] \in {Free} \cup Job /\ desk[c] # Free
      BY <1>1 DEF IInv, FulfilmentTypeOK, RefuseShipment, Free
    <3> QED BY <3>1 DEF Job
  <2>3. FulfilmentTypeOK'
    BY <2>1 DEF IInv, FulfilmentTypeOK
  <2>4. OrderIsSound(o)'
    BY <2>1 DEF IInv, OrderIsSound, PayOfMethod
  <2>5. \A d \in Clerks : desk'[d] = desk[d] \/ desk'[d] = Free
    BY <2>1 DEF IInv, FulfilmentTypeOK
  <2> QED BY <2>1, <2>3, <2>4, <2>5, WriteIInv
<1>2. ASSUME NEW o \in Parcels, NEW awb \in Awbs \cup {Missing}, UpdateShipment(o, awb) PROVE IInv'
  <2>1. /\ shipment \in [Parcels -> ShipmentRow] /\ shipment[o] \in ShipmentRow
        /\ UNCHANGED <<parcel, desk, returned, received>>
    BY <1>2 DEF IInv, FulfilmentTypeOK, UpdateShipment
  <2> DEFINE new == [shipment[o] EXCEPT !.made = TRUE,
                                        !.awb = IF awb = Missing THEN shipment[o].awb ELSE awb]
  <2>2. shipment' = [shipment EXCEPT ![o] = new]
    BY <1>2, <2>1 DEF UpdateShipment
  <2>3. new \in ShipmentRow /\ new.vendor = shipment[o].vendor
    BY <2>1 DEF ShipmentRow
  <2> HIDE DEF new
  <2>4. FulfilmentTypeOK'
    BY <2>1, <2>2, <2>3 DEF IInv, FulfilmentTypeOK
  <2>5. OrderIsSound(o)'
    BY <2>1, <2>2, <2>3 DEF IInv, OrderIsSound
  <2>6. \A q \in Parcels \ {o} : shipment'[q] = shipment[q]
    BY <2>1, <2>2
  <2> QED BY <2>1, <2>4, <2>5, <2>6, WriteIInv
<1> QED BY <1>1, <1>2

\* Every request keeps the orders sound, also one that acts on what it read earlier.
LEMMA NextIInv == IInv /\ [FulfilmentNext]_fulfilmentVars => IInv'
<1> SUFFICES ASSUME IInv, [FulfilmentNext]_fulfilmentVars PROVE IInv'
  OBVIOUS
<1>1. CASE UNCHANGED fulfilmentVars
  BY <1>1 DEF IInv, FulfilmentTypeOK, OrderIsSound, ReadIsSound, fulfilmentVars
<1>2. CASE \E o \in Parcels : \/ \E method \in Methods : PlaceParcel(o, method)
                              \/ Backstop(o) \/ Withdrawn(o)
  BY <1>2, CheckoutIInv
<1>3. CASE \E c \in Clerks, op \in Requests, o \in Parcels : ReadOrder(c, op, o)
  BY <1>3, ReadIInv
<1>4. CASE \E c \in Clerks : CommitPack(c) \/ CommitDeliver(c) \/ CommitCancel(c) \/ CommitCodPaid(c)
  BY <1>4, CommitIInv
<1>5. CASE \E c \in Clerks, awb \in Awbs : CommitShip(c, awb)
  BY <1>5, ShipIInv
<1>6. CASE \/ \E c \in Clerks : RefuseShipment(c)
           \/ \E o \in Parcels, awb \in Awbs \cup {Missing} : UpdateShipment(o, awb)
  BY <1>6, ShipmentIInv
<1>7. CASE \E c \in Clerks : CommitCaptured(c) \/ CommitFailed(c)
  BY <1>7, GatewayIInv
<1> QED BY <1>1, <1>2, <1>3, <1>4, <1>5, <1>6, <1>7 DEF FulfilmentNext

-----------------------------------------------------------------------------

\* Orders, shipments and returns stay sound through every interleaving of requests.
THEOREM FulfilmentInvariance == FulfilmentSpec => []IInv
BY InitIInv, NextIInv, PTL DEF FulfilmentSpec

\* The desk's tables hold what their columns may hold.
THEOREM FulfilmentTypes == FulfilmentSpec => []FulfilmentTypeOK
<1>1. IInv => FulfilmentTypeOK
  BY DEF IInv
<1> QED BY <1>1, FulfilmentInvariance, PTL

\* What has left the shop has been paid for or is paid at the door, what is
\* delivered has been paid for, and a carrier is asked about nothing else, although
\* every request, the gateway's captures and failures among them, acts on an order
\* it read before others changed it.
THEOREM PaidBeforeDelivered == FulfilmentSpec => []DeliveredIsPaid
<1>1. IInv => DeliveredIsPaid
  <2> SUFFICES ASSUME IInv, NEW o \in Parcels
               PROVE  /\ parcel[o].status = "delivered" => Settled(o) /\ o \in MyOrders \cup FailedOver
                      /\ o \in FulfillmentKpis.awaiting_shipment \cup FulfillmentKpis.in_transit =>
                           o \in ToDispatch \cup FulfillmentKpis.cod_outstanding \cup FailedOver
                      /\ Trackable(o) => Settled(o)
    BY DEF DeliveredIsPaid
  <2>1. OrderIsSound(o) /\ parcel[o].method \in Methods
    BY DEF IInv, FulfilmentTypeOK, ParcelRow
  <2>2. ASSUME parcel[o].status \in {"packed", "shipped"}
        PROVE  o \in ToDispatch \/ o \in FulfillmentKpis.cod_outstanding \/ o \in FailedOver
    BY <2>1, <2>2 DEF OrderIsSound, PayOfMethod, Gone, Methods, ToDispatch, FulfillmentKpis, FailedOver
  <2>3. o \in FulfillmentKpis.awaiting_shipment \cup FulfillmentKpis.in_transit =>
          parcel[o].status \in {"packed", "shipped"}
    BY DEF FulfillmentKpis
  <2>4. parcel[o].status = "delivered" \/ Trackable(o) => Settled(o)
    BY <2>1 DEF OrderIsSound, Gone, Methods, Trackable, Settled
  <2>5. parcel[o].status = "delivered" => o \in MyOrders \cup FailedOver
    BY <2>1 DEF OrderIsSound, Gone, Methods, MyOrders, FailedOver
  <2> QED BY <2>2, <2>3, <2>4, <2>5
<1> QED BY <1>1, FulfilmentInvariance, PTL

\* Units come back only for orders whose units had left, also when a capture or a
\* failure is written between a cancel's read and its commit.
THEOREM ReturnsHadLeft == FulfilmentSpec => []ReturnedHadLeft
<1>1. IInv => ReturnedHadLeft
  BY DEF IInv, FulfilmentTypeOK, ParcelRow, Methods, OrderIsSound, ReturnedHadLeft
<1> QED BY <1>1, FulfilmentInvariance, PTL

\* A request that writes a status finds its order in the status it read; those
\* that write the payment alone need not.
FreshStatus ==
  \A c \in Clerks : desk[c] # Free /\ desk'[c] = Free =>
    desk[c].op \in {"captured", "failed", "cod_paid"} \/ parcel[desk[c].parcel].status = desk[c].row.status

\* What a step does to an order that is delivered or cancelled.
LEMMA TerminalStep ==
  ASSUME IInv, [FulfilmentNext]_fulfilmentVars, [FreshStatus]_fulfilmentVars,
         NEW o \in Parcels, parcel[o].status \in {"delivered", "cancelled"}
  PROVE  parcel'[o].status = parcel[o].status /\ returned'[o] = returned[o]
<1>1. /\ parcel \in [Parcels -> ParcelRow] /\ returned \in [Parcels -> Nat]
      /\ desk \in [Clerks -> {Free} \cup Job] /\ OrderIsSound(o) /\ parcel[o] \in ParcelRow
  BY DEF IInv, FulfilmentTypeOK
<1>2. CASE \E q \in Parcels : \/ \E method \in Methods : PlaceParcel(q, method)
                              \/ Backstop(q) \/ Withdrawn(q)
  <2>1. PICK q \in Parcels : (\E method \in Methods : PlaceParcel(q, method)) \/ Backstop(q) \/ Withdrawn(q)
    BY <1>2
  <2>2. returned' = returned
    BY <2>1 DEF PlaceParcel, Backstop, Withdrawn
  <2>3. CASE q # o
    BY <1>1, <2>1, <2>2, <2>3 DEF PlaceParcel, Backstop, Withdrawn
  <2>4. CASE q = o
    <3>1. ~ \E method \in Methods : PlaceParcel(q, method)
      BY <2>4 DEF PlaceParcel
    <3>2. CASE Backstop(q)
      BY <1>1, <2>2, <2>4, <3>2 DEF Backstop, ParcelRow
    <3>3. CASE Withdrawn(q)
      <4>1. parcel[o].method = "razorpay" /\ parcel[o].pay = "pending"
        BY <2>4, <3>3 DEF Withdrawn, Awaited
      <4>2. parcel[o].status = "cancelled"
        BY <1>1, <4>1 DEF OrderIsSound, Gone
      <4> QED BY <1>1, <2>2, <2>4, <3>3, <4>2 DEF Withdrawn, ParcelRow
    <3> QED BY <2>1, <3>1, <3>2, <3>3
  <2> QED BY <2>3, <2>4
<1>3. ASSUME NEW c \in Clerks,
             \/ CommitPack(c) \/ CommitDeliver(c) \/ CommitCancel(c) \/ CommitCodPaid(c)
             \/ \E awb \in Awbs : CommitShip(c, awb)
             \/ CommitCaptured(c) \/ CommitFailed(c)
      PROVE  parcel'[o].status = parcel[o].status /\ returned'[o] = returned[o]
  <2>1. desk[c] \in Job /\ desk[c] # Free /\ ReadIsSound(c) /\ desk'[c] = Free
    <3>1. desk' = [desk EXCEPT ![c] = Free]
      BY <1>3 DEF CommitPack, CommitDeliver, CommitCancel, CommitCodPaid, CommitShip, CommitCaptured,
             CommitFailed, Done
    <3>2. desk[c] # Free
      <4>1. desk[c].op # "free"
        BY <1>3 DEF CommitPack, CommitDeliver, CommitCancel, CommitCodPaid, CommitShip, CommitCaptured,
             CommitFailed
      <4> QED BY <4>1 DEF Free
    <3> QED BY <1>1, <3>1, <3>2 DEF IInv
  <2>2. CASE desk[c].parcel # o
    BY <1>1, <1>3, <2>2 DEF CommitPack, CommitDeliver, CommitCancel, CommitCodPaid, CommitShip, CommitCaptured,
             CommitFailed
  <2>3. CASE desk[c].parcel = o
    <3>1. FreshStatus
      BY <2>1 DEF fulfilmentVars
    <3>2. desk[c].op \notin {"pack", "ship", "deliver", "cancel", "set_awb"}
      <4>1. CASE desk[c].op \in {"captured", "failed", "cod_paid"}
        BY <4>1
      <4>2. CASE desk[c].row.status = parcel[o].status
        BY <2>1, <4>2 DEF ReadIsSound, Accepts, Allowed, MayPack, MayDispatch
      <4> QED BY <2>1, <2>3, <3>1, <4>1, <4>2 DEF FreshStatus
    <3>3. CommitCodPaid(c) \/ CommitCaptured(c) \/ CommitFailed(c)
      BY <1>3, <3>2 DEF CommitPack, CommitDeliver, CommitCancel, CommitShip
    <3> QED BY <1>1, <2>3, <3>3 DEF CommitCodPaid, CommitCaptured, CommitFailed, ParcelRow
  <2> QED BY <2>2, <2>3
<1>4. CASE UNCHANGED <<parcel, returned>>
  BY <1>4
<1> QED BY <1>2, <1>3, <1>4
        DEF FulfilmentNext, ReadOrder, RefuseShipment, UpdateShipment, fulfilmentVars

\* "terminal" (_assert_transition): a delivered or cancelled order stays that and
\* returns its units once, for any number of requests, as long as none writes a
\* status over one that is no longer the one it read.
THEOREM FreshDeskIsFinal == FulfilmentSpec /\ [][FreshStatus]_fulfilmentVars => TerminalIsFinal
<1>1. IInv /\ [FulfilmentNext]_fulfilmentVars /\ [FreshStatus]_fulfilmentVars =>
        [\A o \in Parcels : parcel[o].status \in {"delivered", "cancelled"} =>
           parcel'[o].status = parcel[o].status /\ returned'[o] = returned[o]]_fulfilmentVars
  BY TerminalStep
<1> QED BY <1>1, FulfilmentInvariance, PTL DEF FulfilmentSpec, TerminalIsFinal

-----------------------------------------------------------------------------
(* The legacy checkout *)

\* An order has the key it was made under.
Keyed == \A o \in Tickets : Made(o) => ticket[o].key \in RequestKeys

\* The inductive invariant.
LegacyIInv == LegacyTypeOK /\ Keyed /\ OncePerKey

\* No key has been used at first.
LEMMA LegacyInitIInv == LegacyInit => LegacyIInv
<1> SUFFICES ASSUME LegacyInit PROVE LegacyIInv
  OBVIOUS
<1>1. shelf \in ShelfRow
  BY LegacyAssumption DEF LegacyInit, ShelfRow
<1>2. ticket \in [Tickets -> TicketRow]
  BY DEF LegacyInit, TicketRow, NoTicket
<1>3. \A o \in Tickets : ~Made(o)
  BY DEF LegacyInit, Made
<1> QED BY <1>1, <1>2, <1>3 DEF LegacyInit, LegacyIInv, LegacyTypeOK, Keyed, OncePerKey

\* A step that changes no key, makes no order and leaves the answers alone, or
\* forgets one it marks as cleaned.
LEMMA SameKeys ==
  ASSUME LegacyIInv, LegacyTypeOK',
         \A o \in Tickets : (Made(o)' => Made(o)) /\ ticket'[o].key = ticket[o].key,
         \/ UNCHANGED <<answer, cleaned>>
         \/ \E k \in RequestKeys : answer' = [answer EXCEPT ![k] = Nothing] /\ cleaned' = cleaned \cup {k}
  PROVE  LegacyIInv'
<1>1. Keyed'
  BY DEF LegacyIInv, Keyed
<1>2. ASSUME NEW o \in Tickets, Made(o)', ticket'[o].key \notin cleaned'
      PROVE  answer'[ticket'[o].key] = o
  <2>1. Made(o) /\ ticket[o].key \in RequestKeys /\ answer[ticket[o].key] = o
    BY <1>2 DEF LegacyIInv, Keyed, OncePerKey
  <2> QED BY <1>2, <2>1 DEF LegacyIInv, LegacyTypeOK
<1> QED BY <1>1, <1>2 DEF LegacyIInv, OncePerKey

\* A change of an order's payment or status keeps its key.
LEMMA SameTicket ==
  ASSUME LegacyTypeOK, NEW o \in Tickets, Made(o), NEW row \in TicketRow,
         row.key = ticket[o].key, ticket' = [ticket EXCEPT ![o] = row]
  PROVE  /\ ticket' \in [Tickets -> TicketRow]
         /\ \A q \in Tickets : (Made(q)' => Made(q)) /\ ticket'[q].key = ticket[q].key
<1>1. ticket \in [Tickets -> TicketRow]
  BY DEF LegacyTypeOK
<1>2. \A q \in Tickets : ticket'[q] = IF q = o THEN row ELSE ticket[q]
  BY <1>1
<1> QED BY <1>1, <1>2 DEF Made

\* The request reads.
LEMMA ReadLegacy ==
  ASSUME LegacyIInv, NEW p \in Posts, NEW k \in RequestKeys, NEW method \in {"razorpay", "cod"},
         NEW amounts \in Quantities, ReadPost(p, k, method, amounts)
  PROVE  LegacyIInv'
<1> DEFINE req == [at |-> "read", key |-> k, method |-> method, units |-> amounts, seen |-> shelf]
<1>1. /\ post' = [post EXCEPT ![p] = req] /\ UNCHANGED <<shelf, ticket, answer, cleaned>>
      /\ shelf \in ShelfRow
  BY DEF ReadPost, LegacyIInv, LegacyTypeOK
<1>2. req \in Posted
  BY <1>1 DEF Posted
<1>3. LegacyTypeOK'
  BY <1>1, <1>2 DEF LegacyIInv, LegacyTypeOK
<1> QED BY <1>1, <1>3, SameKeys DEF Made

\* The request writes, if its key has no answer by then.
LEMMA CommitLegacy ==
  ASSUME LegacyIInv, NEW p \in Posts, NEW o \in Tickets, CommitPost(p, o)
  PROVE  LegacyIInv'
<1>1. PICK req \in Posted : post[p] = req
  BY DEF LegacyIInv, LegacyTypeOK, CommitPost
<1> DEFINE row == Ordered(req)
<1>2. /\ ~Made(o) /\ answer[req.key] = Nothing /\ Legal(Taken(req)) /\ shelf' = Taken(req)
      /\ ticket' = [ticket EXCEPT ![o] = row] /\ answer' = [answer EXCEPT ![req.key] = o]
      /\ post' = [post EXCEPT ![p] = Waiting] /\ UNCHANGED cleaned
  BY <1>1 DEF CommitPost, KeyFree
<1>3. /\ shelf \in ShelfRow /\ ticket \in [Tickets -> TicketRow]
      /\ answer \in [RequestKeys -> Tickets \cup {Nothing}]
      /\ post \in [Posts -> {Waiting} \cup Posted] /\ cleaned \subseteq RequestKeys
  BY DEF LegacyIInv, LegacyTypeOK
<1>4. req.key \in RequestKeys /\ req.units \in Nat /\ req.seen \in ShelfRow /\ req.method \in {"razorpay", "cod"}
  BY LegacyAssumption DEF Posted
<1>5. Taken(req) \in ShelfRow
  BY <1>2, <1>3, <1>4 DEF Taken, Counted, Decremented, Legal, ShelfRow
<1>6. row \in TicketRow /\ row.key = req.key
  BY <1>4 DEF TicketRow, Ordered
<1> HIDE DEF row
<1>7. LegacyTypeOK'
  BY <1>2, <1>3, <1>4, <1>5, <1>6 DEF LegacyTypeOK
<1>8. \A q \in Tickets : ticket'[q] = IF q = o THEN row ELSE ticket[q]
  BY <1>2, <1>3
<1>9. Keyed'
  BY <1>4, <1>6, <1>8 DEF LegacyIInv, Keyed, Made
<1>10. ASSUME NEW q \in Tickets, Made(q)', ticket'[q].key \notin cleaned'
       PROVE  answer'[ticket'[q].key] = q
  <2>1. CASE q = o
    BY <1>2, <1>3, <1>4, <1>6, <1>8, <2>1
  <2>2. CASE q # o
    <3>1. ticket'[q] = ticket[q] /\ Made(q) /\ ticket[q].key \notin cleaned
      BY <1>2, <1>8, <1>10, <2>2 DEF Made
    <3>2. answer[ticket[q].key] = q /\ ticket[q].key \in RequestKeys
      BY <3>1 DEF LegacyIInv, OncePerKey, Keyed
    <3>3. ticket[q].key # req.key
      BY <1>2, <3>2, LegacyAssumption
    <3> QED BY <1>2, <1>3, <3>1, <3>2, <3>3
  <2> QED BY <2>1, <2>2
<1> QED BY <1>7, <1>9, <1>10 DEF LegacyIInv, OncePerKey

\* A request that fails, and the clean-up.
LEMMA ForgetLegacy ==
  ASSUME LegacyIInv, (\E p \in Posts : RefusePost(p)) \/ (\E k \in RequestKeys : Cleanup(k))
  PROVE  LegacyIInv'
<1>1. ASSUME NEW p \in Posts, RefusePost(p) PROVE LegacyIInv'
  <2>1. post' = [post EXCEPT ![p] = Waiting] /\ UNCHANGED <<shelf, ticket, answer, cleaned>>
    BY <1>1 DEF RefusePost
  <2>2. LegacyTypeOK'
    BY <2>1 DEF LegacyIInv, LegacyTypeOK
  <2> QED BY <2>1, <2>2, SameKeys DEF Made
<1>2. ASSUME NEW k \in RequestKeys, Cleanup(k) PROVE LegacyIInv'
  <2>1. /\ answer' = [answer EXCEPT ![k] = Nothing] /\ cleaned' = cleaned \cup {k}
        /\ UNCHANGED <<shelf, ticket, post>>
    BY <1>2 DEF Cleanup
  <2>2. LegacyTypeOK'
    BY <2>1 DEF LegacyIInv, LegacyTypeOK
  <2> QED BY <2>1, <2>2, SameKeys DEF Made
<1> QED BY <1>1, <1>2

\* What becomes of an order later.
LEMMA OutcomeLegacy ==
  ASSUME LegacyIInv, NEW o \in Tickets,
         CaptureTicket(o) \/ FailTicket(o) \/ CancelTicket(o) \/ CashTicket(o)
  PROVE  LegacyIInv'
<1>1. /\ Made(o) /\ UNCHANGED <<answer, post, cleaned>> /\ shelf \in ShelfRow
      /\ ticket \in [Tickets -> TicketRow] /\ ticket[o] \in TicketRow /\ ticket[o].units \in Nat
  BY DEF LegacyIInv, LegacyTypeOK, TicketRow, CaptureTicket, FailTicket, CancelTicket, CashTicket
<1>2. shelf' \in ShelfRow
  <2>1. CASE CaptureTicket(o)
    BY <1>1, <2>1 DEF CaptureTicket, Consumed, Legal, ShelfRow
  <2>2. CASE FailTicket(o)
    BY <1>1, <2>2 DEF FailTicket, ShelfRow
  <2>3. CASE CancelTicket(o)
    BY <1>1, <2>3 DEF CancelTicket, ShelfRow
  <2>4. CASE CashTicket(o)
    BY <1>1, <2>4 DEF CashTicket
  <2> QED BY <2>1, <2>2, <2>3, <2>4
<1>3. PICK row \in TicketRow : ticket' = [ticket EXCEPT ![o] = row] /\ row.key = ticket[o].key
  <2>1. CASE CaptureTicket(o) \/ CashTicket(o)
    <3> DEFINE row == [ticket[o] EXCEPT !.pay = "paid"]
    <3>1. ticket' = [ticket EXCEPT ![o] = row]
      BY <2>1 DEF CaptureTicket, CashTicket
    <3>2. row \in TicketRow /\ row.key = ticket[o].key
      BY <1>1 DEF TicketRow
    <3> QED BY <3>1, <3>2
  <2>2. CASE FailTicket(o)
    <3> DEFINE row == [ticket[o] EXCEPT !.pay = "failed"]
    <3>1. ticket' = [ticket EXCEPT ![o] = row]
      BY <2>2 DEF FailTicket
    <3>2. row \in TicketRow /\ row.key = ticket[o].key
      BY <1>1 DEF TicketRow
    <3> QED BY <3>1, <3>2
  <2>3. CASE CancelTicket(o)
    <3> DEFINE row == [ticket[o] EXCEPT !.cancelled = TRUE]
    <3>1. ticket' = [ticket EXCEPT ![o] = row]
      BY <2>3 DEF CancelTicket
    <3>2. row \in TicketRow /\ row.key = ticket[o].key
      BY <1>1 DEF TicketRow
    <3> QED BY <3>1, <3>2
  <2> QED BY <2>1, <2>2, <2>3
<1>4. /\ ticket' \in [Tickets -> TicketRow]
      /\ \A q \in Tickets : (Made(q)' => Made(q)) /\ ticket'[q].key = ticket[q].key
  BY <1>1, <1>3, SameTicket DEF LegacyIInv
<1>5. LegacyTypeOK'
  BY <1>1, <1>2, <1>4 DEF LegacyIInv, LegacyTypeOK
<1> QED BY <1>1, <1>4, <1>5, SameKeys

\* Every request keeps the keys and the inventory row sound.
LEMMA NextLegacy == LegacyIInv /\ [LegacyNext]_legacyVars => LegacyIInv'
<1> SUFFICES ASSUME LegacyIInv, [LegacyNext]_legacyVars PROVE LegacyIInv'
  OBVIOUS
<1>1. CASE UNCHANGED legacyVars
  BY <1>1 DEF LegacyIInv, LegacyTypeOK, Keyed, OncePerKey, Made, legacyVars
<1>2. CASE \E p \in Posts, k \in RequestKeys, method \in {"razorpay", "cod"}, amounts \in Quantities :
             ReadPost(p, k, method, amounts)
  BY <1>2, ReadLegacy
<1>3. CASE \E p \in Posts, o \in Tickets : CommitPost(p, o)
  BY <1>3, CommitLegacy
<1>4. CASE (\E p \in Posts : RefusePost(p)) \/ (\E k \in RequestKeys : Cleanup(k))
  BY <1>4, ForgetLegacy
<1>5. CASE \E o \in Tickets : CaptureTicket(o) \/ FailTicket(o) \/ CancelTicket(o) \/ CashTicket(o)
  BY <1>5, OutcomeLegacy
<1> QED BY <1>1, <1>2, <1>3, <1>4, <1>5 DEF LegacyNext

-----------------------------------------------------------------------------

\* Keys and the inventory row stay sound through every interleaving of requests.
THEOREM LegacyInvariance == LegacySpec => []LegacyIInv
BY LegacyInitIInv, NextLegacy, PTL DEF LegacySpec

\* Stock and reserved units never go below zero and every row keeps its type,
\* although a request writes what it reckoned from an older row.
THEOREM LegacyTypes == LegacySpec => []LegacyTypeOK
<1>1. LegacyIInv => LegacyTypeOK
  BY DEF LegacyIInv
<1> QED BY <1>1, LegacyInvariance, PTL

\* An Idempotency-Key stands for one order as long as its row is kept, and the
\* row names that order, however the requests overlap.
THEOREM KeyOrdersOnce == LegacySpec => []OncePerKey
<1>1. LegacyIInv => OncePerKey
  BY DEF LegacyIInv
<1> QED BY <1>1, LegacyInvariance, PTL

-----------------------------------------------------------------------------
(* Carts: what a shopper may take *)

\* The units of a variant each shopper's live checkout holds.
HeldOf(g) == [t \in Shoppers |-> held[t][g]]

\* What the others hold of a variant, as a sum over the shoppers.
LEMMA ReservedIsSum ==
  ASSUME NEW s, NEW g
  PROVE  Reserved(s, g) = SumOf(HeldOf(g), Shoppers \ {s})
<1> DEFINE f == HeldOf(g)
           T == Shoppers \ {s}
           own(h) == h = [t \in SUBSET T |->
             IF t = {} THEN 0 ELSE LET x == CHOOSE y \in t : TRUE IN held[x][g] + h[t \ {x}]]
           sum(h) == h = [t \in SUBSET T |->
             IF t = {} THEN 0 ELSE LET x == CHOOSE y \in t : TRUE IN f[x] + h[t \ {x}]]
<1>1. \A x \in T : f[x] = held[x][g]
  BY DEF HeldOf
<1>2. Reserved(s, g) = (CHOOSE h : own(h))[T]
  BY DEF Reserved, MapThenSumSet, MapThenFoldSet
<1> HIDE DEF f, T
<1>3. \A h : own(h) <=> sum(h)
  BY <1>1
<1>4. (CHOOSE h : own(h)) = (CHOOSE h : sum(h))
  <2> HIDE DEF own, sum
  <2> QED BY <1>3
<1>5. SumOf(f, T) = (CHOOSE h : sum(h))[T]
  BY DEF SumOf, MapThenSumSet, MapThenFoldSet
<1>6. Reserved(s, g) = SumOf(f, T)
  BY <1>2, <1>4, <1>5
<1> QED BY <1>6 DEF f, T

\* Never negative, and never more than the shelf has.
LEMMA AvailableBounds ==
  ASSUME CartTypeOK, NEW s, NEW g \in Goods
  PROVE  Available(s, g) \in 0..MaxUnits
<1>1. \A t \in Shoppers \ {s} : HeldOf(g)[t] \in Nat
  BY DEF HeldOf, CartTypeOK, Lines
<1>2. IsFiniteSet(Shoppers \ {s})
  BY CartAssumption, FS_Subset
<1>3. Reserved(s, g) \in Nat
  BY <1>1, <1>2, ReservedIsSum, SumNat
<1>4. units[g] \in 0..MaxUnits /\ MaxUnits \in Nat
  BY CartAssumption DEF CartTypeOK
<1>5. Max({units[g] - Reserved(s, g), 0}) = IF units[g] - Reserved(s, g) >= 0 THEN units[g] - Reserved(s, g) ELSE 0
  BY <1>3, <1>4, MaxOfTwo
<1> QED BY <1>3, <1>4, <1>5 DEF Available

\* A merged line stays as it is or is within what there is.
LEMMA MergedIs ==
  ASSUME CartTypeOK, NEW s \in Shoppers, NEW g \in Goods, NEW n \in Nat
  PROVE  /\ MergedLine(s, g, n) \in 0..MaxUnits
         /\ MergedLine(s, g, n) = cart[s][g] \/ MergedLine(s, g, n) <= Available(s, g)
<1>1. cart[s][g] \in 0..MaxUnits /\ Available(s, g) \in 0..MaxUnits /\ MaxUnits \in Nat
  BY CartAssumption, AvailableBounds DEF CartTypeOK, Lines
<1> DEFINE target == Min({cart[s][g] + n, Available(s, g), 99})
<1>2. /\ target \in {cart[s][g] + n, Available(s, g), 99}
      /\ target <= Available(s, g)
  <2>1. PICK x \in Int, y \in Int, z \in Int : x = cart[s][g] + n /\ y = Available(s, g) /\ z = 99
    BY <1>1
  <2>2. Min({x, y, z}) \in {x, y, z} /\ Min({x, y, z}) <= y
    BY MinOfThree
  <2>3. target = Min({x, y, z})
    BY <2>1
  <2> HIDE DEF target
  <2> QED BY <2>1, <2>2, <2>3
<1>3. target \in 0..MaxUnits
  BY <1>1, <1>2
<1>4. MergedLine(s, g, n) = cart[s][g] \/ MergedLine(s, g, n) = target
  BY DEF MergedLine
<1> HIDE DEF target
<1> QED BY <1>1, <1>2, <1>3, <1>4

\* The lines after a step that touches the carts.
LEMMA LineRaised ==
  ASSUME CartTypeOK, NEW s \in Shoppers, NEW g \in Goods, NEW n \in 0..MaxUnits, SetLine(s, g, n),
         n > cart[s][g] => n <= Available(s, g)
  PROVE  /\ cart' \in [Shoppers -> Lines]
         /\ \A t \in Shoppers, h \in Goods : cart'[t][h] > cart[t][h] => cart'[t][h] <= Available(t, h)
<1>1. cart \in [Shoppers -> Lines] /\ cart[s] \in [Goods -> 0..MaxUnits]
  BY DEF CartTypeOK, Lines
<1>2. cart' = [cart EXCEPT ![s] = [cart[s] EXCEPT ![g] = n]]
  BY DEF SetLine
<1>3. [cart[s] EXCEPT ![g] = n] \in Lines
  BY <1>1 DEF Lines
<1>4. cart' \in [Shoppers -> Lines]
  BY <1>1, <1>2, <1>3
<1>5. \A t \in Shoppers, h \in Goods : cart'[t][h] = IF t = s /\ h = g THEN n ELSE cart[t][h]
  BY <1>1, <1>2 DEF Lines
<1>6. \A t \in Shoppers, h \in Goods : cart[t][h] \in 0..MaxUnits
  BY <1>1 DEF Lines
<1>7. MaxUnits \in Nat
  BY CartAssumption
<1> QED BY <1>4, <1>5, <1>6, <1>7

\* Adding to a cart raises a line within the stock.
LEMMA AddRaises ==
  ASSUME CartTypeOK, NEW s \in Shoppers, NEW g \in Goods, NEW n \in 1..MaxLine, CanAdd(s, g, n),
         SetLine(s, g, cart[s][g] + n)
  PROVE  /\ cart' \in [Shoppers -> Lines]
         /\ \A t \in Shoppers, h \in Goods : cart'[t][h] > cart[t][h] => cart'[t][h] <= Available(t, h)
<1>1. cart[s][g] \in 0..MaxUnits /\ Available(s, g) \in 0..MaxUnits /\ MaxUnits \in Nat
  BY CartAssumption, AvailableBounds DEF CartTypeOK, Lines
<1>2. cart[s][g] + n <= Available(s, g)
  BY DEF CanAdd, FitsStock
<1>3. cart[s][g] + n \in 0..MaxUnits
  BY <1>1, <1>2
<1> QED BY <1>2, <1>3, LineRaised

\* Every step: the types hold and a line that grew fits.
LEMMA StepCart ==
  ASSUME CartTypeOK, [CartNext]_cartVars
  PROVE  /\ CartTypeOK'
         /\ \A t \in Shoppers, h \in Goods : cart'[t][h] > cart[t][h] => cart'[t][h] <= Available(t, h)
<1> DEFINE Fits == \A t \in Shoppers, h \in Goods : cart'[t][h] > cart[t][h] => cart'[t][h] <= Available(t, h)
<1>0. /\ cart \in [Shoppers -> Lines] /\ held \in [Shoppers -> Lines] /\ units \in [Goods -> 0..MaxUnits]
      /\ offered \in [Goods -> Offer] /\ wishlist \in [Shoppers -> SUBSET Goods] /\ paying \subseteq Shoppers
      /\ MaxUnits \in Nat /\ MaxLine \in Nat
  BY CartAssumption DEF CartTypeOK
<1>1. \A t \in Shoppers, h \in Goods : cart[t][h] \in 0..MaxUnits /\ held[t][h] \in 0..MaxUnits
  BY <1>0 DEF Lines
<1>2. NoLines \in Lines
  BY <1>0 DEF NoLines, Lines
<1>3. ASSUME cart' \in [Shoppers -> Lines], Fits, UNCHANGED <<held, paying, units, offered>>,
             wishlist' \in [Shoppers -> SUBSET Goods]
      PROVE  CartTypeOK' /\ Fits
  BY <1>0, <1>3 DEF CartTypeOK
<1>4. ASSUME UNCHANGED cart, held' \in [Shoppers -> Lines], units' \in [Goods -> 0..MaxUnits],
             offered' \in [Goods -> Offer], UNCHANGED wishlist, paying' \subseteq Shoppers
      PROVE  CartTypeOK' /\ Fits
  BY <1>0, <1>1, <1>4 DEF CartTypeOK
<1>5. ASSUME NEW s \in Shoppers, NEW g \in Goods, NEW n \in 1..MaxLine, AddItem(s, g, n) PROVE CartTypeOK' /\ Fits
  BY <1>0, <1>3, <1>5, AddRaises DEF AddItem
<1>6. ASSUME NEW s \in Shoppers, NEW g \in Goods, NEW n \in 1..MaxLine, UpdateItem(s, g, n) PROVE CartTypeOK' /\ Fits
  <2>1. Available(s, g) \in 0..MaxUnits /\ n <= Available(s, g) /\ SetLine(s, g, n)
    BY <1>6, AvailableBounds DEF UpdateItem
  <2>2. n \in 0..MaxUnits
    BY <1>0, <2>1
  <2> QED BY <1>0, <1>3, <1>6, <2>1, <2>2, LineRaised DEF UpdateItem
<1>7. ASSUME NEW s \in Shoppers, NEW g \in Goods, RemoveItem(s, g) PROVE CartTypeOK' /\ Fits
  <2>1. 0 \in 0..MaxUnits /\ ~(0 > cart[s][g])
    BY <1>0, <1>1
  <2> QED BY <1>0, <1>3, <1>7, <2>1, LineRaised DEF RemoveItem
<1>8. ASSUME NEW s \in Shoppers, ClearCart(s) PROVE CartTypeOK' /\ Fits
  <2>1. cart' = [cart EXCEPT ![s] = NoLines] /\ UNCHANGED <<held, paying, units, offered, wishlist>>
    BY <1>8 DEF ClearCart
  <2>2. cart' \in [Shoppers -> Lines]
    BY <1>0, <1>2, <2>1
  <2>3. \A t \in Shoppers, h \in Goods : ~(cart'[t][h] > cart[t][h])
    BY <1>0, <1>1, <2>1 DEF NoLines
  <2> QED BY <1>0, <1>3, <2>1, <2>2, <2>3
<1>9. ASSUME NEW s \in Shoppers, NEW guest \in [Goods -> 0..MaxLine], MergeCart(s, guest) PROVE CartTypeOK' /\ Fits
  <2>1. cart' = [cart EXCEPT ![s] = [g \in Goods |-> MergedLine(s, g, guest[g])]]
        /\ UNCHANGED <<held, paying, units, offered, wishlist>>
    BY <1>9 DEF MergeCart
  <2>2. \A g \in Goods : guest[g] \in Nat
    BY <1>0
  <2>3. \A g \in Goods : /\ MergedLine(s, g, guest[g]) \in 0..MaxUnits
                         /\ MergedLine(s, g, guest[g]) = cart[s][g] \/ MergedLine(s, g, guest[g]) <= Available(s, g)
    BY <2>2, MergedIs
  <2>4. [g \in Goods |-> MergedLine(s, g, guest[g])] \in Lines
    BY <2>3 DEF Lines
  <2>5. cart' \in [Shoppers -> Lines]
    BY <1>0, <2>1, <2>4
  <2>6. \A t \in Shoppers, h \in Goods : cart'[t][h] = IF t = s THEN MergedLine(s, h, guest[h]) ELSE cart[t][h]
    BY <1>0, <2>1
  <2>7. Fits
    BY <1>1, <2>3, <2>6
  <2> QED BY <1>0, <1>3, <2>1, <2>5, <2>7
<1>10. ASSUME NEW s \in Shoppers, NEW g \in Goods, NEW n \in 1..MaxLine, NEW drop \in BOOLEAN, MoveToCart(s, g, n, drop)
       PROVE  CartTypeOK' /\ Fits
  <2>1. wishlist' \in [Shoppers -> SUBSET Goods]
    BY <1>0, <1>10 DEF MoveToCart
  <2> QED BY <1>3, <1>10, <2>1, AddRaises DEF MoveToCart
<1>11. ASSUME NEW s \in Shoppers, NEW g \in Goods, AddWish(s, g) \/ RemoveWish(s, g) PROVE CartTypeOK' /\ Fits
  <2>1. wishlist' \in [Shoppers -> SUBSET Goods] /\ UNCHANGED <<cart, held, paying, units, offered>>
    BY <1>0, <1>11 DEF AddWish, RemoveWish
  <2>2. Fits
    BY <1>1, <2>1
  <2> QED BY <1>0, <1>3, <2>1, <2>2
<1>12. ASSUME NEW s \in Shoppers, StartCheckout(s) \/ Pay(s) \/ ReleaseHold(s) PROVE CartTypeOK' /\ Fits
  <2>1. CASE StartCheckout(s) \/ ReleaseHold(s)
    <3>1. \E row \in Lines : held' = [held EXCEPT ![s] = row]
      BY <1>0, <1>2, <2>1 DEF StartCheckout, ReleaseHold
    <3> QED BY <1>0, <1>4, <2>1, <3>1 DEF StartCheckout, ReleaseHold
  <2>2. CASE Pay(s)
    BY <1>0, <1>4, <2>2 DEF Pay
  <2> QED BY <1>12, <2>1, <2>2
<1>13. ASSUME NEW s \in Shoppers, SellHold(s) PROVE CartTypeOK' /\ Fits
  <2>1. units' = [g \in Goods |-> units[g] - held[s][g]] /\ \A g \in Goods : held[s][g] <= units[g]
    BY <1>13 DEF SellHold
  <2>2. \A g \in Goods : units[g] - held[s][g] \in 0..MaxUnits
    BY <1>0, <1>1, <2>1
  <2> QED BY <1>0, <1>2, <1>4, <1>13, <2>1, <2>2 DEF SellHold
<1>14. ASSUME NEW g \in Goods, NEW n \in 0..MaxUnits, SetUnits(g, n) PROVE CartTypeOK' /\ Fits
  BY <1>0, <1>4, <1>14 DEF SetUnits
<1>15. ASSUME NEW g \in Goods, NEW n \in 1..MaxLine, SellLate(g, n) PROVE CartTypeOK' /\ Fits
  <2>1. units' = [units EXCEPT ![g] = units[g] - n] /\ n <= units[g]
    BY <1>0, <1>15 DEF SellLate
  <2>2. units[g] - n \in 0..MaxUnits
    BY <1>0, <2>1
  <2> QED BY <1>0, <1>4, <1>15, <2>1, <2>2 DEF SellLate
<1>16. ASSUME NEW g \in Goods, NEW offer \in Offer, ChangeOffer(g, offer) PROVE CartTypeOK' /\ Fits
  BY <1>0, <1>4, <1>16 DEF ChangeOffer
<1>17. CASE UNCHANGED cartVars
  BY <1>0, <1>4, <1>17 DEF cartVars
<1>18. CartTypeOK' /\ Fits
  BY <1>5, <1>6, <1>7, <1>8, <1>9, <1>10, <1>11, <1>12, <1>13, <1>14, <1>15, <1>16, <1>17 DEF CartNext
<1> QED BY <1>18

\* Carts start empty.
LEMMA InitCart == CartInit => CartTypeOK
BY CartAssumption DEF CartInit, CartTypeOK, NoLines, Lines, Offer

\* Carts, holds and stock keep their shape: no line exceeds the stock's bound.
THEOREM CartTypeCorrect == CartSpec => []CartTypeOK
<1>1. CartTypeOK /\ [CartNext]_cartVars => CartTypeOK'
  BY StepCart
<1> QED BY <1>1, InitCart, PTL DEF CartSpec

\* Added, changed, merged or moved: a line that grew could be checked out.
THEOREM LinesAreRaisedWithinStock == CartSpec => RaisedWithinStock
<1>1. CartTypeOK /\ [CartNext]_cartVars =>
        [\A s \in Shoppers, g \in Goods : cart'[s][g] > cart[s][g] => cart'[s][g] <= Available(s, g)]_cartVars
  BY StepCart
<1> QED BY <1>1, CartTypeCorrect, PTL DEF CartSpec, RaisedWithinStock
=============================================================================
