---------------------------- MODULE LegacyOrders ----------------------------
(***************************************************************************)
(* The retired order endpoint, off unless legacy_checkout_enabled: the     *)
(* order is made at checkout, a gateway order is counted in the stored     *)
(* inventory.reserved, a cash order takes the stock at once, and the       *)
(* answer is kept under the client's Idempotency-Key.                      *)
(*                                                                         *)
(* A request looks its key up, loads the variant with its inventory row,   *)
(* and later locks that row and writes.  The row is in the session's       *)
(* identity map by then, so the lock does not refresh it: the test and the *)
(* new value are those of the first read.  CHECK constraints and UNIQUE    *)
(* (key, route) are tested on the row as it is.  One inventory row is      *)
(* modelled; the rows of an order do not depend on each other.             *)
(***************************************************************************)
EXTENDS Integers, FiniteSets

CONSTANTS
  Tickets,    \* orders.id
  RequestKeys, \* Idempotency-Keys; a key stands for one request body
  Posts,      \* POST /checkout/orders in flight together
  Quantities, \* units an order may ask for
  FirstStock, \* inventory.stock at the start
  Nothing     \* no row

ASSUME LegacyAssumption ==
  Quantities \subseteq Nat \ {0} /\ FirstStock \in Nat /\ Nothing \notin Tickets

VARIABLES
  shelf,     \* the row of inventory
  ticket,    \* the rows of orders with their payments
  answer,    \* request_idempotency: the order a key's answer names
  post,      \* what each request has read
  cleaned    \* keys whose row cleanup_idempotency has deleted

legacyVars == <<shelf, ticket, answer, post, cleaned>>

ShelfRow == [stock : Nat, reserved : Nat]

TicketRow ==
  [key : RequestKeys \cup {Nothing}, method : {"razorpay", "cod"}, units : Nat,
   cancelled : BOOLEAN, pay : {"pending", "paid", "failed", "cod_pending"}]

NoTicket == [key |-> Nothing, method |-> "cod", units |-> 0, cancelled |-> FALSE, pay |-> "pending"]

Waiting == [at |-> "idle"]

Posted == [at : {"read"}, key : RequestKeys, method : {"razorpay", "cod"},
           units : Quantities, seen : ShelfRow]

Made(o) == ticket[o] # NoTicket

LegacyInit ==
  /\ shelf = [stock |-> FirstStock, reserved |-> 0]
  /\ ticket = [o \in Tickets |-> NoTicket]
  /\ answer = [k \in RequestKeys |-> Nothing]
  /\ post = [p \in Posts |-> Waiting]
  /\ cleaned = {}

-----------------------------------------------------------------------------
(* Placing an order *)

AvailableStock(row) == IF row.stock > row.reserved THEN row.stock - row.reserved ELSE 0

\* What quote promises, and _build_order asks again of the rows it has read.
Orderable(units) == units <= AvailableStock(shelf)

\* idempotency_required and _fetch_variants; a key with an answer is replayed.
ReadPost(p, k, method, units) ==
  /\ post[p] = Waiting /\ answer[k] = Nothing
  /\ Orderable(units)
  /\ post' = [post EXCEPT ![p] =
       [at |-> "read", key |-> k, method |-> method, units |-> units, seen |-> shelf]]
  /\ UNCHANGED <<shelf, ticket, answer, cleaned>>

\* reserve and decrement write one column, reckoned from what was read.
Counted(req) == [shelf EXCEPT !.reserved = req.seen.reserved + req.units]

Decremented(req) == [shelf EXCEPT !.stock = req.seen.stock - req.units]

Taken(req) == IF req.method = "razorpay" THEN Counted(req) ELSE Decremented(req)

\* The row _build_order inserts, with its payment.
Ordered(req) ==
  [key |-> req.key, method |-> req.method, units |-> req.units, cancelled |-> FALSE,
   pay |-> IF req.method = "cod" THEN "cod_pending" ELSE "pending"]

\* The CHECK constraints of inventory.
Legal(row) == row.stock >= 0 /\ row.reserved >= 0 /\ row.reserved <= row.stock

\* Mutant: the key is stored without a unique constraint.
KeyUnchecked(k) == TRUE

\* UNIQUE (key, route).
KeyFree(k) == answer[k] = Nothing

CommitPost(p, o) ==
  LET req == post[p] IN
  /\ req # Waiting /\ ~Made(o) /\ KeyFree(req.key) /\ Legal(Taken(req))
  /\ shelf' = Taken(req)
  /\ ticket' = [ticket EXCEPT ![o] = Ordered(req)]
  /\ answer' = [answer EXCEPT ![req.key] = o]
  /\ post' = [post EXCEPT ![p] = Waiting]
  /\ UNCHANGED cleaned

\* A constraint is broken, or the gateway does not answer: all is undone.
RefusePost(p) ==
  /\ post[p] # Waiting
  /\ post' = [post EXCEPT ![p] = Waiting]
  /\ UNCHANGED <<shelf, ticket, answer, cleaned>>

\* cleanup_idempotency, once the key is older than the retention.
Cleanup(k) ==
  /\ answer[k] # Nothing
  /\ answer' = [answer EXCEPT ![k] = Nothing]
  /\ cleaned' = cleaned \cup {k}
  /\ UNCHANGED <<shelf, ticket, post>>

-----------------------------------------------------------------------------
(* What becomes of it *)

\* consume_reservation: what the counter lacks is taken from the stock directly.
Consumed(units) ==
  LET counted == IF units < shelf.reserved THEN units ELSE shelf.reserved IN
  [stock |-> shelf.stock - units, reserved |-> shelf.reserved - counted]

\* A capture, by webhook or /payments/verify, whatever the order's status.
CaptureTicket(o) ==
  /\ Made(o) /\ ticket[o].method = "razorpay" /\ ticket[o].pay # "paid"
  /\ Legal(Consumed(ticket[o].units))
  /\ shelf' = Consumed(ticket[o].units)
  /\ ticket' = [ticket EXCEPT ![o].pay = "paid"]
  /\ UNCHANGED <<answer, post, cleaned>>

\* Every failed event before the capture releases the units again.
FailTicket(o) ==
  /\ Made(o) /\ ticket[o].method = "razorpay" /\ ticket[o].pay # "paid"
  /\ shelf' = [shelf EXCEPT !.reserved = IF @ > ticket[o].units THEN @ - ticket[o].units ELSE 0]
  /\ ticket' = [ticket EXCEPT ![o].pay = "failed"]
  /\ UNCHANGED <<answer, post, cleaned>>

\* cancel_order restocks what had left; it does not lower the counter.
CancelTicket(o) ==
  /\ Made(o) /\ ~ticket[o].cancelled
  /\ shelf' = IF ticket[o].pay = "paid" \/ ticket[o].method = "cod"
              THEN [shelf EXCEPT !.stock = @ + ticket[o].units] ELSE shelf
  /\ ticket' = [ticket EXCEPT ![o].cancelled = TRUE]
  /\ UNCHANGED <<answer, post, cleaned>>

\* mark_cod_paid, and delivery.
CashTicket(o) ==
  /\ Made(o) /\ ticket[o].pay = "cod_pending"
  /\ ticket' = [ticket EXCEPT ![o].pay = "paid"]
  /\ UNCHANGED <<shelf, answer, post, cleaned>>

LegacyNext ==
  \/ \E p \in Posts, k \in RequestKeys, method \in {"razorpay", "cod"}, units \in Quantities :
       ReadPost(p, k, method, units)
  \/ \E p \in Posts, o \in Tickets : CommitPost(p, o)
  \/ \E p \in Posts : RefusePost(p)
  \/ \E k \in RequestKeys : Cleanup(k)
  \/ \E o \in Tickets : CaptureTicket(o)
  \/ \E o \in Tickets : FailTicket(o)
  \/ \E o \in Tickets : CancelTicket(o)
  \/ \E o \in Tickets : CashTicket(o)

LegacySpec == LegacyInit /\ [][LegacyNext]_legacyVars

-----------------------------------------------------------------------------
(* What must hold *)

LegacyTypeOK ==
  /\ shelf \in ShelfRow
  /\ ticket \in [Tickets -> TicketRow]
  /\ answer \in [RequestKeys -> Tickets \cup {Nothing}]
  /\ post \in [Posts -> {Waiting} \cup Posted]
  /\ cleaned \subseteq RequestKeys

\* A key orders once, however often it is sent and however the requests
\* overlap, as long as its row is kept; and its answer is that order.
OncePerKey ==
  \A o \in Tickets : Made(o) /\ ticket[o].key \notin cleaned => answer[ticket[o].key] = o
=============================================================================
