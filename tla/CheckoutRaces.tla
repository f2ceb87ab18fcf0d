---------------------------- MODULE CheckoutRaces ----------------------------
(***************************************************************************)
(* Checkout with the handlers that act on rows they read without a lock    *)
(* taken apart.  The webhooks load payment and order with a plain SELECT   *)
(* and write after waiting for the inventory rows; the admin's cancel does *)
(* the same with the order; /pay checks the expiry under the session's     *)
(* lock and only then waits for the inventory rows.  Each is a load step   *)
(* and a commit step here, and whatever another transaction commits in     *)
(* between is not seen by the second (READ COMMITTED, rows already in the  *)
(* session's identity map are not refreshed).  A column is written only    *)
(* where it differs from what was loaded.                                  *)
(***************************************************************************)
EXTENDS Checkout

CONSTANTS
  Workers,   \* request handlers that may be in flight at the same time
  Racing     \* the kinds of handler that are taken apart

ASSUME RacingAssumption == Racing \subseteq {"captured", "failed", "admin_cancel", "pay"}

VARIABLE worker   \* what each handler has loaded and not yet acted upon

raceVars == <<vars, worker>>

Idle == [kind |-> "idle"]

RacesInit == Init /\ worker = [w \in Workers |-> Idle]

-----------------------------------------------------------------------------
(* Loading *)

Load(w, row) == worker[w] = Idle /\ row.kind \in Racing /\ worker' = [worker EXCEPT ![w] = row]

\* The dedup query, the payment and the order.
LoadWebhook(w, s, e) ==
  /\ e \in gateway[s].events
  /\ payment[s].event # e.id
  /\ e.kind = "failed" => ~Settled(payment[s], order[s])
  /\ Load(w, [kind |-> e.kind, s |-> s, id |-> e.id, pay |-> payment[s], ord |-> order[s]])
  /\ UNCHANGED vars

LoadAdminCancel(w, s) ==
  /\ order[s].status \notin {"none", "cancelled", "delivered"}
  /\ Load(w, [kind |-> "admin_cancel", s |-> s, ord |-> order[s]])
  /\ UNCHANGED vars

\* Mutant: /pay reads its session without FOR UPDATE.
SessionUnlocked(s) == FALSE

\* /pay holds the session's row lock from its first read on.
SessionLocked(s) == \E w \in Workers : worker[w].kind = "pay" /\ worker[w].s = s

LoadPay(w, s) ==
  /\ ~SessionLocked(s) /\ Payable(s)
  /\ Load(w, [kind |-> "pay", s |-> s, lines |-> LinesToPay(s)])
  /\ UNCHANGED vars

-----------------------------------------------------------------------------
(* Committing *)

Done(w, kind) == worker[w].kind = kind /\ worker' = [worker EXCEPT ![w] = Idle]

CommitCaptured(w) ==
  Done(w, "captured") /\ OnCaptured(worker[w].s, worker[w].id, worker[w].pay, worker[w].ord)

CommitFailed(w) ==
  Done(w, "failed") /\ OnFailed(worker[w].s, worker[w].id, worker[w].pay, worker[w].ord)

CommitAdminCancel(w) ==
  Done(w, "admin_cancel") /\ AdminCancel(worker[w].s, worker[w].ord)

CommitPay(w) ==
  Done(w, "pay") /\ PlaceOrder(worker[w].s, worker[w].lines)

\* /pay rolls back when the stock has gone.
RefusePay(w) ==
  /\ Done(w, "pay") /\ \E v \in Variants : worker[w].lines[v] > stock[v]
  /\ UNCHANGED vars

-----------------------------------------------------------------------------
(* Any handler may also run with nothing in between, as in Checkout; one that *)
(* needs a locked session row waits.                                         *)

SweepBlocked == \E s \in Sessions : SessionLocked(s) /\ Lapsed(session[s])

Whole ==
  \/ \E u \in Users, s \in Sessions, cart \in Carts :
       ~SessionLocked(s) /\ StartCheckout(u, s, cart)
  \/ \E s \in Sessions : ~SessionLocked(s) /\ StartPayment(s)
  \/ \E s \in Sessions : ~SessionLocked(s) /\ CancelCheckout(s)
  \/ GatewayNext
  \/ \E s \in Sessions, e \in Event : Webhook(s, e)
  \/ ~SweepBlocked /\ Sweep
  \/ AdminNext
  \/ Tick

RacesNext ==
  \/ \E w \in Workers, s \in Sessions, e \in Event : LoadWebhook(w, s, e)
  \/ \E w \in Workers, s \in Sessions : LoadAdminCancel(w, s)
  \/ \E w \in Workers, s \in Sessions : LoadPay(w, s)
  \/ \E w \in Workers : CommitCaptured(w)
  \/ \E w \in Workers : CommitFailed(w)
  \/ \E w \in Workers : CommitAdminCancel(w)
  \/ \E w \in Workers : CommitPay(w)
  \/ \E w \in Workers : RefusePay(w)
  \/ Whole /\ UNCHANGED worker

RacesSpec == RacesInit /\ [][RacesNext]_raceVars

-----------------------------------------------------------------------------
(* What the row locks, the status guards and the unique indexes save *)

\* Goods leave, and an order counts as paid, only for money the gateway took,
\* whichever stale rows the handlers act upon.
NothingWithoutMoney ==
  \A s \in Sessions :
    order[s].pay = "paid" \/ order[s].status \in {"packed", "shipped", "delivered"} \/ payment[s].refund
      => gateway[s].taken

\* "PaymentService only calls this once per capture": what was sold is not more
\* than what was ordered.
SoldOncePerOrder == \A v \in Variants : sold[v] <= Sold(Sessions, v)
=============================================================================
