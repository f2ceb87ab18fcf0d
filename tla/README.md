# Oorvashee backend: a TLA+ development

The backend of a shop (FastAPI, SQLAlchemy, PostgreSQL, Razorpay for payments,
Clerk for users). These modules model the part of it where requests, webhooks,
timers and admins compete for the same rows, the same stock and the same money,
check it with TLC on small instances and prove its invariants with TLAPS for
any number of users, variants, sessions, orders, categories and pictures.

## 1. The system

All paths are below `src/app/`.

| component | state it keeps | operations | hard because |
|---|---|---|---|
| checkout sessions (`services/checkout_session_service.py`, `repositories/reservation_repo.py`) | `checkout_sessions`, `reservations` | POST /checkout, /cancel | holds expire; stock is reserved by a sum over rows, not by a counter |
| checkout payment (`services/checkout_payment_service.py`) | `orders`, `order_items`, `payments` | POST /pay | a hold becomes an order under locks taken one after the other |
| payment webhooks (`services/payment_service.py`) | `payments`, `orders` | payment.captured, payment.failed, verify | repeated, late and reordered events; rows read without a lock |
| reservation lifecycle, sweeper (`services/reservation_lifecycle.py`, `tasks/reservation_sweeper.py`) | none of its own | two sweeps, complete_sale, cancel_for_order | timeouts race late answers |
| inventory service (`services/inventory_service.py`) | `inventory.stock`, `reserved`, `sold_quantity`, availability | reserve, release, consume, commit_sale, decrement, restock | row locks; two ways of reserving side by side |
| admin orders (`services/admin_order_service.py`) | `orders`, `stock_movements` | pack, ship, deliver, cancel, COD paid, notes | cancel restocks depending on an earlier state |
| admin inventory (`services/admin_inventory_service.py`) | `inventory`, `stock_movements` | adjust, thresholds | stock may not drop below what is held |
| transactions (`db/session.py`, `db/deps.py`) | one session per request | commit or roll back | READ COMMITTED, an identity map that keeps stale rows |
| legacy checkout (`services/checkout_service.py`), off unless `legacy_checkout_enabled` | `inventory.reserved`, orders | place_order (Razorpay, COD) | does not see the reservations, and they do not see it |
| idempotency (`core/idempotency.py`), for the retired endpoints only | `request_idempotency` | run once per key | two requests with one key |
| cart, wishlist (`services/cart_service.py`, `services/wishlist_service.py`) | rows per user | add, change, remove, merge, move to cart | quantity against what others hold and sell |
| products (`services/admin_product_service.py`, `services/catalog_service.py`), catalogue sync (`seeds/sync.py`) | `products`, `product_variants`, `inventory` | create, publish, hide, archive, variants, sync | status written on an earlier read; availability follows the stock |
| categories (`services/admin_category_service.py`) | `categories` | create, PATCH, archive | tree check before a concurrent write; an external asset |
| media (`services/media_service.py`) | `product_images`, Cloudinary | sign, attach, delete | exactly one primary picture; a client carries the result |
| bulk import (`services/admin_import_service.py`) | `import_jobs` | run in chunks | partial failure, crash |
| user sync (`services/user_sync_service.py`, `routers/webhooks/clerk.py`) | `users`, `user_profiles`, `user_roles` | Clerk created, updated, deleted | events out of order; rows read without a lock; sign-ins that come before the event |
| courier, Daakia (`services/courier_service.py`, `integrations/daakia_client.py`) | order AWB, token cache | set AWB, track | token expiry |
| auth (`core/security.py`) | JWKS cache | key lookup, first-touch provisioning | rotation |
| reports (`services/admin_analytics_service.py`, `services/admin_customer_service.py`) | none | overview, trend, best sellers, customers, tiles | several queries that must agree |
| policies, videos, middleware, printing, audit, logging | | | single-row or pure I/O |

How they meet: `/checkout` counts the live reservations of everybody else
against `inventory.stock`; `/pay` turns the caller's reservations into an order
and extends them; the webhook of the payment takes the physical stock
(`commit_sale`), completes the session and marks the order paid, or records a
refund owed; the sweeper ends lapsed sessions; an admin's cancel puts stock
back or releases a hold. They share the rows of `inventory`, `orders` and
`checkout_sessions`, and nothing else. Clerk's webhooks and the sign-ins share
the rows of `users` and do not meet the shop's. `PROJECT.json` lists every component and
every hazard found at its line, with the properties that cover it or the reason
why none does yet.

What makes each component right: a user has one live checkout; a hold's rows,
session and order agree; held units are not taken by others; an order that
waits is found by the backstop; money the gateway took becomes a sale or a
refund, once; units on the shelf are the initial units plus adjustments less
the kept sales; paid and cancelled are final; nothing waits for ever. The local
users are a mirror of Clerk's accounts: one role each, and a deletion leaves
nothing personal behind.

## 2. Modules

| module | models |
|---|---|
| `Checkout` | the reservation checkout: every handler, webhook and sweep as one transaction |
| `CheckoutRaces` | the same system with the handlers that act on rows read without a lock split into a load and a commit |
| `OrderSettlement` | the abstract promise: an order is settled at most once and what that does to the shelf |
| `CheckoutSettlement` | the refinement mapping from `Checkout` to `OrderSettlement` |
| `UserSync` | Clerk's event log, the webhooks that apply it and the sign-ins that provision users |
| `CategoryTree` | the category hierarchy, its pictures, and PATCHes split into read and commit |
| `ProductLifecycle` | one product: status, variants, stock, the catalogue's view, the sync |
| `ProductImages` | signed uploads, the pictures of products and their primary flag |
| `ImportJob` | a bulk import from upload to the last chunk, row by row |
| `Cart` | carts and wishlists against stock, holds, payments and sales |
| `Fulfilment` | the dispatch desk: cash and gateway orders, shipments, requests and gateway reports in flight |
| `LegacyOrders` | the retired checkout with its stored counter and idempotency keys |
| `CredentialCaches` | the caches of tokens, vendors and signing keys with their locks |
| `Reports` | the admin's figures as definitions over the orders, while orders change |
| `MCCheckout`, `MCCheckoutRaces`, `MCUserSync`, `MCImportJob`, `MCFulfilment` | constants for TLC |
| `MCShop` | one instance of the ten modules from `UserSync` to `Reports`, side by side |
| `SumLemmas` | lemmas about sums over finite sets, for the proofs |
| `Checkout_proofs` | theorems of `Checkout` and of its refinement `CheckoutSettlement` |
| `CheckoutRaces_proofs` | theorems of `CheckoutRaces` |
| `Identity_proofs` | theorems of `UserSync` and `CredentialCaches` |
| `Reports_proofs` | theorems of `Reports` |
| `Orders_proofs` | theorems of `Fulfilment`, `LegacyOrders` and `Cart` |
| `Catalogue_proofs` | theorems of `CategoryTree`, `ProductImages`, `ProductLifecycle` and `ImportJob` |
| `Shop_proofs` | theorems of `MCShop`: the ten components side by side |

### Checkout

State: `stock`, `sold` are `inventory.stock` and `sold_quantity`; `adjusted` is
the sum of the admin's `stock_movements.delta`; `session`, `reservation`,
`order`, `payment` are the rows of those tables; `gateway` is the payment
gateway's own knowledge; `now` is the database clock. `/pay` needs an ACTIVE
session and leaves it PAYMENT_PROCESSING for good, so a session has at most one
order and one payment, and both are indexed by their session.

| action | code |
|---|---|
| `StartCheckout` | `CheckoutSessionService.start_checkout`: acquire or create the session, check every line against `AvailableTo`, rewrite the rows, prune the stale ones. A session in payment is returned untouched |
| `StartPayment` | `CheckoutPaymentService.start_payment`: expiry check, stock guard, order, payment, extended hold |
| `CancelCheckout` | `CheckoutSessionService.cancel` |
| `OnCaptured`, `OnFailed` (through `Webhook`) | `PaymentService.handle_webhook`, `_capture`, `_mark_failed`, `_record_capture_unfulfillable`, with the status guards in their order |
| `Sweep` | `run_sweep_once`: `sweep_expired_reservations` then the backstop |
| `Fulfil`, `AdminCancel` | `AdminOrderService.mark_packed`, `mark_shipped`, `mark_delivered`, `cancel_order` |
| `AdminAdjust` | `AdminInventoryService.adjust` |
| `GatewayFails`, `GatewayCaptures` | Razorpay (external): attempts may fail any number of times before the payment is taken; a capture may be announced again under a new id; an event once emitted stays deliverable, in any order and again |
| `Tick` | time |

A refused request (404, 409, out of stock) rolls back: it is a stuttering step.
`<` and `<=` are the code's: a hold counts while `expires > now`, is payable
while `expires > now`, is swept when `expires < now`.

### CheckoutRaces

The webhooks load the payment and the order with a plain SELECT and then wait
for the inventory rows; `cancel_order` loads the order the same way; `/pay`
locks the session first and the inventory later. Each is a load step, which
copies the rows into `worker[w]`, and a commit step, which runs the same
operators as `Checkout` on the copies; in between anything may commit that does
not need a lock held by the loader. A column is written only if it differs from
what was loaded, as the ORM does. Every handler may also run in one piece.

### OrderSettlement

`none -> pending -> lapsed / withdrawn / sold / refund`, `lapsed -> sold`,
`sold -> returned`, `withdrawn -> refund`. A sale needs its units on the shelf
and takes them; a refund is owed only for a withdrawn order or an empty shelf.

### UserSync

`log` is what Clerk announced, each event with the account as it then was;
`user[i]` is the account's row in `users` with its profile and roles;
`worker[w]` is a webhook between its reads and its commit; `applied` is an
auxiliary variable, the event applied to an account last. Nothing marks an
event as used: any event may be received again at any time.

| action | code |
|---|---|
| `OpenOrChange`, `Close` | Clerk (external) opens, changes, restores or deletes an account |
| `FirstTouch` | `get_current_user` for an account without a row; the token may carry any address the account has had |
| `Receive` | the webhook's reads: `_find_by_clerk_id`, the profile, the roles |
| `Apply` | its writes, committed: `_create`, `_apply_update` with `_upsert_profile` and `_sync_role`, or `handle_user_deleted` |
| `RollBack` | a unique constraint is broken; the request fails and will be delivered again |

### CategoryTree

`category[c]` is the row, `patch[a]` a PATCH between its reads and its commit,
`assets` what Cloudinary still has, `overlap` an auxiliary flag that two
PATCHes were in flight together. `BeginPatch` is `update_category` up to its
writes (`ValidParent` is `_validate_parent`, `WholePair` the url/public id
rule); `CommitPatch` writes only the columns that differ from what was read;
`LosePatch` is the request that destroyed the old picture and did not commit.
`CreateCategory`, `Archive` and `Unarchive` are one step.

### ProductLifecycle

`product`, `variant` (with its inventory row) and `change[r]`, a lifecycle
request between read and commit; `publications` numbers the publications, and
`raced` remembers that one began while the first was in flight.
`BeginPublish`/`CommitPublish` and `BeginHide`/`CommitHide` are publish,
unpublish, archive and unarchive; `Correct` is any correction of the stock with
`recompute_product_availability` in its transaction; `Sell` lowers the stock
without it, as a capture does; `ImportProduct`, `SyncProduct` and
`RetireProduct` are the import and the catalogue sync, which obey no transition
rule. `Listed`, `HasPage`, `AvailabilityState` and `IsAvailable` are what the
catalogue says.

### ProductImages

`upload[a]` is the folder an asset was signed for, `stored` what Cloudinary
has, `image[i]` a row. `Attach` moves the primary flag if it is asked to or if
the product has none; `DeleteImage` passes it to the next in line.

### ImportJob

`job` is the row an admin polls, `task` the background task: its place in the
file, the rows of the chunk applied and not yet committed, the tallies.
`BeginChunk`, `ApplyRow` (`InsertRow`, `AdjustRow`), `CommitChunk`,
`RecordProgress` and `FinishJob` are `_process`; `RefuseCommit` is the branch in
which the database refuses the commit of a chunk (its valid rows are counted as
failed, and its errors once more; with the present schema every constraint is
tested when a row is flushed, so only a deferred one would take this branch);
`FailFlush` and `LoseTask` are the two ways it never finishes; `SomeoneAdds` an admin who takes a key meanwhile.

### Cart

`cart[s][g]`, `held[s][g]` (the shopper's live checkout), `paying` (whose
checkout is PAYMENT_PROCESSING), `units[g]`, `offered[g]`, `wishlist[s]`. Every
endpoint is one step. The checkout is here as what changes the stock left to
others: `StartCheckout` holds the cart, or returns the hold untouched while a
payment is open; `Pay`, `SellHold`, `SellLate` and `ReleaseHold` are the rest.

### Fulfilment

`parcel`, `shipment`, `returned` (how often the units of an order were put
back) and `desk[c]`, a request with the row it read. `ReadOrder` tests the
guards on the order as it is, the `Commit…` actions write the columns on what
was read. `CommitCaptured` and `CommitFailed` are the gateway's reports, which
decide on the order they loaded as `CheckoutRaces` has it, so a failure may be
written over a capture; `received` remembers for which orders a capture was
booked. `Backstop` and `Withdrawn` decide on the order as it is: one is a single
UPDATE, the other holds the session's lock.

### LegacyOrders

One inventory row `shelf`, `ticket[o]`, `answer[k]` (the stored answer of a
key) and `post[p]`, a request with what it read. `CommitPost` is the
transaction of `place_order` with the answer of its key; the reserved counter
is reckoned from the row read earlier, as the identity map has it, so updates
of it are lost.

### CredentialCaches

Per cache an entry and a queue for its lock; per caller where it is and when it
came. `Ask`, `Enter`, `Fetched` and `FetchFails` are the test without the lock,
the test under it and the two ends of a fetch; the vendors' fetch asks for a
token while it holds the vendors' lock. A token's expiry is the courier's cutoff
or, in an answer that does not tell it, a lifetime from the time it came.
`crowded` remembers that more callers queued for the token than fetches fit the
margin.

### Reports

The queries are definitions over `bill` (orders with their items); the overview
is two steps, one per statement, between which orders are paid and a late
failure may be written over a payment (`FailBill`, `takenBack`). Users are
deleted and brought back; the customer list leaves them out unless it is asked,
the orders do not. (So does `segment_summary` count them, although its docstring
says "only the non-deleted population", `customer_repo.py:302`.) Money is a
whole number, a calendar constant says where days, weeks and months start.

## 3. Runs

| run | what it asks | instance | distinct states |
|---|---|---|---|
| `two_users` | money, units, finality, who may lose a hold, refinement | 2 users, 1 variant, 1 unit, adjust to 0 or 1, 2 events per payment | 400k |
| `reload` | one live session; rows, session and order agree | 1 user, 2 sessions, 2 variants, 2 carts | 696k |
| `liveness` | every checkout ends, every order is decided, every capture recorded | 2 users, 1 unit | 97k |
| `races` | what locks and guards still give when two handlers interleave | 1 order, 2 variants, 2 workers, all four kinds split | 505k |
| `shop` | the invariants of ten components, one after the other | see below | 793k |
| `backed_by_stock` | violated: reservations always backed by stock | 2 users, 1 unit | |
| `double_capture` | violated: captured once | 1 order, 2 workers | |
| `late_failure` | violated: a failed event must not regress a paid order | 1 order, 2 workers | |
| `user_revived` | violated: a deletion is undone only if Clerk restored the account | 1 account, 2 events | |
| `two_roles` | violated: exactly one role row per user | 1 account, 3 events, 2 webhooks | |
| `terminal` | violated: a cancelled order stays cancelled, its units are returned once | 1 order, 2 requests | |
| `succeeded` | violated: rows counted as succeeded are stored | 1 file of up to 3 rows, chunks of 2 | |

`shop` chooses at its start which component runs; the others stay as they
start, so it explores the sum of ten state spaces and not their product. They
share no row in these modules; what they do share with the checkout (stock,
holds, orders) each has as actions of its own.

| in `shop` | instance | asks | distinct states |
|---|---|---|---|
| users | 2 accounts, 2 addresses, 2 roles, 4 events, 1 webhook at a time | is the mirror what the last event said, is a deletion whole | 286k |
| categories | 3 categories, depth 3, every body, 1 PATCH at a time | no cycle; url and asset together | 101k |
| product | 2 variants, stock 0..1, 2 lifecycle requests, 2 publications | the first publication's time; page and stock agree; a correction is told | 56k |
| images | 2 products, 2 assets, 3 rows | one primary picture | 18k |
| import | a few files of each kind, chunks of 2, 1 error kept | tallies add up; what is reported is not stored | 85k |
| cart | 2 shoppers, 1 variant, 2 units, 1 line | a raised line fits what others leave | 8k |
| fulfilment | 1 order, 2 requests, 2 AWBs | delivered is paid for; returned had left | 18k |
| legacy | 2 orders, 2 keys, 2 requests, 1 unit | a key orders once | 32k |
| caches | 2 callers, cutoff 3, margin 2, 3 ticks | a cached token is alive | 123k |
| reports | 2 orders, 1 customer and guests, 3 hours, days of 2, 1 range | tiles, chart, customers and overview agree | 65k |

**What they show.** With handlers run one after the other the checkout keeps
its books: all units and all money are accounted for, paid and cancelled are
final, and a hold is lost only to a late capture (`OnlyLateCaptureEatsAHold`);
a customer who pays in time is refunded only if that has happened
(`HoldInTimeIsHonoured`). With Clerk's webhooks handled one at a time, each
leaves the account as its event describes it, whether a sign-in, an older event
or nothing came before. In the other components the desk never delivers what
has not been paid for, although a late failure may hide that it was; a key orders
once; the tree has no cycle while PATCHes come one at a time; a product keeps
the time of its first publication unless two raced to be it, and then some time;
one picture is primary; an import's figures add up as long as no commit is
refused; a cart line is raised within what others leave; and the reports agree
with each other, deleted customers and late failures accounted for. Seven things
the code's own comments promise do not hold:

- *Reservations are always backed by stock*
  (`admin_inventory_service.py:106`). A's first attempt fails, so A's hold is
  cancelled; B checks the same unit out; A's retry in the same gateway window
  is captured and takes the unit. B holds a unit that is not there and is
  refunded if B pays.
- *Called once per capture* (`reservation_lifecycle.py:49`). Two captured
  events of one payment (two ids), both loaded before either commits, both
  decrement the stock.
- *A late failed event must not regress a paid order*
  (`payment_service.py:394`). The guard reads rows that were loaded without a
  lock; the capture commits in between.
- *If Clerk has revived a previously deleted user* (`user_sync_service.py:158`).
  The mark is cleared by any profile event, also an old one delivered after the
  deletion. The events carry no version the handler compares.
- *Reconcile to exactly one row for this user* (`user_sync_service.py:211`). A
  customer becomes admin and then staff; both webhooks read `{customer}` and
  the user ends as admin and staff.
- *Terminal* (`admin_order_service.py:668`). A cancel and a pack both read the
  order placed; the cancel puts the units back and commits, the pack then makes
  the order packed, and it can be cancelled and restocked again.
- *Failed rows are not counted as succeeded* (`admin_import_service.py:318`). A
  row that breaks a constraint rolls the session back and with it the rows of
  its chunk applied before it; these stay counted, and the finished job reports
  rows that are not in the database.

An eighth is met by a condition in the property itself. The comment at
`admin_product_service.py:334` sets `published_at` "only the FIRST time", but two
requests that publish a product and both read no stamp both set it, so the first
time is lost. `StampKept` therefore claims the first publication's time in every
history in which no publication began before the first was committed (`~raced`),
and that some time stays in all others.

**Bounds and why they are enough.** `MaxEvents = 2` gives the shortest mixed
histories: failed then captured, captured twice, and either delivered in either
order and again. `LastStart` bounds when a checkout may start and `Tick` stops
when every hold so started has lapsed, so each hold is seen in time, at its
last instant and swept. Payment TTL 2 against reservation TTL 1 lets one hold
outlive another. Two sessions are two users, or one user and a second checkout:
no rule of the code relates three sessions except through the sum `ReservedBy`.
One unit for two users is the contention; two variants let a cart lose a line
and a capture find one line and not the other. Two workers are enough for each
handler's pair with another. For the users four events are enough to open an
account, delete it and restore it with an event to spare for the other account
to take a released address; with one worker `Receive` and `Apply` still
interleave with sign-ins and with Clerk. `SYMMETRY` is used in safety runs only, over
sessions of one user, workers, accounts or addresses, which the constants do
not tell apart.
One PATCH at a time is not a bound of convenience: `NoCycle` and
`PictureIsWhole` are stated for behaviours in which no two overlapped, since
two moves each checked on the old tree can close a cycle; three categories and
depth 3 allow a move below a grandchild and a refusal for depth. Two lifecycle
requests, desk requests, posts or callers are a pair with every kind of the
other. Chunks of two rows in files of up to three give a full and a short chunk
and a refused row before and after an accepted one. Three hours in days of two,
with a week and a month that start elsewhere, and a range from the second hour to
the third, cut buckets at either end. The token's margin, the timeout and the cutoff are chosen so that a
token can lapse while a caller waits behind one fetch.
Deadlock is checked in all runs of the checkout and the users: the gateway's
and Clerk's events stay deliverable and a sweep is always possible, so none
stops. `shop`, `terminal` and `succeeded` do stop, where the clock, the orders
or the file are at their end, and say `CHECK_DEADLOCK FALSE`. `shop` takes the two
orders of the reports, which start alike, as symmetric, and one range that cuts
a day and a week; the property speaks of every order and category, and the
theorem of every range.

**Fairness** (`liveness` only). The clock; `Sweep`, because `_sweeper_loop`
ticks again whatever happened to the last tick, in some worker; every delivered
event, because the gateway repeats an event until it is answered. Users,
admins and the gateway's decisions are not fair.

## 4. Proofs

Every theorem holds for any values of the constants that meet the named
assumptions of the modules, which TLC evaluates on each run: any number of
users, sessions, variants, handlers in flight, orders, categories, products,
rows of a file, callers. The run of section 3 shows the same property on its
small instance.

**The checkout, handlers in one piece** (`Checkout_proofs`, under
`SetsAssumption` and `NumbersAssumption`: finitely many sessions, positive time
limits).

| theorem | states |
|---|---|
| `Invariance` | `Spec => []IInv` |
| `TypeCorrect` | `TypeOK`, in particular stock is never negative |
| `OneLiveSessionPerUser`, `HoldIsOneThing` | `OneLiveSession`, `RowsFollowSession` |
| `OrderIsItsHold`, `AwaitedPaymentIsFound` | `OrderMatchesHold`, `AwaitedPaymentIsHeld` |
| `MoneyIsAccounted` | `MoneyAccounted` |
| `CancelledStays`, `PaidStays` | `CancelledIsFinal`, `PaidIsFinal` |
| `Implementation` | `Spec => ImplementsSettlement` |
| `EveryUnitIsAccountedFor` | `EveryUnitAccountedFor` |
| `OnlyALateCaptureEatsAHold`, `PayingInTimeIsHonoured` | `OnlyLateCaptureEatsAHold`, `HoldInTimeIsHonoured` |
| `BackedUnlessSoldLate`, `EveryHoldIsHonoured` | `ReservationsBackedByStock`, `PaidInTimeIsSold`, of `Spec /\ [][SoldInTime]_vars` |

None of these is inductive alone: that a capture completes a session needs that
its rows carry its status; that the backstop finds an order needs that only a
session in payment has an order that waits; that money is accounted needs that
a failed row has no refund flag. `IInv` is `TypeOK`, `OneLiveSession` and one
formula per session, `SessionInv(s)`, which says everything the five rows of
one session know of each other. Every action but the sweep touches one session,
so the lemma `Frame` carries `SessionInv` of all the others, and each action has
one lemma for its own session; the sweep is proved for one session at a time
(`SweepOneSession`). The refinement proof uses `IInv` to show that each action
maps to one abstract action or a stutter; a sweep maps to `Lapse` of the set of
orders it fails.

*The ledger.* `Balanced` writes the account of a variant as a sum over sessions
of what each one's order took and kept. A step changes one summand, or the
stock and the deltas by the same number, so the account stays even
(`SaleBalances`, `RestockBalances`, `AdjustBalances`).

*The holds.* `Deficit` grows only if the reserved sum rises or the stock falls.
A checkout raises the sum within what the others leave; `/pay` swaps one kind
of hold for another; cancels, sweeps and failures lower the sum
(`HoldsFall`); an adjustment stops at the sum; a sale in time takes from the shelf what its own
hold gives up (`SaleInTimeEatsNothing`). Only the sale of an order whose hold is
gone is left. A refund in time (`RefundInTime`) means that some variant has
fewer units than the customer's own live hold counts, so a deficit.

*Sums.* `SumLemmas` has what these proofs need of `MapThenSumSet`: one summand
out, one changed, two sums added, a sum over a filter, a table summed by rows
or by columns (`SumSwap`) or by classes (`SumByClass`). A library theorem that
takes an operator as a parameter cannot be instantiated here, so induction over
a finite set goes by sets of sets: if a property fails somewhere, it fails for
a set with the least number of elements (`LeastNat`, `SetInduction`).

**Handlers that overlap** (`CheckoutRaces_proofs`, any number of workers, any
kinds of handler split).

| theorem | states |
|---|---|
| `RacesInvariance`, `HoldsInvariance` | `RacesIInv` and `RacesIInv /\ HoldIInv`, the inductive invariants |
| `MoneyComesFirst` | `NothingWithoutMoney` |
| `RacingTypes` | `TypeOK` |
| `RacingOneLiveSession`, `RacingRowsFollow` | `OneLiveSession`, `RowsFollowSession` |
| `RacingOrderMatches`, `RacingAwaitedIsHeld` | `OrderMatchesHold`, `AwaitedPaymentIsHeld` |
| `RacingCancelledStays` | `CancelledStaysCancelled`: no step gives a cancelled order another status |

A stale handler may write nearly anything over a row, so the invariants keep
what survives that. `RacesIInv`: what is spent was taken, and a handler that
carries a capture read an announced one; `taken` never goes back. `HoldIInv`:
the rows of one session still belong together (`HoldSession`), because each
handler writes session and reservations as one, and because of what a handler
loaded and is still so (`Loaded`): an order once made does not vanish, a
payment seen to have failed is not awaited again, and `/pay` has the session,
and so its lines, to itself until it commits (`OnePayer`, the row lock). The
lemma `MovedKept` asks of a step only what it does to each session (`Moved`).
What does not survive is in section 3: captured once, and paid for good.

*What stale rows cost, and all they cost.* `FreshRows` says of a step that a
webhook or an `admin_cancel` that commits in it finds the order and the payment
as it loaded them. Handlers may still overlap in every other way: rows of other
sessions, the stock, the holds and the clock move on while one waits, and `/pay`
commits on a hold that may have lapsed.

| theorem, of `RacesSpec /\ [][FreshRows]_raceVars` | states |
|---|---|
| `FreshInvariance` | `FreshIInv`: `RacesIInv`, `HoldIInv`, `IInv`, `Balanced`, and that what a webhook carries was announced |
| `FreshMoney`, `FreshUnits` | `MoneyAccounted`, `EveryUnitAccountedFor` |
| `FreshSold` | `SoldOncePerOrder` |
| `FreshCancelled`, `FreshPaid` | `CancelledIsFinal`, `PaidIsFinal` |
| `FreshHonoured` | `HoldInTimeIsHonoured` |
| `FreshImplementation` | `ImplementsSettlement` |
| `FreshLateness` | `OnlyLatenessEatsAHold` |
| `OnlyPayRacesIsFresh` | where only `/pay` is split, every step is a `FreshRows` step |

So the failures of section 3 have one cause: a row read without `FOR UPDATE` and
written from memory. Reading payment and order under a lock, or checking them
again before the write, would make every commit fresh. The argument: a fresh
commit is a step of `Checkout` (`FreshStepsAreSteps`), its event is still
announced (`EventsStay`); the commit of `/pay` is `HoldBecomesOrder`, a
`StartPayment` without the look at the expiry, because the session's row lock
keeps status and lines as they were loaded (`Loaded`, `OnePayer`). The lemmas of
`Checkout_proofs` about `/pay` are stated for `HoldBecomesOrder`, so each
invariant and each action property is kept by both. One promise is weaker than
in `Checkout`: a hold that lapses while `/pay` waits for the inventory rows is
extended although somebody else may have the units by then, so a live hold
loses a unit to a late capture *or* to a late `/pay`. `OnlyLatenessEatsAHold`
says that; `OnlyLateCaptureEatsAHold` is false there.

**The other components.**

| theorem | module | states |
|---|---|---|
| `MirrorTypes` | `Identity_proofs` | `TypeOK` of `UserSync`, however webhooks overlap |
| `DeletionIsWhole`, `MirrorIsFaithful` | `Identity_proofs` | `RowsAreWhole`, `MirrorsLastEvent`, of `Spec /\ []OnePerAccount` (no two webhooks in flight about one account, which `two_roles` shows to be needed) |
| `PaidBeforeDelivered`, `ReturnsHadLeft` | `Orders_proofs` | `DeliveredIsPaid`, `ReturnedHadLeft` |
| `FreshDeskIsFinal` | `Orders_proofs` | `TerminalIsFinal` of `FulfilmentSpec /\ [][FreshStatus]_fulfilmentVars` |
| `KeyOrdersOnce` | `Orders_proofs` | `OncePerKey` |
| `LinesAreRaisedWithinStock` | `Orders_proofs` | `RaisedWithinStock` |
| `NoCycleEver`, `PictureWhole` | `Catalogue_proofs` | `NoCycle`, `PictureIsWhole` |
| `OnlyMovesMakeCycles`, `OnlyPicturesTear` | `Catalogue_proofs` | `Acyclic` of `CategorySpec /\ []OneMove`, `AllWhole` of `CategorySpec /\ []OnePicturePatch` |
| `PrimaryIsOne` | `Catalogue_proofs` | `OnePrimaryPicture` |
| `StampIsKept`, `PageAlwaysAgrees`, `CorrectionIsAlwaysTold` | `Catalogue_proofs` | `StampKept`, `PageAgrees`, `CorrectionIsTold` |
| `TallyAlwaysAddsUp`, `ReportedIsNeverStored` | `Catalogue_proofs` | `TallyAddsUp`, `ReportedNotStored` |
| `StoredUnlessTakenBack` | `Catalogue_proofs` | `SucceededAreStored` of `ImportSpec /\ [][NothingTakenBack]_importVars` |
| `HandedTokenIsAlive` | `Identity_proofs` | `TokenAlive` |
| `OverviewAlwaysHoldsTogether` | `Reports_proofs` | `OverviewHoldsTogether` |
| `TilesAlwaysReconcile`, `CustomersAlwaysReconcile` | `Reports_proofs` | `TilesReconcile`, `CustomersReconcile` |
| `ShopTypes` | `Shop_proofs` | `ShopTypeOK` |

Each component has its type invariant as a theorem too (`CartTypeCorrect`,
`ProductTypeCorrect`, `ImportTypeCorrect`, `CachesTypeCorrect`,
`FulfilmentTypes`, `LegacyTypes`, `CategoryTypes`, `ImagesTypes`), or as a part
of its `…Invariance`.

- *Users.* The two invariants need each other and `ReadIsCurrent`: what a
  webhook has read is still the row, unless there was none and a sign-in made a
  bare one since. In that case the insert breaks a constraint
  (`OutcomeIsFaithful`), or the event is a deletion of a user not found, and the
  bare row has no role and no profile. The hypothesis `OnePerAccount` lets
  webhooks about different accounts overlap: nothing one reads or writes about
  one account is another's, but an address, and a conflict rolls back.
- *Desk.* What a request knows (`ReadIsSound`) of the order it read is stated in terms of what
  never goes back: the method, and that a capture was booked (`received`). The
  payment's column may be anything by then, a late failure included, and so may
  the status. An order read as paid is a cash order or one that was booked; so
  what it lets pass is too, although the row may say failed: those orders are
  `FailedOver`, and only their owner and the courier do not see them.
- *Tree.* `PatchHolds`: while one PATCH is in flight the new parent is still not
  a descendant, since the other actions only add leaves. With PATCHes in
  flight together only two kinds of pair matter: two that move a category
  (`MoveHolds` is lost to the other's commit) and two about the picture of one
  category (`PicturesIInv`). As long as no such pair is in flight
  (`OneMove`, `OnePicturePatch`) any number of others may be.
- *Keys, pictures.* The order of a key is the one its answer names until the
  clean-up; a product without a primary has no pictures.
- *Product.* `PIInv` adds to `StampKept` that a stamp a request has read is one
  the product still has (`StampRead`), that before the first publication nobody
  has read one (`Unstamped`), and that without a race a request that would set
  the stamp is the only one that publishes, and the first (`FirstIsAlone`). A
  commit that read a stamp leaves the product's alone; one that read none sets
  the first or raced.
- *Cart.* The types suffice: a line is raised by the same sum the next reader
  computes.
- *Import.* `ImportInv` says where the task is in the file. Between two chunks
  nothing is pending and the tallies are the rows behind (`BetweenChunks`);
  inside one, each of its rows is still to do, reported, or applied, and only
  applied rows are pending (`InChunk`). A refused commit counts the chunk's
  errors twice, so from then on the tallies only bound the rows behind from
  both sides (`RowsCounted`).
- *Caches.* `CIInv`: a queue has no caller twice, a caller is in one queue for
  one errand, and who waits at place `i` has waited for the fetches before it
  only (`WaitBounded`), as long as the queue never held more than `Room` callers,
  the fetches that fit the margin. Then a caller that saw a live token gets a
  live one. Nothing in the code keeps the queue that short, and `httpx` bounds
  the phases of a fetch and not the whole, so the theorem has the condition in
  its statement (`~crowded`) and no assumption about either: with six seconds a
  fetch and a margin of five minutes it is a queue of fifty. `Cutoff <= Horizon`
  only says that the bounded clock can start at any time of the courier's day.
- *Reports.* `ReportsInv`: a made order has a unit and a time before now, and
  between the two statements of an overview the paid orders of its range only
  grow, but for those a late failure takes back (`takenBack`). The tiles then agree because one table of sales is summed by day, by
  product or by category (`SumByClass`, `SumSwap`), the customers because every
  order has one buyer or is a guest's; the default list lacks the deleted ones,
  whose orders stay in the revenue, and `SumSplit` takes their sum apart.

Nested rows are updated as one record (`![s] = [@ EXCEPT !.a = .., !.b =
..]`): each action then names the new row once, and a proof can speak of it.

*The shop.* A step of `MCShop` is a step of one component and leaves the
variables of the others alone, so a behaviour of the instance is one of each
component that stutters in between (lemma `ShopIsItsParts`); `ShopTypes` collects
the ten type invariants with it.

**What it takes for a refuted promise to hold.** A counterexample shows that a
promise can fail, not that the failure has one cause. For six of the seven a
theorem names a condition under which the promise is kept whatever else
happens, so that condition is what every counterexample breaks.

| run | promise | holds as long as | theorem |
|---|---|---|---|
| `backed_by_stock` | `ReservationsBackedByStock` | `SoldInTime`: no order is paid for after its hold is over | `BackedUnlessSoldLate` |
| `double_capture` | `SoldOncePerOrder` | `FreshRows`: who commits finds payment and order as loaded | `FreshSold` |
| `late_failure` | `PaidIsFinal` | `FreshRows` | `FreshPaid` |
| `two_roles` | `OneRoleEach` | `OnePerAccount`: no two webhooks in flight about one account | `DeletionIsWhole` |
| `terminal` | `TerminalIsFinal` | `FreshStatus`: who writes an order finds the status it read | `FreshDeskIsFinal` |
| `succeeded` | `SucceededAreStored` | `NothingTakenBack`: no row's failure rolls back applied rows of its chunk | `StoredUnlessTakenBack` |

Each condition leaves the rest free: under `SoldInTime` holds still lapse and
are swept, orders are cancelled and stock is adjusted; under `FreshStatus` any
number of requests may have read the same order; under `NothingTakenBack` rows
still fail one by one and the task may die. `FreshStatus` is used where the desk
tests the transition and the refund against what it read (`TerminalStep`);
`NothingTakenBack` keeps `task.applied` the number of pending rows (`StoredInv`).
For `user_revived` there is no such theorem: Clerk may close an account again
while the event that restored it is still on its way, so not even delivery in
order would do.

*Model-checked only.* Liveness needs `ENABLED`, which the prover does not have.
`RevivedOnlyByClerk` is refuted by TLC and stands alone. Every other property of
a passing run is a theorem, and every other refuted one is a theorem under the
condition above.
`OneLiveSession` and `OrderMatchesHold` are checked by `reload` for whole
handlers; for split ones they are proved.

## 5. Assumptions

- One clock stands for the application's and the database's.
- An event has an id, unique to it, and a valid signature.
- A handler's own transaction is atomic except where `CheckoutRaces` splits it;
  `commit_sale`'s savepoint undoes a partial decrement.
- Rows read under `FOR UPDATE` are fresh.
- A gateway call that fails in `/pay` rolls the request back.
- `verify_and_capture` only informs the client for these orders
  (`payment_service.py:119`).
- The legacy checkout is off, as configured by default (`routers/public/checkout.py:138`),
  so `inventory.reserved` is 0 and the floor of `adjust` and the clamp of
  `commit_sale` that read it have no effect.
- Every Clerk event carries a plausible address and a name; user.created and user.updated
  end in the same two branches and are one kind of event. The rows a Clerk
  webhook reads are read at one instant. Roles exist before they are assigned.
- The PATCH of a category, a lifecycle request, a desk request and a legacy
  order are split where their reads end; other admin requests are one step.
- A response a client posts to attach a picture is one Cloudinary signed.
- The catalogue sync runs by hand and is modelled for one product alone: beside
  `Checkout` it would break the accounting of units, beside `CategoryTree` it
  sets parents without the cycle check.
- The dates an admin sends to the reports are in UTC, as the queries group them.
- Money amounts, addresses, coupons, audit records and printing are left out;
  nothing modelled reads them.

## 6. Not modelled

- Notes, timelines and activity feeds, audit records, logging: rows that are
  only appended and that no handler reads back.
- Policies and videos: single rows with a create, an update and a delete;
  `VideoService.reorder` writes one number per row.
- Rate limit, body size, security headers: a bucket per client in one process's
  memory and headers per request, nothing shared with the shop.
- Print service, Sentry, configuration, health: pure I/O.
- Banners, coupons, reviews, notifications and the data of the seeds: tables no
  handler of this commit writes, or constants.
- Text search, sorting, pagination, price arithmetic and formatting: no
  property here is about them.
- Who waits for whose row lock: PostgreSQL aborts one of two transactions that
  wait for each other, and an aborted handler is a step not taken.
- The legacy counter together with the derived holds over one inventory: the
  flow is off by default, and neither flow reads what the other writes, so the
  composition could only show that units are promised twice.
- Liveness of `UserSync` and `ImportJob`: Clerk stops redelivering after some
  days and a lost import task is never resumed, so the code justifies no
  fairness under which either ends.
