-------------------------------- MODULE Cart --------------------------------
(***************************************************************************)
(* Carts and wishlists.  A customer adds, changes, removes and merges      *)
(* lines against the units nobody else holds; their own live checkout does *)
(* not count against them.  Meanwhile other carts are checked out, holds   *)
(* lapse, stock moves and products come and go.                            *)
(*                                                                         *)
(* A product has one variant here, named by it.  A line with quantity 0 is *)
(* a line that is not there.                                               *)
(***************************************************************************)
EXTENDS Integers, FiniteSets, FiniteSetsExt

CONSTANTS
  Shoppers,   \* users.id
  Goods,      \* variants, each of a product of its own
  MaxUnits,   \* bound on the stock of a variant
  MaxLine,    \* largest quantity a request may carry
  MaxLines    \* MAX_DISTINCT_ITEMS_PER_CART

ASSUME CartAssumption ==
  /\ MaxUnits \in Nat /\ MaxLine \in Nat \ {0} /\ MaxLines \in Nat \ {0} /\ IsFiniteSet(Shoppers)

VARIABLES
  cart,      \* cart_items by user and variant
  held,      \* active reservations of a user's live checkout
  paying,    \* the users whose live checkout is PAYMENT_PROCESSING
  units,     \* inventory.stock
  offered,   \* the product's status and the variant's is_active
  wishlist   \* rows of wishlist

cartVars == <<cart, held, paying, units, offered, wishlist>>

Lines == [Goods -> 0..MaxUnits]

NoLines == [g \in Goods |-> 0]

Offer == [published : BOOLEAN, archived : BOOLEAN, active : BOOLEAN]

CartInit ==
  /\ cart = [s \in Shoppers |-> NoLines]
  /\ held = [s \in Shoppers |-> NoLines]
  /\ paying = {}
  /\ units \in [Goods -> {0, MaxUnits}]
  /\ offered = [g \in Goods |-> [published |-> TRUE, archived |-> FALSE, active |-> TRUE]]
  /\ wishlist = [s \in Shoppers |-> {}]

-----------------------------------------------------------------------------
(* What a shopper may take *)

\* _reserved_map: the units held by everybody else.
Reserved(s, g) == MapThenSumSet(LAMBDA t : held[t][g], Shoppers \ {s})

Available(s, g) == Max({units[g] - Reserved(s, g), 0})

\* _require_buyable_variant
BuyableNow(g) == offered[g].active /\ offered[g].published

\* The cart's own verdict on a line, and on the whole.
LineAvailable(s, g) == BuyableNow(g) /\ Available(s, g) >= cart[s][g]

HasUnavailable(s) == \E g \in Goods : cart[s][g] > 0 /\ ~LineAvailable(s, g)

-----------------------------------------------------------------------------
(* The cart *)

DistinctLines(s) == Cardinality({g \in Goods : cart[s][g] > 0})

SetLine(s, g, n) == cart' = [cart EXCEPT ![s][g] = n]

\* Mutant: the stock is tested for the units that come in alone.
FitsAlone(s, g, n) == n <= Available(s, g)

\* _guard_stock for the whole line.
FitsStock(s, g, n) == cart[s][g] + n <= Available(s, g)

CanAdd(s, g, n) ==
  /\ BuyableNow(g)
  /\ FitsStock(s, g, n)
  /\ cart[s][g] = 0 => DistinctLines(s) < MaxLines

AddItem(s, g, n) ==
  /\ CanAdd(s, g, n)
  /\ SetLine(s, g, cart[s][g] + n)
  /\ UNCHANGED <<held, paying, units, offered, wishlist>>

\* A change asks for the product alone, not whether the variant is active.
UpdateItem(s, g, n) ==
  /\ cart[s][g] > 0 /\ offered[g].published
  /\ n <= Available(s, g)
  /\ SetLine(s, g, n)
  /\ UNCHANGED <<held, paying, units, offered, wishlist>>

RemoveItem(s, g) ==
  /\ cart[s][g] > 0
  /\ SetLine(s, g, 0)
  /\ UNCHANGED <<held, paying, units, offered, wishlist>>

ClearCart(s) ==
  /\ cart[s] # NoLines
  /\ cart' = [cart EXCEPT ![s] = NoLines]
  /\ UNCHANGED <<held, paying, units, offered, wishlist>>

\* A merged line: the sum, silently cut to what there is; a line that would
\* come to nothing, or is not on sale, stays as it is.
MergedLine(s, g, n) ==
  LET target == Min({cart[s][g] + n, Available(s, g), 99}) IN
  IF n = 0 \/ ~BuyableNow(g) \/ target = 0 THEN cart[s][g] ELSE target

MergeCart(s, guest) ==
  /\ guest # NoLines
  /\ cart' = [cart EXCEPT ![s] = [g \in Goods |-> MergedLine(s, g, guest[g])]]
  /\ UNCHANGED <<held, paying, units, offered, wishlist>>

-----------------------------------------------------------------------------
(* The wishlist *)

AddWish(s, g) ==
  /\ ~offered[g].archived /\ g \notin wishlist[s]
  /\ wishlist' = [wishlist EXCEPT ![s] = @ \cup {g}]
  /\ UNCHANGED <<cart, held, paying, units, offered>>

RemoveWish(s, g) ==
  /\ g \in wishlist[s]
  /\ wishlist' = [wishlist EXCEPT ![s] = @ \ {g}]
  /\ UNCHANGED <<cart, held, paying, units, offered>>

\* A line the cart refuses keeps its place on the wishlist.
MoveToCart(s, g, n, drop) ==
  /\ CanAdd(s, g, n)
  /\ SetLine(s, g, cart[s][g] + n)
  /\ wishlist' = IF drop THEN [wishlist EXCEPT ![s] = @ \ {g}] ELSE wishlist
  /\ UNCHANGED <<held, paying, units, offered>>

-----------------------------------------------------------------------------
(* The shop around the carts *)

\* start_checkout holds the whole cart or nothing, by the count the cart goes by.
\* While a payment is in flight it returns the hold there is and changes nothing.
StartCheckout(s) ==
  /\ cart[s] # NoLines /\ s \notin paying
  /\ ~HasUnavailable(s)
  /\ held' = [held EXCEPT ![s] = cart[s]]
  /\ UNCHANGED <<cart, paying, units, offered, wishlist>>

\* /pay takes the lines of the hold, not those of the cart.
Pay(s) ==
  /\ held[s] # NoLines /\ s \notin paying
  /\ \A g \in Goods : held[s][g] <= units[g]
  /\ paying' = paying \cup {s}
  /\ UNCHANGED <<cart, held, units, offered, wishlist>>

\* The hold is cancelled, lapses or fails; the cart stays.
ReleaseHold(s) ==
  /\ held[s] # NoLines
  /\ held' = [held EXCEPT ![s] = NoLines]
  /\ paying' = paying \ {s}
  /\ UNCHANGED <<cart, units, offered, wishlist>>

\* The payment is captured: the units are gone, and the cart stays as it is.
SellHold(s) ==
  /\ s \in paying /\ \A g \in Goods : held[s][g] <= units[g]
  /\ units' = [g \in Goods |-> units[g] - held[s][g]]
  /\ held' = [held EXCEPT ![s] = NoLines]
  /\ paying' = paying \ {s}
  /\ UNCHANGED <<cart, offered, wishlist>>

\* A capture whose own hold is gone takes its units from the shelf, whoever holds them.
SellLate(g, n) ==
  /\ n <= units[g]
  /\ units' = [units EXCEPT ![g] = @ - n]
  /\ UNCHANGED <<cart, held, paying, offered, wishlist>>

SetUnits(g, n) ==
  /\ n >= MapThenSumSet(LAMBDA t : held[t][g], Shoppers) /\ n # units[g]
  /\ units' = [units EXCEPT ![g] = n]
  /\ UNCHANGED <<cart, held, paying, offered, wishlist>>

ChangeOffer(g, offer) ==
  /\ offer # offered[g] /\ ~(offer.published /\ offer.archived)
  /\ offered' = [offered EXCEPT ![g] = offer]
  /\ UNCHANGED <<cart, held, paying, units, wishlist>>

CartNext ==
  \/ \E s \in Shoppers, g \in Goods, n \in 1..MaxLine : AddItem(s, g, n)
  \/ \E s \in Shoppers, g \in Goods, n \in 1..MaxLine : UpdateItem(s, g, n)
  \/ \E s \in Shoppers, g \in Goods : RemoveItem(s, g)
  \/ \E s \in Shoppers : ClearCart(s)
  \/ \E s \in Shoppers, guest \in [Goods -> 0..MaxLine] : MergeCart(s, guest)
  \/ \E s \in Shoppers, g \in Goods : AddWish(s, g)
  \/ \E s \in Shoppers, g \in Goods : RemoveWish(s, g)
  \/ \E s \in Shoppers, g \in Goods, n \in 1..MaxLine, drop \in BOOLEAN : MoveToCart(s, g, n, drop)
  \/ \E s \in Shoppers : StartCheckout(s)
  \/ \E s \in Shoppers : Pay(s)
  \/ \E s \in Shoppers : ReleaseHold(s)
  \/ \E s \in Shoppers : SellHold(s)
  \/ \E g \in Goods, n \in 1..MaxLine : SellLate(g, n)
  \/ \E g \in Goods, n \in 0..MaxUnits : SetUnits(g, n)
  \/ \E g \in Goods, offer \in Offer : ChangeOffer(g, offer)

CartSpec == CartInit /\ [][CartNext]_cartVars

-----------------------------------------------------------------------------
(* What must hold *)

CartTypeOK ==
  /\ cart \in [Shoppers -> Lines]
  /\ held \in [Shoppers -> Lines]
  /\ paying \subseteq Shoppers
  /\ units \in [Goods -> 0..MaxUnits]
  /\ offered \in [Goods -> Offer]
  /\ wishlist \in [Shoppers -> SUBSET Goods]

\* Whichever way a line grows (added, changed, merged, moved from the wishlist),
\* it never exceeds what the others leave: the shopper could check it out then.
RaisedWithinStock ==
  [][\A s \in Shoppers, g \in Goods : cart'[s][g] > cart[s][g] => cart'[s][g] <= Available(s, g)]_cartVars
=============================================================================
