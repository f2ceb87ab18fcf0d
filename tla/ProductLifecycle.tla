-------------------------- MODULE ProductLifecycle --------------------------
(***************************************************************************)
(* One product, its variants and its place in the catalogue.  An admin     *)
(* creates it as a draft, gives it variants and categories, publishes and  *)
(* archives it; corrections of the stock flip it between published and     *)
(* unavailable.  A change of status reads the product without a lock and   *)
(* writes what it decided when it commits; the other requests are one step.*)
(*                                                                         *)
(* Products share nothing but the uniqueness of slugs and SKUs, so one is  *)
(* enough.  published_at is the number of the publication that set it.     *)
(***************************************************************************)
EXTENDS Integers, FiniteSets, FiniteSetsExt

CONSTANTS
  Variants,         \* product_variants.id of the product
  Shelves,          \* active categories it may be listed under
  StatusRequests,   \* lifecycle requests that may be in flight together
  MaxStock,         \* bound on a variant's stock
  MaxPublications   \* bound on the number of publications

ASSUME ProductAssumption ==
  /\ IsFiniteSet(Variants) /\ MaxStock \in Nat /\ MaxPublications \in Nat

VARIABLES
  product,        \* the row of products
  variant,        \* rows of product_variants with their inventory
  change,         \* what a lifecycle request has read and not yet written
  publications,   \* how often the product was published
  raced           \* history: two publications began before the first was committed

productVars == <<product, variant, change, publications, raced>>

Statuses == {"none", "draft", "published", "unavailable", "archived"}

ProductRow == [status : Statuses, published_at : 0..MaxPublications, shelves : SUBSET Shelves]

VariantRow == [made : BOOLEAN, is_active : BOOLEAN, is_default : BOOLEAN, stock : 0..MaxStock]

ChangeRow == [target : Statuses, published_at : 0..MaxPublications]

NoChange == [target |-> "none", published_at |-> 0]

NoVariant == [made |-> FALSE, is_active |-> FALSE, is_default |-> FALSE, stock |-> 0]

ProductInit ==
  /\ product = [status |-> "none", published_at |-> 0, shelves |-> {}]
  /\ variant = [v \in Variants |-> NoVariant]
  /\ change = [r \in StatusRequests |-> NoChange]
  /\ publications = 0
  /\ raced = FALSE

-----------------------------------------------------------------------------
(* What the catalogue shows *)

\* The rows a customer's list returns.
Listed == product.status \in {"published", "unavailable"}

\* The product page: drafts are unknown, archived products keep their page.
HasPage == product.status \notin {"none", "draft"}

\* The units of a variant a customer could still take, beside those held.
AvailableQuantity(v, held) == IF variant[v].made THEN Max({variant[v].stock - held, 0}) ELSE 0

\* Mutant: withdrawn variants are offered.
BuyableOnPage(v) == product.status = "published"

Buyable(v) == product.status = "published" /\ variant[v].is_active

\* The bucket shown instead of the number.
AvailabilityState(v, held) ==
  LET n == AvailableQuantity(v, held) IN
  IF ~Buyable(v) \/ variant[v].stock = 0 THEN "out_of_stock" ELSE
  CASE n = 0 -> "reserved"
    [] n = 1 -> "last_one"
    [] n \in 2..5 -> "selling_fast"
    [] n \in 6..10 -> "low"
    [] OTHER -> "in_stock"

\* The product as a whole is available when one of its variants is.
IsAvailable(held) ==
  /\ product.status = "published"
  /\ \E v \in Variants : variant[v].is_active /\ AvailableQuantity(v, held[v]) > 0

\* The admin's list: the stock and the number of all variants.
AggregateStock ==
  [total_stock |-> MapThenSumSet(LAMBDA v : variant[v].stock, Variants),
   variant_count |-> Cardinality({v \in Variants : variant[v].made})]

-----------------------------------------------------------------------------
(* Availability follows the stock *)

\* Mutant: the stock of withdrawn variants counts.
SumStock(rows) == MapThenSumSet(LAMBDA v : rows[v].stock, Variants)

SumActiveStock(rows) ==
  MapThenSumSet(LAMBDA v : rows[v].stock, {v \in Variants : rows[v].is_active})

\* recompute_product_availability
Recomputed(status, rows) ==
  CASE status = "published" /\ SumActiveStock(rows) = 0 -> "unavailable"
    [] status = "unavailable" /\ SumActiveStock(rows) > 0 -> "published"
    [] OTHER -> status

-----------------------------------------------------------------------------
(* The product *)

CreateProduct(new, shelves) ==
  /\ product.status = "none"
  /\ Cardinality({v \in Variants : new[v].is_default}) <= 1   \* the unique index
  /\ product' = [product EXCEPT !.status = "draft", !.shelves = shelves]
  /\ variant' = new
  /\ UNCHANGED <<change, publications, raced>>

\* A row of a products CSV: any status, no stamp, no variant.
ImportProduct(status) ==
  /\ product.status = "none" /\ status # "none"
  /\ product' = [product EXCEPT !.status = status]
  /\ UNCHANGED <<variant, change, publications, raced>>

SetCategories(shelves) ==
  /\ product.status # "none" /\ shelves # product.shelves
  /\ product' = [product EXCEPT !.shelves = shelves]
  /\ UNCHANGED <<variant, change, publications, raced>>

\* sync_catalog: a product of the canonical catalogue is put back on the shop
\* whatever became of it, its variants with the stock the catalogue gives them;
\* links are only added.  The rows are written one by one, the default first.
SyncProduct(given, first, stock, shelves) ==
  /\ first \in given
  /\ \A v \in Variants \ {first} : ~variant[v].is_default
  /\ product' = [product EXCEPT !.status = "published", !.shelves = @ \cup shelves]
  /\ variant' = [v \in Variants |->
       IF v \in given
       THEN [made |-> TRUE, is_active |-> TRUE, is_default |-> v = first, stock |-> stock]
       ELSE variant[v]]
  /\ UNCHANGED <<change, publications, raced>>

\* A product the canonical catalogue has dropped.
RetireProduct ==
  /\ product.status \notin {"none", "archived"}
  /\ product' = [product EXCEPT !.status = "archived"]
  /\ UNCHANGED <<variant, change, publications, raced>>

\* _assert_transition_allowed, and unarchive, which starts from archived only.
TransitionAllowed(from, to) ==
  /\ from # "none" /\ to \in {"draft", "published", "archived"} /\ to # from
  /\ ~(from = "archived" /\ to = "published")

HasActiveVariant == \E v \in Variants : variant[v].is_active

Publishing(r) == change[r].target = "published"

\* Publish, up to its writes.
BeginPublish(r) ==
  /\ change[r] = NoChange /\ publications < MaxPublications
  /\ TransitionAllowed(product.status, "published")
  /\ HasActiveVariant
  /\ change' = [change EXCEPT ![r] =
       [target |-> "published", published_at |-> product.published_at]]
  /\ raced' = (raced \/ (product.published_at = 0 /\ \E q \in StatusRequests : Publishing(q)))
  /\ UNCHANGED <<product, variant, publications>>

\* Unpublish and unarchive (to draft) and archive, up to their writes.
BeginHide(r, to) ==
  /\ change[r] = NoChange /\ to # "published"
  /\ TransitionAllowed(product.status, to)
  /\ change' = [change EXCEPT ![r] = [target |-> to, published_at |-> product.published_at]]
  /\ UNCHANGED <<product, variant, publications, raced>>

CommitPublish(r) ==
  /\ Publishing(r)
  /\ publications < MaxPublications
  /\ publications' = publications + 1
  /\ product' = [product EXCEPT !.status = "published",
       !.published_at = IF change[r].published_at = 0 THEN publications' ELSE @]
  /\ change' = [change EXCEPT ![r] = NoChange]
  /\ UNCHANGED <<variant, raced>>

\* Mutant: a product taken off the shop loses its stamp.
HideAndForget(r) ==
  /\ change[r].target \in {"draft", "archived"}
  /\ product' = [product EXCEPT !.status = change[r].target, !.published_at = 0]
  /\ change' = [change EXCEPT ![r] = NoChange]
  /\ UNCHANGED <<variant, publications, raced>>

CommitHide(r) ==
  /\ change[r].target \in {"draft", "archived"}
  /\ product' = [product EXCEPT !.status = change[r].target]
  /\ change' = [change EXCEPT ![r] = NoChange]
  /\ UNCHANGED <<variant, publications, raced>>

-----------------------------------------------------------------------------
(* Its variants *)

ClearDefaults(rows) == [v \in Variants |-> [rows[v] EXCEPT !.is_default = FALSE]]

AddVariant(v, active, default, stock) ==
  /\ product.status # "none" /\ ~variant[v].made
  /\ variant' = [(IF default THEN ClearDefaults(variant) ELSE variant) EXCEPT ![v] =
       [made |-> TRUE, is_active |-> active, is_default |-> default, stock |-> stock]]
  /\ UNCHANGED <<product, change, publications, raced>>

\* A PATCH of is_active and is_default; promoting clears the other default.
UpdateVariant(v, active, default) ==
  /\ variant[v].made
  /\ variant' = [(IF default /\ ~variant[v].is_default THEN ClearDefaults(variant) ELSE variant)
                   EXCEPT ![v] = [@ EXCEPT !.is_active = active, !.is_default = default]]
  /\ UNCHANGED <<product, change, publications, raced>>

DeactivateVariant(v) ==
  /\ variant[v].is_active
  /\ variant' = [variant EXCEPT ![v] = [@ EXCEPT !.is_active = FALSE, !.is_default = FALSE]]
  /\ UNCHANGED <<product, change, publications, raced>>

-----------------------------------------------------------------------------
(* Its stock *)

\* A captured payment takes units; the availability is left as it is.
Sell(v) ==
  /\ variant[v].stock > 0
  /\ variant' = [variant EXCEPT ![v].stock = @ - 1]
  /\ UNCHANGED <<product, change, publications, raced>>

\* An admin's correction, an import or the cancel of a paid order, each
\* followed by the recomputation in the same transaction.
Correct(v, stock) ==
  /\ variant[v].made /\ variant[v].stock # stock
  /\ variant' = [variant EXCEPT ![v].stock = stock]
  /\ product' = [product EXCEPT !.status = Recomputed(@, variant')]
  /\ UNCHANGED <<change, publications, raced>>

NewVariants ==
  {new \in [Variants -> {NoVariant} \cup
       [made : {TRUE}, is_active : BOOLEAN, is_default : BOOLEAN, stock : {0, MaxStock}]] :
     \E v \in Variants : new[v].made}

ProductNext ==
  \/ \E new \in NewVariants, shelves \in SUBSET Shelves : CreateProduct(new, shelves)
  \/ \E status \in Statuses : ImportProduct(status)
  \/ \E shelves \in SUBSET Shelves : SetCategories(shelves)
  \/ \E given \in SUBSET Variants, first \in Variants, stock \in 0..MaxStock, shelves \in SUBSET Shelves :
       SyncProduct(given, first, stock, shelves)
  \/ RetireProduct
  \/ \E r \in StatusRequests : BeginPublish(r)
  \/ \E r \in StatusRequests, to \in {"draft", "archived"} : BeginHide(r, to)
  \/ \E r \in StatusRequests : CommitPublish(r)
  \/ \E r \in StatusRequests : CommitHide(r)
  \/ \E v \in Variants, active, default \in BOOLEAN, stock \in 0..MaxStock :
       AddVariant(v, active, default, stock)
  \/ \E v \in Variants, active, default \in BOOLEAN : UpdateVariant(v, active, default)
  \/ \E v \in Variants : DeactivateVariant(v)
  \/ \E v \in Variants : Sell(v)
  \/ \E v \in Variants, stock \in 0..MaxStock : Correct(v, stock)

ProductSpec == ProductInit /\ [][ProductNext]_productVars

-----------------------------------------------------------------------------
(* What must hold *)

ProductTypeOK ==
  /\ product \in ProductRow
  /\ variant \in [Variants -> VariantRow]
  /\ change \in [StatusRequests -> ChangeRow]
  /\ publications \in 0..MaxPublications /\ raced \in BOOLEAN

\* "Only set published_at the FIRST time": the catalogue sorts by when the product
\* first went live, so that time stays however often it was hidden, dropped, sold
\* out and published again.  Publications that raced to be the first overwrite
\* each other's; some time stays even then.
StampKept ==
  publications > 0 => product.published_at # 0 /\ (~raced => product.published_at = 1)

\* The page's own verdict, worked out apart from its variants' buckets, is the
\* same as theirs; nothing is offered that has no page or no stock.
PageAgrees ==
  \A held \in [Variants -> 0..MaxStock] :
    /\ IsAvailable(held) <=>
         \E v \in Variants : AvailabilityState(v, held[v]) \notin {"out_of_stock", "reserved"}
    /\ IsAvailable(held) => HasPage /\ Listed /\ AggregateStock.total_stock > 0

\* After every correction of the stock the catalogue tells the truth about it.
CorrectionIsTold ==
  [][(\E v \in Variants, stock \in 0..MaxStock : Correct(v, stock)) =>
       /\ product'.status = "published" => \E v \in Variants : variant'[v].is_active /\ variant'[v].stock > 0
       /\ product'.status = "unavailable" => \A v \in Variants : variant'[v].is_active => variant'[v].stock = 0]_productVars
=============================================================================
