-------------------------------- MODULE MCShop --------------------------------
(***************************************************************************)
(* One instance for TLC of the components that share no row with each      *)
(* other here: which of them runs is chosen at the start, and the others   *)
(* stay as they start.  Each is explored as if it were alone.              *)
(***************************************************************************)
EXTENDS UserSync, CategoryTree, ProductLifecycle, ProductImages, MCImportJob, Cart,
        MCFulfilment, LegacyOrders, CredentialCaches, Reports, TLC

VARIABLE area   \* the component that runs

Areas ==
  {"users", "categories", "product", "images", "import", "cart", "fulfilment", "legacy",
   "caches", "reports"}

ShopInit ==
  /\ area \in Areas
  /\ Init /\ CategoryInit /\ ProductInit /\ ImagesInit /\ ImportInit /\ CartInit
  /\ FulfilmentInit /\ LegacyInit /\ CachesInit /\ ReportsInit
  /\ area # "import" => catalogue = {}
  /\ area # "caches" => clock = 0
  /\ area # "cart" => \A g \in Goods : units[g] = 0

OnlyUsers ==
  /\ area = "users"
  /\ UNCHANGED <<area, categoryVars, productVars, imageVars, importVars, cartVars,
       fulfilmentVars, legacyVars, cacheVars, reportVars>>

OnlyCategories ==
  /\ area = "categories"
  /\ UNCHANGED <<area, vars, productVars, imageVars, importVars, cartVars,
       fulfilmentVars, legacyVars, cacheVars, reportVars>>

OnlyProduct ==
  /\ area = "product"
  /\ UNCHANGED <<area, vars, categoryVars, imageVars, importVars, cartVars,
       fulfilmentVars, legacyVars, cacheVars, reportVars>>

OnlyImages ==
  /\ area = "images"
  /\ UNCHANGED <<area, vars, categoryVars, productVars, importVars, cartVars,
       fulfilmentVars, legacyVars, cacheVars, reportVars>>

OnlyImport ==
  /\ area = "import"
  /\ UNCHANGED <<area, vars, categoryVars, productVars, imageVars, cartVars,
       fulfilmentVars, legacyVars, cacheVars, reportVars>>

OnlyCart ==
  /\ area = "cart"
  /\ UNCHANGED <<area, vars, categoryVars, productVars, imageVars, importVars,
       fulfilmentVars, legacyVars, cacheVars, reportVars>>

OnlyFulfilment ==
  /\ area = "fulfilment"
  /\ UNCHANGED <<area, vars, categoryVars, productVars, imageVars, importVars, cartVars,
       legacyVars, cacheVars, reportVars>>

OnlyLegacy ==
  /\ area = "legacy"
  /\ UNCHANGED <<area, vars, categoryVars, productVars, imageVars, importVars, cartVars,
       fulfilmentVars, cacheVars, reportVars>>

OnlyCaches ==
  /\ area = "caches"
  /\ UNCHANGED <<area, vars, categoryVars, productVars, imageVars, importVars, cartVars,
       fulfilmentVars, legacyVars, reportVars>>

OnlyReports ==
  /\ area = "reports"
  /\ UNCHANGED <<area, vars, categoryVars, productVars, imageVars, importVars, cartVars,
       fulfilmentVars, legacyVars, cacheVars>>

ShopNext ==
  \/ OnlyUsers /\ Next
  \/ OnlyCategories /\ CategoryNext
  \/ OnlyProduct /\ ProductNext
  \/ OnlyImages /\ ImagesNext
  \/ OnlyImport /\ ImportNext
  \/ OnlyCart /\ CartNext
  \/ OnlyFulfilment /\ FulfilmentNext
  \/ OnlyLegacy /\ LegacyNext
  \/ OnlyCaches /\ CachesNext
  \/ OnlyReports /\ ReportsNext

shopVars ==
  <<area, vars, categoryVars, productVars, imageVars, importVars, cartVars, fulfilmentVars,
    legacyVars, cacheVars, reportVars>>

ShopSpec == ShopInit /\ [][ShopNext]_shopVars

\* The rows of every component have the shape the schema gives them.
ShopTypeOK ==
  /\ TypeOK /\ CategoryTypeOK /\ ProductTypeOK /\ ImagesTypeOK /\ ImportTypeOK /\ CartTypeOK
  /\ FulfilmentTypeOK /\ LegacyTypeOK /\ CachesTypeOK /\ ReportsTypeOK

-----------------------------------------------------------------------------
(* The instance *)

Keep == [parent |-> Unset, url |-> Unset, pid |-> Unset]

\* Every move, every change of a picture, whole or not.
MCBodies ==
  {[Keep EXCEPT !.parent = p] : p \in Cats \cup {None}}
    \cup {[Keep EXCEPT !.url = u, !.pid = i] :
            u \in Assets \cup {None, Unset}, i \in Assets \cup {None, Unset}}

\* Days of two hours; the week starts on the second, the month before the first.
MCCalendar == [day |-> 0..1, week |-> {-1, 1}, month |-> {0}]

\* Every product is filed under every category.
MCFiled == [p \in Models |-> Sections]

\* A range that cuts a day and a week.
MCRanges == {<<1, 3>>}

\* Orders differ in nothing before they are placed.
MCSymmetry == Permutations(Bills)
=============================================================================
