----------------------------- MODULE Shop_proofs -----------------------------
(* The instance MCShop puts components side by side.  A run of it is a        *)
(* behaviour of every component's own specification, so that the types proved *)
(* of each component are those of the whole, for every value of the constants.*)
EXTENDS MCShop, Catalogue_proofs, Orders_proofs, Identity_proofs, Reports_proofs

\* The shop starts as each of its components does.
LEMMA EachStarts ==
  ShopInit => /\ Init /\ CategoryInit /\ ProductInit /\ ImagesInit /\ ImportInit /\ CartInit
              /\ FulfilmentInit /\ LegacyInit /\ CachesInit /\ ReportsInit
BY DEF ShopInit

\* A step of the shop is a step of one component; the others stay as they are.
LEMMA EachSteps ==
  [ShopNext]_shopVars =>
    /\ [Next]_vars /\ [CategoryNext]_categoryVars /\ [ProductNext]_productVars
    /\ [ImagesNext]_imageVars /\ [ImportNext]_importVars /\ [CartNext]_cartVars
    /\ [FulfilmentNext]_fulfilmentVars /\ [LegacyNext]_legacyVars /\ [CachesNext]_cacheVars
    /\ [ReportsNext]_reportVars
BY DEF ShopNext, shopVars, OnlyUsers, OnlyCategories, OnlyProduct, OnlyImages, OnlyImport,
       OnlyCart, OnlyFulfilment, OnlyLegacy, OnlyCaches, OnlyReports

\* Putting the components side by side adds nothing to what any of them does.
LEMMA ShopIsItsParts ==
  ShopSpec => /\ Spec /\ CategorySpec /\ ProductSpec /\ ImagesSpec /\ ImportSpec /\ CartSpec
              /\ FulfilmentSpec /\ LegacySpec /\ CachesSpec /\ ReportsSpec
BY EachStarts, EachSteps, PTL
   DEF ShopSpec, Spec, CategorySpec, ProductSpec, ImagesSpec, ImportSpec, CartSpec,
       FulfilmentSpec, LegacySpec, CachesSpec, ReportsSpec

\* The rows of all components keep the shape the schema gives them.
THEOREM ShopTypes == ShopSpec => []ShopTypeOK
<1>1. /\ TypeOK /\ CategoryTypeOK /\ ProductTypeOK /\ ImagesTypeOK /\ ImportTypeOK /\ CartTypeOK
      /\ FulfilmentTypeOK /\ LegacyTypeOK /\ CachesTypeOK /\ ReportsTypeOK
      => ShopTypeOK
  BY DEF ShopTypeOK
<1>2. ReportsInv => ReportsTypeOK
  BY DEF ReportsInv
<1> QED BY <1>1, <1>2, ShopIsItsParts, MirrorTypes, CategoryTypes, ProductTypeCorrect, ImagesTypes,
           ImportTypeCorrect, CartTypeCorrect, FulfilmentTypes, LegacyTypes, CachesTypeCorrect,
           ReportsInvariance, PTL
=============================================================================
