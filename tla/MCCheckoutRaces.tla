--------------------------- MODULE MCCheckoutRaces ---------------------------
(* Instances of CheckoutRaces for TLC: every handler of one order. *)
EXTENDS CheckoutRaces, TLC

CONSTANTS u1, s1, v1, v2, w1, w2

MCOwner == (s1 :> u1)

\* One variant with a unit to spare.
MCUnit == {(v1 :> 1)}
MCSpareUnit == (v1 :> 2)

\* Two variants with one unit each.
MCCarts == {(v1 :> 1) @@ (v2 :> 0), (v1 :> 1) @@ (v2 :> 1)}
MCOneOfEach == (v1 :> 1) @@ (v2 :> 1)

MCSymmetry == Permutations({w1, w2})
=============================================================================
