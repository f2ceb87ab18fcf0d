----------------------------- MODULE MCCheckout -----------------------------
(* Instances of Checkout for TLC. *)
EXTENDS CheckoutSettlement, TLC

CONSTANTS u1, u2, s1, s2, v1, v2

\* Two users compete, or one user comes back with a second checkout.
MCTwoUsers == (s1 :> u1) @@ (s2 :> u2)
MCOneUser == (s1 :> u1) @@ (s2 :> u1)

\* One variant: one unit, or two.
MCCarts1 == {(v1 :> 1), (v1 :> 2)}
MCUnit == {(v1 :> 1)}
MCStock1 == (v1 :> 2)
MCLastUnit == (v1 :> 1)

\* Two variants: a line each, and a cart with both.
MCCarts2 == {(v1 :> 1) @@ (v2 :> 0), (v1 :> 0) @@ (v2 :> 1), (v1 :> 1) @@ (v2 :> 1)}
MCStock2 == (v1 :> 1) @@ (v2 :> 1)

\* The two checkout rows of one user are interchangeable.
MCSymmetry == Permutations({s1, s2})
=============================================================================
