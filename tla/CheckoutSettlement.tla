------------------------- MODULE CheckoutSettlement -------------------------
(* The reservation checkout implements OrderSettlement. *)
EXTENDS Checkout

\* What an order row and its payment row amount to.
Outcome(s) ==
  IF order[s].status = "none" THEN "none"
  ELSE IF payment[s].refund THEN "refund"
  ELSE IF order[s].pay = "paid" THEN (IF order[s].status = "cancelled" THEN "returned" ELSE "sold")
  ELSE IF order[s].status = "cancelled" THEN "withdrawn"
  ELSE IF order[s].pay = "failed" THEN "lapsed"
  ELSE "pending"

Settlement ==
  INSTANCE OrderSettlement WITH
    Orders <- Sessions,
    onHand <- stock,
    lines <- [s \in Sessions |-> order[s].items],
    outcome <- [s \in Sessions |-> Outcome(s)]

\* Whatever requests, events, sweeps and admins do, and in whatever order, an
\* order is settled once, and only as OrderSettlement allows.
ImplementsSettlement == Settlement!Spec
=============================================================================
