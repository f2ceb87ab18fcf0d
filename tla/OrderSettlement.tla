--------------------------- MODULE OrderSettlement ---------------------------
(***************************************************************************)
(* What the checkout promises about orders and stock, without sessions,    *)
(* reservations, payment rows or events: every order is settled at most    *)
(* once, a sale takes goods that are on the shelf, and a capture that is   *)
(* not a sale is a refund owed, for a withdrawn order or an empty shelf.   *)
(***************************************************************************)
EXTENDS Integers

CONSTANTS
  Orders,         \* what may be ordered
  Variants,       \* product variants
  InitialStock    \* units on the shelf at the start

VARIABLES
  onHand,    \* units on the shelf
  lines,     \* units an order asks for
  outcome    \* what became of an order

settlementVars == <<onHand, lines, outcome>>

Outcomes == {"none", "pending", "lapsed", "withdrawn", "sold", "returned", "refund"}
Unsettled == {"pending", "lapsed"}

Init ==
  /\ onHand = InitialStock
  /\ lines = [o \in Orders |-> [v \in Variants |-> 0]]
  /\ outcome = [o \in Orders |-> "none"]

OnShelf(o) == \A v \in Variants : lines[o][v] <= onHand[v]

Become(o, to) == outcome' = [outcome EXCEPT ![o] = to]

\* An order is only accepted for goods that are on the shelf.
Place(o) ==
  /\ outcome[o] = "none" /\ Become(o, "pending")
  /\ lines' = [lines EXCEPT ![o] = lines'[o]]
  /\ lines'[o] \in [Variants -> Nat]
  /\ \A v \in Variants : lines'[o][v] <= onHand[v]
  /\ UNCHANGED onHand

\* Payments that failed or never came: they may still come.
Lapse(O) ==
  /\ \A o \in O : outcome[o] = "pending"
  /\ outcome' = [o \in Orders |-> IF o \in O THEN "lapsed" ELSE outcome[o]]
  /\ UNCHANGED <<onHand, lines>>

Withdraw(o) ==
  /\ outcome[o] \in Unsettled /\ Become(o, "withdrawn")
  /\ UNCHANGED <<onHand, lines>>

Sell(o) ==
  /\ outcome[o] \in Unsettled /\ OnShelf(o) /\ Become(o, "sold")
  /\ onHand' = [v \in Variants |-> onHand[v] - lines[o][v]]
  /\ UNCHANGED lines

OweRefund(o) ==
  /\ outcome[o] = "withdrawn" \/ (outcome[o] \in Unsettled /\ ~OnShelf(o))
  /\ Become(o, "refund")
  /\ UNCHANGED <<onHand, lines>>

Return(o) ==
  /\ outcome[o] = "sold" /\ Become(o, "returned")
  /\ onHand' = [v \in Variants |-> onHand[v] + lines[o][v]]
  /\ UNCHANGED lines

\* A stock count may find any number of units.
Adjust(v) ==
  /\ onHand'[v] \in Nat /\ onHand' = [onHand EXCEPT ![v] = onHand'[v]]
  /\ UNCHANGED <<lines, outcome>>

Next ==
  \/ \E o \in Orders :
       \/ Place(o) \/ Withdraw(o) \/ Sell(o) \/ OweRefund(o) \/ Return(o)
  \/ \E O \in SUBSET Orders : Lapse(O)
  \/ \E v \in Variants : Adjust(v)

Spec == Init /\ [][Next]_settlementVars
=============================================================================
