SPECIFICATION RacesSpec
CONSTANTS
  u1 = u1
  s1 = s1
  v1 = v1
  v2 = v2
  w1 = w1
  w2 = w2
  Users = {u1}
  Variants = {v1, v2}
  Sessions = {s1}
  Owner <- MCOwner
  Carts <- MCCarts
  InitialStock <- MCOneOfEach
  MaxStock = 0
  ReservationTTL = 1
  PaymentTTL = 1
  LastStart = 1
  MaxEvents = 2
  Workers = {w1, w2}
  Racing = {"captured", "failed", "admin_cancel", "pay"}
SYMMETRY MCSymmetry
INVARIANTS
  TypeOK
  RowsFollowSession
  AwaitedPaymentIsHeld
  NothingWithoutMoney
