SPECIFICATION Spec
CONSTANTS
  u1 = u1
  u2 = u2
  s1 = s1
  s2 = s2
  v1 = v1
  v2 = v2
  Users = {u1}
  Variants = {v1, v2}
  Sessions = {s1, s2}
  Owner <- MCOneUser
  Carts <- MCCarts2
  InitialStock <- MCStock2
  MaxStock = 0
  ReservationTTL = 1
  PaymentTTL = 1
  LastStart = 1
  MaxEvents = 2
INVARIANTS
  OneLiveSession
  RowsFollowSession
  OrderMatchesHold
SYMMETRY MCSymmetry
