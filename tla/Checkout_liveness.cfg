SPECIFICATION FairSpec
CONSTANTS
  u1 = u1
  u2 = u2
  s1 = s1
  s2 = s2
  v1 = v1
  v2 = v2
  Users = {u1, u2}
  Variants = {v1}
  Sessions = {s1, s2}
  Owner <- MCTwoUsers
  Carts <- MCUnit
  InitialStock <- MCLastUnit
  MaxStock = 0
  ReservationTTL = 1
  PaymentTTL = 1
  LastStart = 1
  MaxEvents = 2
PROPERTIES
  EveryCheckoutEnds
  EveryOrderIsDecided
  EveryCaptureIsRecorded
