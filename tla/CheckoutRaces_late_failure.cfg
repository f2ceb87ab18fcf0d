SPECIFICATION RacesSpec
CONSTANTS
  u1 = u1
  s1 = s1
  v1 = v1
  v2 = v2
  w1 = w1
  w2 = w2
  Users = {u1}
  Variants = {v1}
  Sessions = {s1}
  Owner <- MCOwner
  Carts <- MCUnit
  InitialStock <- MCSpareUnit
  MaxStock = 2
  ReservationTTL = 1
  PaymentTTL = 2
  LastStart = 1
  MaxEvents = 2
  Workers = {w1, w2}
  Racing = {"failed"}
PROPERTY PaidIsFinal
