SPECIFICATION Spec
CONSTANTS
  u1 = u1
  u2 = u2
  s1 = s1
  s2 = s2
  v1 = v1
  v2 = v2
  Users = {u1, u2}
  Variants = {v1}
  Sessions = {s1, s2}
  Owner <- MCTwoUsers
  Carts <- MCUnit
  InitialStock <- MCLastUnit
  MaxStock = 1
  ReservationTTL = 1
  PaymentTTL = 2
  LastStart = 2
  MaxEvents = 2
INVARIANTS
  TypeOK
  AwaitedPaymentIsHeld
  MoneyAccounted
  EveryUnitAccountedFor
PROPERTIES
  OnlyLateCaptureEatsAHold
  HoldInTimeIsHonoured
  CancelledIsFinal
  PaidIsFinal
  ImplementsSettlement
