SPECIFICATION FulfilmentSpec
CONSTANTS
  Parcels = {b1}
  Clerks = {d1, d2}
  Awbs = {n1, n2}
  VendorOf <- MCVendorOf
  Missing = Missing
PROPERTY TerminalIsFinal
CHECK_DEADLOCK FALSE
