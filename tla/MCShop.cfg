SPECIFICATION ShopSpec
CONSTANTS
  Accounts = {a1, a2}
  Emails = {e1, e2}
  Roles = {customer, admin}
  Workers = {w1}
  MaxEvents = 4
  Cats = {c1, c2, c3}
  Assets = {p1}
  Bodies <- MCBodies
  Admins = {r1}
  MaxDepth = 3
  None = None
  Unset = Unset
  Variants = {v1, v2}
  Shelves = {s1}
  StatusRequests = {q1, q2}
  MaxStock = 1
  MaxPublications = 2
  Owners = {o1, o2}
  Pictures = {i1, i2}
  ImageIds = {m1, m2, m3}
  MaxPlace = 2
  Absent = Absent
  Keys = {k1, k2}
  Files <- MCFewFiles
  ChunkSize = 2
  MaxErrors = 1
  MaxLevel = 2
  Held = 1
  Shoppers = {x1, x2}
  Goods = {g1}
  MaxUnits = 2
  MaxLine = 2
  MaxLines = 1
  Parcels = {b1}
  Clerks = {d1, d2}
  Awbs = {n1, n2}
  VendorOf <- MCVendorOf
  Missing = Missing
  Tickets = {t1, t2}
  RequestKeys = {h1, h2}
  Posts = {j1, j2}
  Quantities = {1}
  FirstStock = 1
  Nothing = Nothing
  Callers = {l1, l2}
  Cutoff = 3
  Margin = 2
  Ttl = 1
  Lifetime = 2
  Timeout = 1
  Horizon = 3
  Bills = {f1, f2}
  Buyers = {y1}
  Guest = Guest
  Models = {z1}
  Sections = {section1, section2}
  Filed <- MCFiled
  HoursADay = 2
  Calendar <- MCCalendar
  LastHour = 3
  Ranges <- MCRanges
  Totals = {0, 2}
SYMMETRY MCSymmetry
INVARIANTS
  ShopTypeOK
  RowsAreWhole
  MirrorsLastEvent
  NoCycle
  PictureIsWhole
  StampKept
  PageAgrees
  OnePrimaryPicture
  TallyAddsUp
  ReportedNotStored
  DeliveredIsPaid
  ReturnedHadLeft
  OncePerKey
  TokenAlive
  TilesReconcile
  CustomersReconcile
  OverviewHoldsTogether
PROPERTIES
  CorrectionIsTold
  RaisedWithinStock
CHECK_DEADLOCK FALSE
