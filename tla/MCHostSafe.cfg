CONSTANTS
  p1 = p1
  p2 = p2
  p3 = p3
  ghost = ghost
  c1 = x1
  c2 = x2
  c3 = c3
  NoClient = NoClient
  a1 = a1
  a2 = a2
  u1 = x1
  u2 = x2
  NoSource = NoSource
  Session = {y1, y2}
  Peer = {w1}
  Account = {x1, x2}
  MaxAccounts = 1
  MaxOffers = 2
  MaxClosings = 1
  MaxDeletions = 1
  Subject = {"alone", "contend", "faulty", "ipc", "clients", "accounts", "races", "deaths", "offers"}
SYMMETRY Symmetry
SPECIFICATION MCSpec
INVARIANTS
  CommitmentsAreKept
  LockIsKept
  AccountLimit
  OffersAreFollowed
PROPERTIES
  OffersChangeSoundly
  EndsAreOrderly
CHECK_DEADLOCK FALSE
