CONSTANTS
  p1 = p1
  p2 = p2
  p3 = p3
  ghost = ghost
  c1 = c1
  c2 = c2
  c3 = c3
  NoClient = NoClient
  a1 = a1
  a2 = a2
  u1 = u1
  u2 = u2
  NoSource = NoSource
  Session = {s1}
  Peer = {w1}
  Account = {x1}
  MaxAccounts = 2
  MaxOffers = 2
  MaxClosings = 1
  MaxDeletions = 0
  Subject = {"alone", "daemon", "ipc", "lone", "single", "offers"}
SPECIFICATION MCSpec
PROPERTIES
  StopsAndUpdatesEnd
CHECK_DEADLOCK FALSE
