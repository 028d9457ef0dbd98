CONSTANTS
  Account = {x1, x2}
  Length = 2
  MaxChanges = 3
  MaxFailures = 1
  MaxStops = 1
  ca = ca
  cb = cb
  m1 = m1
  m2 = m2
  m3 = m3
  n1 = n1
  NoMessage = NoMessage
  Subject = {"changes", "pair", "faulty", "parallel"}
SYMMETRY Symmetry
SPECIFICATION MCSpec
INVARIANTS
  CursorMatchesInbox
  OneListenerPerAccount
  SlotsAreShared
CHECK_DEADLOCK FALSE
