CONSTANTS
  pa = pa
  pb = pb
  k1 = k1
  k2 = k2
  w1 = w1
  w2 = w2
  ca = ca
  cb = cb
  Messages = 2
  Peer = {pa}
  Account = {1}
  PeerOf <- PeerOfTurns
  AccountOf <- AccountOfTurns
  Trigger = {}
  Known = {pa}
  Required = 1
  Budget = 2
  Call = {k1, k2}
  Waits = {}
  Closes = FALSE
  MaxSessions = 2
  MaxExpiries = 0
  MaxInterrupts = 0
  MaxReports = 0
  MaxCrashes = 0
  Subject = {"turns", "expiring", "crash", "notices", "closing", "auth", "pages", "slots"}
SYMMETRY Symmetry
SPECIFICATION MCSpec
INVARIANTS
  OutboxIsServed
  AnsweredBeforePutAway
  HandedOverOnce
  ReportedFailureSticks
PROPERTIES
  SendsAreCurrent
  ServedInOrder
CHECK_DEADLOCK FALSE
