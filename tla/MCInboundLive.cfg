CONSTANTS
  pa = pa
  pb = pb
  w1 = w1
  w2 = w2
  ca = ca
  cb = cb
  x1 = x1
  x2 = x2
  a1 = a1
  b1 = b1
  a2 = a2
  NoMessage = NoMessage
  Account = {w1, w2}
  Length = 2
  Conversation = {ca, cb}
  ConversationOf <- Alternating
  Missed <- MissedInDowntime
  PageSize = 1
  MaxPages = 3
  MaxRequests = 2
  MaxFailures = 0
  MaxStops = 1
  Subject = {"downtime", "failing", "notices", "in line", "broken", "crashing"}
SPECIFICATION MCSpec
PROPERTIES
  MessagesAreHanded
  NothingIsStranded
  MessagesAreDelivered
CHECK_DEADLOCK FALSE
