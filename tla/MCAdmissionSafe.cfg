CONSTANTS
  ca = ca
  cb = cb
  cc = cc
  a1 = a1
  a2 = a2
  a3 = a3
  b1 = b1
  c1 = c1
  NoMessage = NoMessage
  Subject = {"mixed", "erase", "contention"}
  Conversation = {ca, cb, cc}
  Ilink = {ca, cb}
  Message = {a1, a2, a3, b1, c1}
  ConversationOf <- Owners
  Order <- Numbers
  Live = {a2, a3, b1, c1}
  Unsupported = {a2}
  MaxConcurrent = 1
  MaxTries = 2
  MaxRetries = 1
  MaxStops = 1
  Deletable = {ca}
SPECIFICATION MCSpec
INVARIANTS
  WaitersAreServed
  OnePlaceInLine
  NoIdleSlot
  AnsweredNeverReplayed
PROPERTIES
  LiveInputFirst
CHECK_DEADLOCK FALSE
