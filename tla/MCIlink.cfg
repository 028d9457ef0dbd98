CONSTANTS
  Message = {m1, m2}
  NoMessage = NoMessage
  Attempt = {t1, t2}
  MaxSends = 1
  SystemKind = {"queue_notice", "agent_approval"}
  MaxGeneration = 2
  ProviderSeq <- Numbered
  SentAt <- NoNumber
  NumericId <- NoNumber
  Page <- Apart
  Call = {c1, c2}
  CallKind = {"text", "image"}
  m1 = m1
  m2 = m2
  m3 = m3
  Subject = {"images", "line", "pages"}
SYMMETRY Symmetry
SPECIFICATION MCSpec
INVARIANTS
  SendsAreAccounted
PROPERTIES
  HandedOverInContext
  StepsAreSound
CHECK_DEADLOCK FALSE
