CONSTANTS
  m1 = m1
  m2 = m2
  NoMessage = NoMessage
  Message = {m1, m2}
  Attempt = {a1, a2, a3}
  MaxSends = 2
  SystemKind = {"queue_notice", "agent_approval"}
  MaxGeneration = 2
  ProviderSeq <- NoProviderSeq
  SentAt <- SameTime
  NumericId <- MCNumericId
  Page <- AllPages
  Subject = {"turns", "quota", "rotation"}
SYMMETRY RowSymmetry
SPECIFICATION MCSpec
INVARIANTS
  TypeOK
  ReservationsCovered
  OwnerIsDelivered
  SessionKeepsWindow
  BudgetHolds
  PlacesComeBack
PROPERTIES
  SendsAreFresh
  ContractSpec
