CONSTANTS
  MaxRuns = 2
  MaxSteers = 2
  MaxTools = 2
  t1 = t1
  q1 = q1
  r1 = r1
  r2 = r2
  m1 = m1
  NoMessage = NoMessage
  c1 = c1
  c2 = c2
  a1 = a1
  a2 = a2
  Subject = {"steered", "repeated", "calls", "approvals", "returns"}
SPECIFICATION MCSpec
INVARIANTS
  AnswersFollowDirection
PROPERTIES
  TurnsAndCallsEnd
CHECK_DEADLOCK FALSE
