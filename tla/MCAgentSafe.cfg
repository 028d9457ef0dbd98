CONSTANTS
  t1 = t1
  q1 = q1
  Request = {r1, r2}
  MaxRuns = 2
  MaxMessages = 2
  MaxRevocations = 2
  Subject = {"calls", "runs", "garbled", "approvals"}
SYMMETRY Symmetry
SPECIFICATION MCSpec
INVARIANTS
  ApprovalsHold
  ClientEndsWell
PROPERTIES
  GrantIsCurrent
CHECK_DEADLOCK FALSE
