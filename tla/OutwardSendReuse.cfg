SPECIFICATION Spec
CONSTANTS
  s1 = s1
  s2 = s2
  s3 = s3
  p1 = p1
  p2 = p2
  p3 = p3
  a1 = a1
  a2 = a2
  Sends = {s1, s2, s3}
  Plans = {p1, p2, p3}
  ApprovalIds = {a1, a2}
  PlanOf <- MCPlanOf
  IdOf <- MCIdOf
  Teachers = {t1}
  Agent = agent
  NoPlan = NoPlan
  Nobody = Nobody
  NoSend = NoSend
  NoId = NoId
  Procs = {c1}
  MaxActive = 1
  MaxRuns = 4
  MaxDeaths = 1
CHECK_DEADLOCK FALSE
INVARIANT SingleUse
