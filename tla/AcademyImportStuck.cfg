SPECIFICATION Spec
CONSTANTS
  Sources = {f1, f2}
  ImportPlan = import_plan_latest
  ImportId = import_id
  Teachers = {t1}
  Agent = agent
  NoPlan = NoPlan
  Nobody = Nobody
  Procs = {c1}
  MaxActive = 1
  MaxRuns = 4
  MaxKills = 1
  NoSource = NoSource
CHECK_DEADLOCK FALSE
INVARIANT BlockCanBeResolved
