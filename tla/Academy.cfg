SPECIFICATION AcademySpec
CONSTANTS
  \* imports
  Sources = {f1, f2}
  ImportPlan = import_plan_latest
  ImportId = import_id
  Teachers = {t1}
  Agent = agent
  NoPlan = NoPlan
  Nobody = Nobody
  Procs = {p1, p2}
  MaxActive = 2
  MaxRuns = 4
  MaxKills = 1
  NoSource = NoSource
  \* write actions
  r1 = r1
  r2 = r2
  r3 = r3
  c1 = c1
  a = a
  b = b
  Runs = {r1, r2, r3}
  Template <- MCTemplate
  ClassOf <- MCClassOf
  Payload <- MCPayload
  Classes = {c1}
  KnownClasses = {c1}
  Students = {a, b}
  Enrolled <- MCEnrolled
  MaxSeconds = 2
  MaxTrouble = 1
SYMMETRY Symmetry
INVARIANTS AppliedMeansMerged BackupOneImportOld MergesAccountedFor
PROPERTIES  BackupUndoes
CHECK_DEADLOCK FALSE
