SPECIFICATION Spec
CONSTANTS
  p1 = p1
  p2 = p2
  a1 = a1
  a2 = a2
  Plans = {p1, p2}
  ApprovalIds = {a1, a2}
  IdOf <- MCIdOf
  Teachers = {t1}
  Agent = agent
  NoPlan = NoPlan
  Nobody = Nobody
  Procs = {c1, c2}
  MaxActive = 2
  MaxCommands = 5
  ReplaceWhileOpen = TRUE
  Torn = Torn
  Missing = Missing
  NoCommand = NoCommand
PROPERTY ImplementsLedger
CHECK_DEADLOCK FALSE
INVARIANTS UsedOnlyIfTyped
SYMMETRY Symmetry
