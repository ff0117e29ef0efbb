SPECIFICATION Spec
CONSTANTS
  b1 = b1
  b2 = b2
  panel = panel
  d1 = d1
  d2 = d2
  broken = broken
  old = old
  p1 = p1
  p2 = p2
  Blocks = {b1, b2}
  Views = {panel}
  ViewOf <- MCViewOf
  Designs = {d1, d2, broken, old}
  DesignOf <- MCDesignOf
  Good = {d1, d2}
  Former = {old}
  Procs = {p1, p2}
  MaxTrouble = 1
SYMMETRY Symmetry
INVARIANTS OnlyVerifiedIsInstalled
PROPERTIES ActivatedOnce DeprecateRestores
CHECK_DEADLOCK FALSE
