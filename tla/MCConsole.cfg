SPECIFICATION Spec
CONSTANTS
  p1 = p1
  p2 = p2
  c1 = c1
  c2 = c2
  Pages = {p1, p2}
  Configs = {c1, c2}
  MaxStarts = 3
  MaxClicks = 3
SYMMETRY Symmetry
INVARIANTS
  ShowsWhatRuns
PROPERTIES
  ErrorsChangeNothing
CHECK_DEADLOCK FALSE
