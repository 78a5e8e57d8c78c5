SPECIFICATION Spec
CONSTANTS
  Workers = {w1, w2}
  Handlers = {h1, h2}
  MaxTools = 1
  MaxPrereqs = 0
  RecentRows = 5
  Hazards = {}
SYMMETRY Symmetry
INVARIANT ErrorMeansNobodyTests
CHECK_DEADLOCK FALSE
