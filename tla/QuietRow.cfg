SPECIFICATION Spec
CONSTANTS
  Workers = {w1, w2}
  Handlers = {h1}
  MaxTools = 1
  MaxPrereqs = 0
  RecentRows = 5
  Hazards = {"cli"}
SYMMETRY Symmetry
INVARIANTS QuietScanIsNotRunning OneTester
CHECK_DEADLOCK FALSE
