SPECIFICATION Spec
CONSTANTS
  Workers = {w1}
  Handlers = {h1}
  MaxTools = 2
  MaxPrereqs = 1
  RecentRows = 5
  Hazards = {"kill", "record", "restart", "terminal", "rollback", "latebeat"}
INVARIANTS TypeOK HoldBound
PROPERTY ToolsArePermitted
CHECK_DEADLOCK FALSE
