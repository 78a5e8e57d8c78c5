SPECIFICATION FairSpec
CONSTANTS
  Workers = {w1}
  Handlers = {h1}
  MaxTools = 2
  MaxPrereqs = 1
  RecentRows = 5
  Hazards = {"cli"}
INVARIANT HoldBound
PROPERTIES StoppingSettles VerdictOutlivesHeartbeat
CHECK_DEADLOCK FALSE
