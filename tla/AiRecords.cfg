SPECIFICATION FairSpec
CONSTANTS
  Callers = {c1}
  MaxAttempts = 3
  PerAttempt = 2
  Ready = 1
  Slack = 1
  Connect = 1
  Backoff = 3
  Cap = 1
  MaxCalls = 2
  Faults = {"kill"}
INVARIANTS AiTypeOK RowsHaveTraces CapHolds IndexListsCalls BudgetHeld
PROPERTY CallsAreRecorded
CHECK_DEADLOCK FALSE
