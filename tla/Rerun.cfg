SPECIFICATION FairRun
CONSTANTS
  u1 = u1
  u2 = u2
  Users <- TwoUsers
  Selections <- Rerun
  Profiles = {"destructive-full-scan"}
  Configured = FALSE
  PublicInputs = FALSE
INVARIANTS ToolTypeOK AuthorizationNeedsTwoUsers EveryToolIsAnsweredFor FirstRunIsNotFlagged
PROPERTY RunEnds
CHECK_DEADLOCK FALSE
