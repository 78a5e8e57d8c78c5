SPECIFICATION FairSpec
CONSTANTS
  Readers = {r1}
  Tools = {"authorization_matrix","account_provisioning"}
  Categories = {"Authorization"}
  Facts <- PlainFacts
  Results = {"finding_created", "execution_error", "completed"}
  MaxRows = 2
INVARIANTS PhaseTypeOK CasesAreSettled CoverageHasEvidence
PROPERTIES PhasesGoForward ReadyIsEarned RunningHeals
CHECK_DEADLOCK FALSE
