SPECIFICATION Spec
CONSTANTS
  Tools = {"http_client", "crawler", "katana", "xss_adaptive", "rate_limit_planner"}
  Programs = {"katana"}
  Requests <- AnyRequest
INVARIANTS PlanTypeOK RerunsAreAccepted ConsentIsGiven
PROPERTIES PlansRepeat RecordedAreChosen
CHECK_DEADLOCK FALSE
