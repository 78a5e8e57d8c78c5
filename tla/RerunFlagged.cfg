SPECIFICATION Spec
CONSTANTS
  Tools = {"http_client", "gobuster_dir", "xss_adaptive"}
  Programs = {}
  Requests <- FullRequest
INVARIANTS FlagIsDeserved
CHECK_DEADLOCK FALSE
