SPECIFICATION Spec
CONSTANTS
  Size = 3
  Rounds = 2
  Programs = {"simpclient", "simpclient -abort", "simpdmodex", "simpdmodex async", "simppub",
              "simptimeout", "simpdyn", "simpdie", "simpft", "simplegacy", "simptool", "jctrl",
              "dmodex", "test_fence", "test_job_fence", "test_publish", "test_cd", "test_replace",
              "test_spawn", "test_resolve_peers", "test_internal", "test_error", "pmi_client", "pmi2_client"}
INVARIANTS
  NoFalseAlarm
  OwnersStay
  FailureReported
PROPERTIES
  FencesPair
  AllLeave
CHECK_DEADLOCK FALSE
