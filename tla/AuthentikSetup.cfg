SPECIFICATION Spec
CHECK_DEADLOCK FALSE
CONSTANTS
  Frames = {"whoami", "landing"}
  Labels = {"whoami", "wiki"}
  Others = {"shop"}
  Grafana = "grafana"
  LdapEnabled = TRUE
  MAX_RETRIES = 3
  MaxPassword = 1
  MaxRuns = 2
  MaxFaults = 3
  None = None
INVARIANTS BootstrapIsComplete CleanRunIsComplete SourceFollowsSecret
PROPERTY AssignmentsKept
