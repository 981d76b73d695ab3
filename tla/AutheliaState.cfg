CONSTANTS
  Clients = {grafana, forgejo}
  MaxValue = 2
  MaxEdits = 3
  MaxFaults = 2
  Rollback = FALSE
  None = None
SPECIFICATION Spec
INVARIANTS HashFollowsSecret DbMatchesKey
PROPERTIES HashStaysStable
