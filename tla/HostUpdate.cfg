SPECIFICATION Spec
CHECK_DEADLOCK FALSE
CONSTANTS
  Hosts = {"web", "mail", "hass"}
  Ubuntu = {"web", "mail"}
  Containers = {"traefik", "job"}
  Installed <- MCInstalled
  Policy <- MCPolicy
  RebootIfRequired = TRUE
  DomainsRequired = TRUE
  MaxRuns = 2
  MaxFaults = 1
  None = None
INVARIANTS HoldsReleased OneHostAtRisk
PROPERTIES UpgradeSparesContainers RecoveryIsExact
