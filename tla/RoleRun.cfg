SPECIFICATION Spec
CONSTANTS
    Providers = {"none", "basic", "authelia", "authelia_remote"}
    None = None
    MaxEdits = 2
    MaxFaults = 1
INVARIANTS AuthIsDefinedOnce PolicyReceiversExist GrafanaAlerts
PROPERTIES AuthIsAlwaysDefined NothingRemovedWithoutSecrets
