SPECIFICATION Spec
CONSTANTS
    Place = "stack"
    Sites <- MCSites
    PrimaryNet = "drayve_default"
    NoPin = NoPin
    NoUrl = NoUrl
    MaxEdits = 1
    MaxFaults = 1
INVARIANTS ProtectedServicesHaveProvider LandingFollowsLabels SecondRunSucceeds
PROPERTY LabelsAsPromised
