SPECIFICATION FairToolsSpec
CONSTANTS
    MAGIC <- MCMagic
    Whitelist <- MCWhitelist
    NoImage <- Nothing
    ImageVarNames <- MCImageVarNames
    Trees <- MCTrees
    Tested <- MCTested
    Ids = {1, 2, 3}
    Threshold = 2
    MaxRemovals = 1
    MaxForeign = 1
    MaxOverruns = 1
INVARIANTS TypeOK GateFindsReferences PulledImagesAreCached RunningTestsKeepHosts
PROPERTIES OrphansAreReaped
