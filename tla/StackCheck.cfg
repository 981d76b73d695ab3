SPECIFICATION CheckSpec
CONSTANTS
    W4 = 4
    W6 = 7
    MIN_PREFIX_V4 = 2
    MIN_PREFIX_V6 = 3
    MappedBase = 16
    Stacks <- MCStacks
    Requests <- MCRequests
INVARIANTS RulesMeanWhatIsWritten UsersFileFitsRules WarningsAreEnough LoginWorks TrustIsNarrow
CHECK_DEADLOCK FALSE
