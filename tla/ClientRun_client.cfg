SPECIFICATION FairSpec
CONSTANTS
    Clis <- TwoClis
    Contents <- TwoContents
    Scenarios <- MCScenarios
    MaxNumber = 99
CHECK_DEADLOCK FALSE
INVARIANTS
    EmergeInputsVerified
    CachedPackageWhole
    FailureExcused
    SkipSound

    
