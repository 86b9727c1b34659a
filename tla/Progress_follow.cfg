SPECIFICATION FairSpec
CONSTANTS
    Followers <- OneFollower
    Scenarios <- MCScenarios
    PipeCap = 1
    EventCap = 2
    ProgressCap = 2
    FrameCap = 1
    StdinCap = 1
    BuildTimeout = TRUE
INVARIANTS
    CollectedExact
    FinishedPickedUp
    FollowerSawResult
    ErrorExcused
    InputContiguous
PROPERTIES
    BuildEnds
    FollowersEnd
