SPECIFICATION FairSpec
CONSTANTS
    Uploaders <- TwoClients
    StreamOf <- MCStreamOf
    MaxChunk = 2
    MinChunk = 1
    GrowAfter = 2
    MaxAttempts = 2
    MaxTries = 2
    MaxConns = 2
    MaxFaults <- LoneFaults
INVARIANTS
    CompleteMeansStored
    StagedInOrder
    LoneResumable
PROPERTIES
    UploadsEnd
    LoneUploadSucceeds
