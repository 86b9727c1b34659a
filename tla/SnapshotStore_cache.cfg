SPECIFICATION Spec
CONSTANTS
    Orders <- MCOrders
    Blobs <- MCBlobs
    Trees <- MCTrees
    Needs <- MCNeeds
    TreeOf <- MCTreeOf
    Outputs <- MCOutputs
    Size <- MCSize
    ZstSize <- MCZstSize
    Configured <- MCConfigured
    DefaultGrace = 1
    DefaultHard = 2
    Floor = 1
    Stock <- MCStock
    MaxClock = 2
INVARIANTS
    BuildHasInputs
    GraceKept
    TrackedKept
    QuietPassExact
