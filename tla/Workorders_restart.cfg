SPECIFICATION Spec
CONSTANTS
    NumOrders = 2
    Clients <- MCClients
    ClientOf <- OneEach
    MaxWorkers = 2
    MaxActive = 1
    MaxRetained = 0
    BuildTimeout = TRUE
    Cancellable = {}
    Disconnecting = {}
    Expiring = {}
    MaxCrashes = 1
    PeriodicSave = FALSE
    DiskMayFail = FALSE
    DepthModulus = 16
INVARIANTS
    CapacityRespected
    NoPhantomCompletion
