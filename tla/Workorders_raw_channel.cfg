SPECIFICATION Spec
CONSTANTS
    NumOrders = 2
    Clients <- MCClients
    ClientOf <- OneEach
    MaxWorkers = 1
    MaxActive = 0
    MaxRetained = 1
    BuildTimeout = TRUE
    Cancellable = {1}
    Disconnecting = {}
    Expiring = {}
    MaxCrashes = 0
    PeriodicSave = FALSE
    DiskMayFail = FALSE
    DepthModulus = 16
INVARIANTS
    RawChannelExists
