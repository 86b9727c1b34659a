SPECIFICATION FairSpec
CONSTANTS
    NumOrders = 2
    Clients <- MCClients
    ClientOf <- OneEach
    MaxWorkers = 1
    MaxActive = 0
    MaxRetained = 1
    BuildTimeout = TRUE
    Cancellable = {}
    Disconnecting = {2}
    Expiring = {}
    MaxCrashes = 0
    PeriodicSave = FALSE
    DiskMayFail = FALSE
    DepthModulus = 16
PROPERTIES
    EveryOrderSettles
