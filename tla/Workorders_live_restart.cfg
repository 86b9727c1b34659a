SPECIFICATION FairSpec
CONSTANTS
    NumOrders = 1
    Clients <- MCClients
    ClientOf <- One
    MaxWorkers = 1
    MaxActive = 0
    MaxRetained = 0
    BuildTimeout = TRUE
    Cancellable = {1}
    Disconnecting = {}
    Expiring = {}
    MaxCrashes = 1
    PeriodicSave = TRUE
    DiskMayFail = TRUE
    DepthModulus = 16
PROPERTIES
    EveryOrderSettles
    DiskCatchesUp
