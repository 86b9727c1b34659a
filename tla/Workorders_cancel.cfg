SPECIFICATION Spec
CONSTANTS
    NumOrders = 2
    Clients <- MCClients
    ClientOf <- SameTwice
    MaxWorkers = 1
    MaxActive = 0
    MaxRetained = 0
    BuildTimeout = TRUE
    Cancellable = {1}
    Disconnecting = {1}
    Expiring = {1}
    MaxCrashes = 0
    PeriodicSave = FALSE
    DiskMayFail = FALSE
    DepthModulus = 16
INVARIANTS
    QueueDepthExact
    PermitsConserved
    LeakOnlyByPanic
    QuietClientOneActive
PROPERTIES
    OutcomeIsFinal
    ImplementsPool
