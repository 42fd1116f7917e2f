SPECIFICATION FairSpec
CONSTANTS
    a1 = a1
    a2 = a2
    w1 = w1
    w2 = w2
    NoApp = NoApp
    Apps <- MCApps
    Workers <- MCWorkers
    MaxDeploys = 2
    QueueCap = 2
    MaxCrashes = 1
    DbFails = FALSE
    DockerFails = FALSE
INVARIANTS
    LocksMatchDeploys
    NoOrphanContainer
PROPERTIES
    VerdictReached
    LockReleased
    QueueDrains
