SPECIFICATION Spec
CONSTANTS
    a1 = a1
    a2 = a2
    w1 = w1
    w2 = w2
    NoApp = NoApp
    Apps <- MCOneApp
    Workers <- MCOneWorker
    MaxDeploys = 2
    QueueCap = 1
    MaxCrashes = 0
    DbFails = FALSE
    DockerFails = FALSE
INVARIANT
    RollbackRestartsOld
