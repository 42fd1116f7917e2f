SPECIFICATION Spec
CONSTANTS
    a1 = a1
    a2 = a2
    w1 = w1
    w2 = w2
    NoApp = NoApp
    Apps <- MCOneApp
    Workers <- MCWorkers
    MaxDeploys = 3
    QueueCap = 1
    MaxCrashes = 1
    DbFails = FALSE
    DockerFails = TRUE
INVARIANTS
    TypeOK
    InFlightIsOwned
    RowReflectsLastDeploy
    ServedUntilSwap
PROPERTIES
    FinishedStaysFinished
    ImplementsLifecycle
