SPECIFICATION PlatformSpec
CONSTANTS
    a1 = a1
    w1 = w1
    c1 = c1
    NoApp = NoApp
    Apps <- MCApps
    Workers <- MCWorkers
    Clients <- MCClients
    MaxDeploys = 1
    QueueCap = 1
    MaxCrashes = 0
    MaxCalls = 1
    DbFails = FALSE
    DockerFails = FALSE
    Flaky = FALSE
PROPERTY
    SettingsKept
