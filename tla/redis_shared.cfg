SPECIFICATION ServicesSpec
CONSTANTS
    Clients = {c1}
    MaxCrashes = 0
    Apps = {a1, a2, a3}
    NoApp = NoApp
    GameApps = {}
    Types = {"redis"}
    MaxServices = 1
    RedisDBs = 16
    MaxRequests = 4
    MaxLate = 0
INVARIANT RedisIsolated
CHECK_DEADLOCK FALSE
