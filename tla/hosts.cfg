SPECIFICATION Spec
CONSTANTS
    Apps = {a1, a2}
    Users = {c1, c2}
    start = 1
    end = 2
    Foci = {"ports", "registry", "settings", "clients"}
    Null = Null
    Nobody = Nobody
    DbFails = TRUE
    Clients = {c1, c2}
    MaxCrashes = 1
    ServerIds = {"x", y, z}
    HostPorts = {1, 2, 3}
    CPUs = {1, 2}
    HostCPU = 2
    OtherCPU = 1
    Legacy <- MCLegacy
    MaxSaves = 3
    MaxServers = 2
    MaxBases = 2
    MaxMoves = 2
    MaxOptions = 1
    ZipOrders <- MCOrders
SYMMETRY Symmetry
VIEW View
INVARIANTS
    NoPortTakenTwice
    HostsTypeOK
    RegistryIsSound
    SettingsInForce
    StampTellsFiles
    OptionsSurvive
CHECK_DEADLOCK FALSE
