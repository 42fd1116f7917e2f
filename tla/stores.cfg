SPECIFICATION Spec
CONSTANTS
    Clients = {c1, c2}
    MaxCrashes = 1
    Apps = {a1}
    NoApp = NoApp
    GameApps = {a1}
    Types = {"postgres", "mongodb", "mysql"}
    MaxServices = 1
    RedisDBs = 2
    MaxRequests = 3
    MaxLate = 1
    Addresses = {m1, m2, m3}
    NoAddress = NoAddress
    MaxMailboxes = 1
    MaxBoxes = 4
    Databases = {d1, d2}
    MaxBackups = 2
    MaxSeconds = 1
    MaxAsks = 3
    Price = 1
    Welcome = 1
    MaxBuys = 3
    MaxCredits = 1
SYMMETRY Symmetry
VIEW View
INVARIANTS StoresTypeOK ServicesAreSound MailboxesAgree BackupsAreWhole PurchasesAreSound
PROPERTY WorkingStaysWorking
CHECK_DEADLOCK FALSE
