SPECIFICATION Spec
CONSTANTS
    Clients = {c1, c2}
    MaxCrashes = 1
    PRs = {q1}
    Direct = direct
    MaxHead = 2
    MaxDirect = 1
    MaxRules = 1
    Repos = {r1, r2}
    Slugs = {"s"}
    MaxObjects = 1
    Imports = {0, 3}
    MaxCalls = 4
    Labels = {l1, l2}
    MaxIssues = 2
    MaxPosts = 3
    Sites = {a1}
    Platform = Platform
    HourLen = 2
    DayLen = 4
    RawAge = 4
    HourlyAge = 8
    DailyAge = 12
    BatchSize = 1
    MaxNow = 13
    LastVisit = 3
    MaxLines = 2
    MaxTroubles = 1
    Watched = {w1}
    Alarms = {x}
    Cooldown = 2
    Retention = 2
    Intervals = {1, 2}
    Fills = {0, 1, 2}
    DayInterval = 2
    DefaultFill = 2
    MaxClock = 3
    MaxSamples = 1
    MaxEdits = 2
    Users = {root, u}
    Root = root
    Plans = {p1, p2}
    FirstPlan = p1
    Allowances = {1}
    Sizes = {0, 2}
    Capacity = 3
    MaxListed = 2
    MaxRows = 3
    MaxAsks = 4
SYMMETRY Symmetry
VIEW View
INVARIANTS RecordsTypeOK MergesAreSound StorageMatchesRows IssuesAreSound UsersAreSound SumsAreRight
PROPERTIES NothingIsDropped BranchIsGuarded NotTooOften
CHECK_DEADLOCK FALSE
