SPECIFICATION SafetySpec
CONSTANTS
    Foci = {"actions", "mirrors", "games"}
    Hosting = {TRUE}
    Clients = {c1, c2}
    MaxCrashes = 1
    Pushers = {g1}
    ActionWorkers = {w1, w2}
    Jobs = {"build", "test"}
    Script <- MCScript
    NoJob = NoJob
    MaxCommits = 3
    MaxRuns = 2
    BuildQueue = 1
    Remotes = {r1}
    NoRemote = NoRemote
    MaxChanges = 2
    MaxContainers = 2
    MaxPorts = 2
    MaxConfigs = 1
    MaxJobs = 2
SYMMETRY Symmetry
INVARIANTS ForgeTypeOK RunsAreSound GameIsAsConfigured
CHECK_DEADLOCK FALSE
