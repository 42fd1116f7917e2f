SPECIFICATION Spec
CONSTANTS
    Foci = {"actions", "mirrors", "games"}
    Hosting = {FALSE}
    Clients = {c1, c2}
    MaxCrashes = 1
    Pushers = {g1}
    ActionWorkers = {w1, w2}
    Jobs = {"build"}
    Script <- MCScript
    NoJob = NoJob
    MaxCommits = 2
    MaxRuns = 2
    BuildQueue = 1
    Remotes = {r1}
    NoRemote = NoRemote
    MaxChanges = 2
    MaxContainers = 2
    MaxPorts = 2
    MaxConfigs = 1
    MaxJobs = 2
PROPERTIES RunsProgress MirrorConverges GameRowConverges
CHECK_DEADLOCK FALSE
