# luxview-cloud: TLA+ models and proofs

luxview-cloud is a self-hosted platform: `luxview-engine` (Go) builds and runs
its users' applications as Docker containers, hosts git repositories, runs CI
actions, provisions databases and mailboxes, takes backups, counts page views and
runs game servers with a shop and downloadable clients. State is in PostgreSQL,
on disk, in Docker and on shared servers; what outlives a request runs on
goroutines of the one engine process. `luxview-games` is a second process that
runs game servers on the host, `luxview-launcher` a program on players' machines.
Paths below are relative to `src/luxview-engine/` unless they begin with `src/`.

## 1. Inventory

| component | code | state | operations | hard because |
|---|---|---|---|---|
| tables and containers | `internal/repository/{app,deployment}_repo.go`, `pkg/docker`, `service/container.go` | rows of `apps`, `deployments`; Docker's containers | single statements and calls | no transaction spans two of them |
| build queue and workers | `worker/build_worker.go` | a channel of 100, 3 goroutines | non-blocking send, take | drops; a crash loses it |
| deploy pipeline | `service/deployer.go` | `appLocks`, locals of `Deploy` | `Deploy`, `failDeploy` | a dozen writes in order, each may fail or be the last before a crash; a second container of one name |
| stale sweep | `worker/stale_deploy_worker.go` | none | two UPDATEs a minute | races the deploys it judges by age |
| health checker | `service/healthcheck.go` | `failures` by app | list rows, probe, write status | writes rows that are minutes old |
| app handlers | `api/handlers/apps.go`, `deployments.go` | none | create, update, stop, restart, maintenance, deploy, delete | read, slow call, write back, no lock |
| port manager | `service/portmanager.go` | `reserved`, mutex | `Allocate`, `Release` | a port is taken before a row says so |
| game servers | `service/game_server.go` | container by name, `game_server_configs` | start, restart, stop, settings, delete | starts take no lock |
| webhooks, pushes, action runs | `service/{webhook,push_event,actions}.go`, `worker/action_worker.go` | runs, jobs, artifacts | trigger, claim, execute, deploy after a push | claim by several workers, pushes that overtake, crash in a run |
| mirrors | `service/repository_service.go` | `last_sync_status`, a mutex | mark, list pending, push | a status overtakes the push that outdates it |
| repositories | `service/repository_service.go`, `handlers/git.go` | rows, bare directories | create, import, delete, push | disk and row are apart |
| pull requests | `service/pull_request_service.go` | rows, reviews, checks, the base branch, the hook's file | review, merge, close, protect, push | check, merge in git and row in separate steps |
| issues | `service/issue_service.go`, `repository/issue_repo.go` | issues, labels | create, update, label | number by maximum, labels in a second transaction |
| services | `service/provisioner.go` | `app_services`, what is on the servers | provision, deprovision, delete app | half-made services, retries, Redis number by count |
| mailboxes | `api/handlers/mailbox.go` | rows, accounts of the mail server | create, delete, reset, remove service | two systems, `docker exec` in between |
| backups | `service/backup_service.go` | rows, directories, a flag | run, restore, delete, retention | goroutines on a context that is over |
| players' shop | `service/shop.go`, `player.go` | account, ledger, orders, the game's database | register, link, credit, buy | debit, delivery and order on two databases |
| page views | `worker/{analytics,aggregation}_worker.go` | offset in the log, views, hours, days | read, insert, aggregate, purge | purge after a failed step, upsert that replaces |
| metrics, alerts, cleanup | `service/{metrics_collector,alerter}.go`, `worker/{alert,metrics,cleanup}_worker.go` | samples, alerts, settings | sample, evaluate, notify, prune | rows written back while a pass holds copies |
| accounts and plans | `api/handlers/{auth,admin,plans}.go` | users, plans, limits | login, role, plan, default, create app | check, then write |
| game companion | `src/luxview-games/main.go` | a JSON registry, a settings file, containers | create, save, restart | a file read, changed and rewritten by each request |
| clients and launcher | `src/luxview-launcher/{app,client_install}.go`, `service/openmu_client_artifact.go` | published zip, cache; files and stamps on a player's disk | publish, install, update, save options | an update that breaks off, what is published meanwhile |
| community | `service/community.go` | posts | one row a request | little |
| database explorer | `handlers/db_explorer.go` | none | passes statements through | little |
| build agent, dashboard, API clients | `internal/agent`, `src/luxview-dashboard`, `pkg/github` | none of the engine's | | presentation and external systems |

How they meet: handlers, webhooks, pushes and passed runs send to the build
queue; the workers call `Deploy`; `Deploy`, the sweep, the health checker and the
handlers all write the same `apps` row, each with `UPDATE ... WHERE id` and
nothing else to keep them apart (only `Deploy` against `Deploy` has a lock);
`Deploy`, handlers and game starts drive the same containers and share the port
manager; deleting an app removes its services; a push marks the mirrors, passes
the hook of a protected branch and triggers a run. The rest share the process
that crashes, and the goroutines that serve requests.

What makes them correct: one deploy of an app at a time; every deployment gets
a verdict and keeps it; the row agrees with the last deployment between
deploys; a version stays served until its successor's swap; no container is
left without a name in a row; locks and queue drain; the status converges to
what Docker says; a port belongs to one app; what is green was run and what is
deployed was tested; each row that pairs with something elsewhere (backup and
dumps, mailbox and account, service and password, pull request and branch,
repository and directory, order and payment, stamp and files) agrees with it, or
says why not; a limit is overrun by no more than the requests under way, and by what a
count that failed let through.

## 2. Modules

| module | models |
|---|---|
| `AppStore` | the tables `apps` and `deployments` and Docker as state, each statement or call as a function from old to new value |
| `Deployer` | extends `AppStore`: queue, workers, `Deploy` with its lock, sweep, time, crash |
| `DeployLifecycle`, `DeployerRefinement` | abstractly, the life of a deployment; the refinement mapping of `Deployer` to it |
| `HealthChecker` | extends `Deployer`: `CheckAll` over a batch of listed rows, the failure counter |
| `AppHandler` | extends `Deployer`: stop, restart, maintenance, settings, and the webhook tail of `Create`, on request goroutines |
| `Platform` | composes the three: every writer of an app row |
| `Ports` | `PortManager` and every writer of `assigned_port`, with ports told apart |
| `Requests` | what all components below have in common: request goroutines, which die with the engine |
| `Services`, `Mailboxes`, `Backups`, `Shop` | managed services, mailboxes, backups, purchases |
| `ActionRuns`, `Mirrors`, `Games` | from a push to a deploy request; the mirrors of a repository; one game server app |
| `PullRequests`, `Repositories`, `Issues` | merges into a protected branch; rows and directories; issues and labels |
| `Analytics`, `Monitoring`, `Accounts` | page views; samples, alerts and cleanups; users, roles, plans and limits |
| `GameHost`, `GameClients` | the companion; served and installed game clients |
| `MCDeployer`, `MCPlatform`, `MCHosts`, `MCStores`, `MCForge`, `MCRecords` | model values, symmetry, and which components one run looks at |
| `Deployer_proofs`, `Hosts_proofs`, `Stores_proofs`, `Forge_proofs`, `PullRequests_proofs`, `Repositories_proofs`, `Records_proofs` | theorems |
| `FiniteSums` | what the sum of a function over a finite set is, for the proofs about limits and views |

Every module after `Requests` is built in one way. A record per client, `mr[c]`, `req[c]` and
so on, is a request: its place in the handler (`at`) and the locals that later
steps use. A place lies before each statement, git or Docker call, or file
operation that something else can overtake; what lies between two of them is one
action. An error is an action of its own where the code handles it; where
the code ignores it, it is an outcome of the action. `...Crash` clears all
requests and workers and leaves tables and disk. Listings and counts whose error the code
drops may come back empty (`services.go:114`, `mailbox.go:121`, `apps.go:148`,
`admin.go:240`, `src/luxview-games/main.go:987`), removals and rollbacks may do nothing
(`game_server.go:122`, `mailbox.go:177`, `repository_service.go:142`), status writes may be
lost (`backup_service.go:141`, `healthcheck.go:78`), lookups may leave an older value in
use (`pull_request_service.go:122`) or end what was begun (`push_event.go:38`).

Variables commented "history" are read by no action's guard: they note what properties
need to tell exceptions apart. What each of them excuses is a race or a failure that the code
does not guard against, and no more than that:

| history | excuses |
|---|---|
| `crossed`, `counted` (`Services`) | two requests at one service, or a request beside a command of an earlier one that went on when its `docker exec` was given up (`late`, which is state); rows whose creation could not count |
| `marred`, `unseen` (`Mailboxes`) | two requests at one address, or a command or statement that broke off half way, until it is mended; rows whose creation could not count |
| `touched`, `failed` (`Backups`) | two runs in one directory or a removal that reached it; a statement or removal of the nightly run that failed |
| `mixed`, `unapplied` (`Games`) | requests overlapped at the game since the last start that ran alone; a configuration was saved that no start has put in force |
| `excused` (`Mirrors`) | since the mirror was last marked: a lookup that failed when an older sync had written over the mark, a failed statement or sync, a death of the engine |
| `moved`, `raced`, `alone` (`PullRequests`) | a head that moved while it was merged or could not be read; two requests at one pull request; a second push that rewrites the hook's file. That two writers of the file share one `.tmp` path is part of that second push |
| `doomed`, `litter`, `brought` (`Repositories`) | a deletion that began; what a failed init or removal left; what an import brought |
| `shared` (`Issues`) | two requests at one issue. The body, a column of the row that is written as the title is, is left out |
| `excused` (`Analytics`) | views purged after an aggregation or before a purge that failed |
| `muddled`, `crowded`, `counted` (`Accounts`) | two requests at the defaults, until a `SetDefault` that is alone; limits written that were not compared with all others; apps created by a count that failed |
| `beside`, `crossed`, `unsure` (`GameHost`) | what was let through beside another request or by a count that left servers out; overlapping saves, until one that is alone; a restart that failed or died |

### How the state corresponds: pipeline, platform and ports

* `app[a]` is the row's `status`, `container_id`, whether `assigned_port` is
  set, and a version number for all that the user can set. `dep[i]` is the i-th
  inserted deployment: `status`, app, and whether `created_at` is further back
  than twice the build timeout. `boot` and `swapped` in it are history.
* A deployment creates at most one container, so containers carry its number;
  0 is the empty id. `ctr[i]` is `none`, `stopped` or `running`. All containers
  of an app have one name, `luxview-<subdomain>`; `Named(a)` is what Docker finds
  under it. Docker refuses to create a second container under a name
  (`CreateFails`). What a container does inside is outside; that it may never get
  healthy is `HealthTimesOut`.
* `pc[w]` and `job[w]` are a worker's place in `Deploy` and its locals (`snap`
  is the variable `app`). Each statement and Docker call is an action, in the
  order of the code: `AcquireLock` or `SkipDuplicate`, `Load` (the read, whose
  failure gives the lock back, and the INSERT, between which only the read row can
  become stale; the handlers can overtake it later all the same),
  `MarkBuilding`, `Build`, `MarkDeploying`, the port, `StopOld`,
  `RemoveSameName`, `CreateContainer`, `StartContainer`, the health check, then
  `RemoveOld`, `Finalize`, `MarkLive` or the rollback and the two writes of
  `failDeploy`, and the deferred `Unlock`. An error that the code ignores is
  `Outcome(mayFail, old, new)`; one that it handles is an action. The handler of
  a rollback (`handlers/deployments.go:117`) queues an ordinary deploy, of an
  older commit.
* `DbFails` lets statements fail while the process lives, `DockerFails` lets
  the daemon refuse for a reason of its own. Failures the code must expect from
  a working database and daemon (no such container, name taken, unhealthy, build
  failed, no port) are always there.
* `Crash` is a kill and also a shutdown: `main` cancels the context under which
  every `Deploy` runs its statements, so a deploy in flight cannot write its failure.
* `Age` lets any row in status `building` grow old, except while its worker is at
  a step other than its checkout and build. Checkout has no timeout and the
  sweep's age is twice the build timeout, so a build in progress can be swept;
  the few statements before and after are not assumed to take ten minutes.
* `Up` is what `checkApp` asks of a row. With `Flaky` FALSE an app answers when
  its container is up, with TRUE it may also miss a probe. The counter stops at
  the threshold since it is only compared with it.
* A handler holds the row it read while it makes its Docker call, then writes.
  Creation leaves its own copy behind: `HandlerInit` starts with `Create` possibly
  before its last write.
* `Ports` tells NULL from 0, since `FindByID` reads NULL as 0 and a whole-row
  write stores it as 0, which the UNIQUE column then counts as a value.

### How the state corresponds: the other components

* `Services`: `svc[a][t]` is the row of an app and type with the number of the
  request that made its password, `server[a][t]` the password the server has. CREATE USER
  of PostgreSQL and MySQL fails for a user that is there (`CreatesOnce`), MongoDB
  and RabbitMQ replace the password (`Overwrites`). `embedded` is the MySQL of a game. A command that
  was sent with `docker exec` (or over HTTP) goes on when its request gives up: `late` are those that
  nobody waits for and that may still do their work at any time.
* `Mailboxes`: `box[m]` is a row's id, `acct[m]` the account: none, blank
  (the "rollback" of a creation empties the password, if it works: it is a command on the
  request's own context) or set.
* `Backups`: `proc[g]` is what a request goroutine or the nightly worker
  (`Scheduler`) is doing, with whether its context is over (`alive`). Directories
  are named by the second and whether the run was manual. Statements fail when the context
  is over, and may fail when it is not.
* `Shop`: one player; `ledger` counts rows by reason; `purse` is the value a
  transaction has read of the locked account.
* `ActionRuns`: one app; commits are numbers; `run`, `job` and `exec[w]` are rows
  and workers; `queue` holds the deploy requests of pushes and of runs.
* `Mirrors`: `refs` and `remote[m].has` number changes of the repository;
  `backupMu` is the mutex under which syncs take turns. A push marks, then hands over to
  `HandlePush` on a goroutine (place `event`), which starts the syncs or returns before them.
* `Games`: containers are numbered in the order of their creation and all bear the one name;
  `gjob[c]` has the copy of the row that a request read at its beginning. A command of Docker may
  report an error whatever became of the container (`Fumbles`). The checker lists, finds the container,
  probes it and writes in four steps (`watch.at`).
* `PullRequests`: a branch is the set of changes it holds; `policy` is the file
  that the pre-receive hook reads, rewritten before each push is received. `Get` returns the
  head of the branch, or that of the row when it cannot read it (`SeenHeads`); what is fetched later is
  the branch.
* `Repositories`: `storage[r]` is what is at a path, with the objects it holds, in pushes: an
  import brings any number of `Imports` with no look at the quota.
  `Issues`: rows `<<n, label, request>>` of `issue_labels`. `Accounts`: plan and
  user as the middleware loaded them at the start of a request. `EditApp` and `UpdateApp` are
  the whole-row write of an owner, which may change the limits, and of `Deploy`, which writes back
  those it read; neither is compared with the host. `Listings` stop at `MaxListed` rows (1000 in the
  code). Left out: a plan's maxima for one app, negative limits, memory and disk beside CPU.
* `Analytics`: time is in ticks and an hour has two of them; a view is in the log,
  a row of `pageviews`, or a count in a bucket of hour or day. `Monitoring`: a sample is high or not,
  `alert[a].last` is `last_triggered`, `sweep` holds the settings the cleanup
  worker read.
* `GameHost`: `file` is the registry, which may be absent or cut off (it is
  truncated before it is written), `box[s]` the container behind a record, which a restart
  may leave stopped. `saved` is the settings file: truncated, then written, so that of two
  saves at once the end of the longer one may follow the shorter (`tail`), which the server
  would source. There is no handler that deletes a server.
  `GameClients`: an entry on disk tells which zip it is of, which address was put
  into it and which options are in it; Metin2 is served as Rakion is, and Tibia as MU.

## 3. Runs

| run | asks | bounds |
|---|---|---|
| `deployer_safety` | types; a deployment in progress has an owner; rows, verdicts and containers agree between deploys; a version is served until the next swap; verdicts are final; all of it is a `DeployLifecycle` | 1 app, 2 workers, 3 deploys, queue 1, 1 crash, failing daemon |
| `deployer_verdict` | locks are the deploys under way; verdict reached, lock released, queue drained, no container left behind | 2 apps, 2 workers, 2 deploys, queue 2, 1 crash, nothing fails by itself; fair |
| `platform` | the status converges, next to one owner request | 1 app whose first deployment is live (`DeployedSpec`), 1 worker, client, redeploy, crash and request; fair |
| `hosts` | a port is never given to two apps; the companion lists no id twice, lists what has its container, stays within the host, and runs with the settings saved last; a stamp tells what is on a player's disk, and options survive | 2 apps, 2 goroutines, ports 1..2, failing statements; ids x, y and z, ports 1..3, limits 1 and 2 of 2 CPUs next to 1 that others have, 2 servers asked for, 3 saves, one server of the former name; 2 zips, 2 moves of the address, 1 save of options, 3 templates; 1 crash |
| `stores` | services, mailboxes, backups and purchases stay in step with what is behind them | 2 clients, 1 crash; types postgres, mongodb, mysql, 3 requests, 1 command that goes on, a plan of 1 service; 3 addresses, 4 requests, a plan of 1 mailbox; 2 databases, 2 backups, 3 operations; price 1, 3 purchases, 1 credit |
| `forge` | a green run was run, a deploy was tested; a game runs as configured | 2 clients, 1 crash; 1 pusher, 2 action workers, jobs build and test with an artifact between them, 3 commits, 2 runs, queue 1; 1 mirror, 2 changes; 2 containers, 2 ports, 1 configuration, 2 requests |
| `forge_live` | runs are claimed and judged; mirrors catch up; a game's row comes to agree with Docker | as `forge` with one job, 2 commits; fair |
| `records` | merges, directories, labels, accounts, sums and alerts, see below | 2 clients, 1 crash; 1 pull request of 2 commits, 1 direct push, 1 change of the rule; 2 repositories of 1 name, a quota of 1, imports of 0 and 3, 4 requests; 2 labels, 2 issues, 3 requests; hour 2, day 4, ages 4, 8, 12 ticks, time to 13, 2 views, 1 trouble; 1 app sampled, 1 alert, cooldown 2, time to 3; 2 users, 2 plans, 3 apps, listings of 2, limits 0 and 2 of 3, 4 requests |

`records` checks that a merged row tells what is in the branch and that what is
in it was let through (`MergesAreSound`), that no change is dropped without a force push
(`NothingIsDropped`), that the hook keeps a push off a protected branch
(`BranchIsGuarded`); that a listed repository has its directory
(`StorageMatchesRows`); that numbers of issues have no gap and labels are those
last asked for (`IssuesAreSound`); that what an admin gave stays and limits are
overrun by no more than the requests under way, where counts worked (`UsersAreSound`); that no view is
counted twice and none of an undivided hour is lost, and that limits of apps that were
compared with all others fit the host (`SumsAreRight`); and that nobody is told of an alert twice within its
cooldown (`NotTooOften`).

`MCHosts`, `MCStores`, `MCForge` and `MCRecords` put components side by side that
share the crash counter and the request goroutines and nothing else. A behaviour exercises one
of them, chosen at the start (`focus`): no action reads what another component
writes, so steps of two commute and their interleaving would show nothing new.
The ones not exercised stay in their initial state, which is why the VIEW may leave
them out; clients are interchangeable, which is why SYMMETRY is sound (no
temporal property is checked under it but action properties).

Why the bounds are enough: two requests at one thing give every overlap of
a check and a write; a third operation begins after one of them ended or broke
off; one crash separates two processes. Apps interact only through queue,
workers and ports; three deploys of one app give a live one, one that
fails and one that replaces both; two workers give the duplicate; a queue of
one gives the full channel; two ports for two apps give exhaustion. Time in
`Analytics` passes each of the three ages with a view on either side of a
bucket's limit. `platform` starts in mid-life, since what the checker and the owner's request can
hold that is stale is the container of an earlier deployment: two deployments from an empty table are
the same states and too many before them. Two game requests give the lone start, the
overlap and the change of a configuration; that a third, lone one mends what two left is
in the proof of `GamesConfigured`, for any number. For the invariants that are proved the bounds
no longer matter.

Runs that TLC must find violated, each a sentence of the repository that the code
does not keep:

| run | the sentence | what happens |
|---|---|---|
| `rollback` | "Rollback: stop new, restart old" (`deployer.go:396`) | `Start` has removed the old container by its name before the new one is created; the restart of a rollback addresses a container that is gone, its error is ignored. A failed health check always ends in an outage |
| `settings_lost` | "Injected into your container on every deploy" (`src/docs/deploying-apps.md:17`) | `Deploy` writes the whole row it read at its start |
| `redis_shared` | "Each app gets its own Redis DB number (0-15) for isolation" (`provisioner.go:82`) | the number is a count of rows modulo 16: deletions, requests at once and a seventeenth service make two apps share one |
| `views_lost` | "Aggregate pageviews older than 7 days into hourly buckets" (`src/docs/plans/2026-03-11-platform-analytics.md:46`) | the threshold falls into an hour; the second half of it replaces the count of the first, whose views are purged |

More that the models show, without a run of its own:

* `deployment_repo.go:137` "resets the corresponding app status from building to
  error": a row can grow stale between the two UPDATEs; and
  `stale_deploy_worker.go:34` "catch anything stuck before engine restarted":
  rows in `deploying` are not selected. A crash between the two writes of
  `failDeploy` leaves the app on `building`, which nothing looks at again.
* `healthcheck.go:22` hides "the few seconds after a redeploy": the
  counter survives redeploys and counts on in `error`. `healthcheck.go:61`: the
  checker writes back the id of a container that a redeploy removed.
* `pull_request_service.go:357`: an approval counts whatever was pushed after it;
  the setting `src/luxview-dashboard` offers for it is stored and read by nothing.
* A failed purge of views is only logged (`aggregation_worker.go:68`). A day of which the threshold
  left the first half purged and the second in `pageviews`, until its hours are compacted (the
  purges, or the engine, having failed that long), is then compacted twice: the row of the second half
  alone replaces that of the day. `WholeHoursKept` excuses a failed purge (`excused`) for that; with one
  trouble, the bound of the `records` run, TLC does not get there. The attempt at a proof did.
* Replaced labels (`issue_repo.go:195`) of two requests at once can mix, and rows of the platform's own
  views are doubled when a purge of views fails. An overview of more than seven
  days reads aggregates only, so that it leaves out the last seven.
* Limits that are checked on a listing whose error is dropped admit what they should refuse: of
  services (`services.go:114`), mailboxes (`mailbox.go:121`), apps (`apps.go:148`) and CPUs
  (`admin.go:240`, which also reads 1000 apps at most; the companion's `main.go:987`). `apps.go:506`
  lets owners set limits up to their plan's maximum for one app, whatever the host has left.
* `repository_service.go:207`: an import is cloned whole, past the quota; only pushes are refused.
* `push_event.go:38`: a push whose lookup fails starts no sync of its own. What it marked pending is
  synced within a minute, unless an older sync that was under way wrote "success" over the mark.
* `src/luxview-games/main.go:697`: two saves at once may leave a file that starts with one and
  ends with the other.
* `src/luxview-launcher/app.go:378` ignores an error of putting the options back. They were kept in
  memory only and are lost then; this case is not modelled, and `OptionsSurvive` is said of updates
  whose options can be written.
* `NoOrphanContainer` is checked with statements that do not fail: a row that is not written leaves the
  container nameless (`deployer.go:418`).
* `RowReflectsLastDeploy` needs `DbFails = FALSE`: a failed final write of the
  app row is logged, and the deployment marked live all the same.
* `GameClients`: an address that is changed and changed back brings back a hash that
  a broken update may have stamped; games updated by patch take files
  without a stamp of their base for whole; options saved during an install, or
  before a launcher that is killed in one, may be lost. The properties except
  these, by `CameBack`, `unstamped` and `optionsAtRisk`.

Each property of a passing run has a mutant of a modelled definition that TLC
must find to violate it; the mutants stand right before the definition they
alter, under a comment that begins "Slip".

### Fairness

`Deployer!Fairness`: each worker goroutine keeps taking steps (Go schedules it;
every wait in `Deploy` ends, by a timeout or by the end of git's, Docker's or the
database's answer; a git clone that hangs for ever is the one exception, and is
excluded by this assumption), time passes, and the sweep's ticker fires. Nothing
makes a user ask for a deploy or the engine crash. `PlatformFairness` adds the
health ticker and requests once begun. All of it is weak fairness: `SkipDuplicate`
takes a request whose lock is taken, so no worker waits for a lock.

`ActionsFairness`: action workers keep polling and working. `GamesFairness`:
requests once begun go on, the health ticker fires, and a container with a restart
policy comes back; `GameRowConverges` excepts behaviours in which the game does not answer, or the
write of the checker's verdict fails, again and again. `MirrorsFairness`: the request that pushed
goes on to mark and to announce the push (`Announces`, which may end in a lookup that fails), the
ticker lists what is pending, and a sync that has begun goes on, strongly fair since it waits for a
`sync.Mutex`, which hands itself over to a goroutine that has waited for long. `MirrorConverges`
excepts what `excused` says.

## 4. Proofs

Each theorem holds for every value of the constants under the named assumptions
below; each has an inductive invariant, since what the runs check relates tables
and disk between requests and says nothing of what requests under way hold.

`Deployer_proofs` (any apps, workers, bounds, failing statements and calls):

* `TypeCorrect`: `TypeOK`, with `BusyHasApp` (a busy worker has an app), without
  which `CreateDeployment` would be applied to no app. Lemmas give the types of
  each statement and Docker call once; one step per action cites them.
* `OneDeployPerApp`: `LocksMatchDeploys` is inductive over `TypeInv`. A step of
  `Deploy` either stays inside the locked places or is one of four (`DeployShape`);
  a `Load` whose read fails gives the lock back as `Unlock` does.
* `VerdictsAreFinal`: no step changes the status of a deployment that is live or
  failed and owned by nobody. It needs `RowInv`: a worker with a row has the newest
  deployment of its app, so that its writes and the INSERT of another worker
  cannot hit a finished row; that in turn needs the lock (`RowsApart`).

With `DbFails = FALSE`, while Docker calls may fail: `InFlightOwned`, `RowsReflectDeploys`, `LiveIsServed`. The assumption is needed: every
error of a status write in `Deploy` and `failDeploy` is ignored, so one failed
UPDATE leaves a row without its verdict. The last two are not inductive: the
row agrees with the deployment at the unlock because of what the worker had
written by then, and a rollback keeps the row because of the copy it read.
`PipelineInv` adds, for each worker by its place (`WorkerInv`): before the end the
row still names the container it read; from the health check on, its own container
is up; while it owns the deployment, this is not live; at the unlock it has the
app's newest deployment and its `Verdict` is in both tables. Here `RowInv`
pays: another worker's stop, remove or write hits neither this app's row nor its
containers (`DockerEffects`, `OthersHaveTheirs`). The sweep cannot break
`ServedUntilSwap` or a verdict, since it touches only `building` rows (`PipelineKept`).

`NothingOrphaned` (`DbFails` and `DockerFails` both `FALSE`, since `Deploy` ignores what a stop or
a remove answers): every container is named by its app's row, in a worker's hands or left by a
process that died. It needs `BareInv`: a worker that fails its deployment has removed its new
container, and one that writes the row over has removed the old one.

`DeployerImplementsLifecycle` (`DbFails = FALSE`). A
deployment is open while a worker of this process owes it a verdict, orphaned when
nobody does and it has none, and otherwise what its row says. Three lemmas take
the steps: what a worker does maps to a step or a stutter (`WorkMaps`), a crash
orphans what is open (`CrashDies`), the sweep settles orphans and leaves
the status of open ones, whose row it may fail, to their worker (`SweepSettles`).

`PlatformTyped`: pipeline, health checker and owner requests together. Each holds copies of rows it
has read, so that what they write has the types of what was read (`OthersTyped`); the stop of a
handler or a redeploy of the checker is one of the statements whose types are known already.

`Hosts_proofs`:

* `PortsApart`, for any apps, goroutines and range.
  `NoPortTakenTwice` is not inductive: between `Allocate` and the write of the row,
  the port is in no row. The invariant adds that an allocated port in a goroutine's
  hands is reserved (`FreshInv`), that the owner of the mutex has seen every port
  that is not reserved (`QueryInv`), that no two rows share a port (`UniqueInv`),
  and who may be where with what (`MutexInv`, `RowInv`).
* `RegistrySound`. The registry is rewritten from what a request read, so what requests
  hold must be as good as what is listed (`ListsInv`, `GoodList`), and a container that a
  request made is nobody else's (`BoxesInv`): what is listed has its container, which a restart may have left
  stopped. The limits: all that is listed, read or made by anybody
  (`Claimed`), with what was let through and not yet made, sums up to the host and `beside` (`Bounded`).
  `beside` counts what was let through while another request was under way, or by a count
  that left servers out.
* `SettingsTakeEffect`. Each restart that sleeps and each save under way belongs to a save that was
  begun (`SavesInv`). A save that was begun alone and is under way has the emptied file to itself, and the
  file is the last one's, whole, unless saves have crossed since (`SettingsInv`).
* `StampTells`, `OptionsKept`. What the launcher has heard of is no newer than what is published
  (`PublishInv`, `CardInv`). The entries come from two zips: those no patch has are from the base
  that is stamped or being installed (`BaseInv`), those of the patch are put there for the card
  (`PatchInv`), so that what is stamped last is on disk (`StampInv`). The options saved last are on
  disk or in the launcher's hands (`OptionsInv`).
* `HostsTyped` puts the three side by side.

`Forge_proofs`:

* `RunsSound`. By place, what a worker knows of its run (`WorkerOK`): the jobs before its own are
  done, its commit was checked out; of each run, that it was asked to be deployed once at most and only
  when all jobs are done (`RunOK`); of each request in the queue, that it names the commit its run
  was tested on (`RequestOK`); and that workers are at different runs.
* `GamesConfigured`. A request that has run alone so far holds the row's port and the last
  configuration, and what it is about to start has both (`LoneKnows`). From such a start until
  requests overlap, each container that has the name has the row's port, and, whenever nobody is about to
  make it anew, the last configuration (`Calm`); `GamesInv` is both. No command of Docker that fails or
  only seems to, and no stale write of the health checker, touches either.
* `MirrorsTyped`, with who holds the mutex of the syncs; `ForgeTyped`: all three.

`PullRequests_proofs`: `PullRequestsMergesAreSound`, `PullRequestsNothingIsDropped`,
`PullRequestsBranchIsGuarded`, `PullRequestsTyped`. `PushedInv` carries what was pushed to
the moment its row is written; `AloneInv` says that a pull request not raced has one
request at it and is open, so that nobody else writes its row; `HeadInv` ties what a merge
works on, its head and what was let through together while the head stays and could be read; and
`HookInv` says that a push with no other beside it finds in the hook's file what
it wrote. That a push does not drop anything is no invariant but a property of the one
action that writes the branch (`BaseEffect`).

`Repositories_proofs`: `StorageFollowsRows`, `RepositoriesTyped`. A creation is alone
with its new id and knows what is at its path (`MakerInv`); a deletion that goes on
to the row left nothing there, or litter (`DropInv`); so a directory has an owner
(`OwnedInv`) and a listed repository its directory (`ListedInv`). For the quota every
push that was let in counts as done (`WithinQuota`): a check admits one
below the quota, and each other client can have one more in flight; or the directory has what an import
brought and no push was let in (`AsBrought`).

`Stores_proofs`:

* `ShopIsSound`. "Overdrawn never" is inductive; "orders are paid" is not: each order yet
  to be written and each refund yet to be given needs a debit of its own, so
  `OrderedInv` counts the requests at the places from which one of the two can
  come.
* `ServicesSound`, `WorkingStays`, `ServicesTyped`. Who is alone with a service finds no row of it and
  inserts the password it set (`SvcAlone`, `SvcFresh`); where a command goes on that nobody waits for,
  nobody inserts a row unnoticed, and none is there that it would spoil (`SvcLate`); every request whose
  count worked counts as a row (`SvcQuota`). That a working PostgreSQL or MySQL service keeps
  working needs that no password in a row is 0 (`SvcKeyed`), the value of "nothing is there".
* `MailboxesSound`, `MailboxesTyped`. Ids are not given twice, so a removal by id hits the row it read
  (`MailIds`); by place, what a request that is alone knows of account and row (`MailWork`); a request whose
  count worked counts as its row (`MailQuota`).
* `BackupsSound`, `BackupsTyped`. The flag excludes runs and restores; deletion and retention
  do not know of it, so `BakTouched` and `BakUnique` tell whose a directory is. That
  the nightly run leaves no stray directory is inductive only when rows that a
  removal is about to delete do not count as telling of it (`BakNightly`), and only where no statement or
  removal failed (`failed`).
* `StoresTyped`: whichever of the four a behaviour exercises keeps its own invariant.

`Records_proofs`:

* `NobodyIsToldTooOften`, `MonitoringTyped`. What was sent and noted is in the row and in the copy that
  the pass has of it (`RowsNote`, `PassNotes`, `CurNotes`): an owner's write must
  leave `last_triggered` to the worker, and keep the row's app. A sweep that means to prune
  read an interval that is over (`SweepInv`).
* `IssuesSound`, `IssuesTyped`. The numbers filed are 1..k, and a number read before is at most
  the next (`NumbersInv`); a request alone at an issue finds its labels as meant,
  and, at the commit, sees all rows it deletes (`TagsInv`).
* `UsersSound`, `AccountsTyped`. A request at the defaults that was always alone has seen them all when
  it commits; unless they are muddled, every request there is of this kind and at most one plan
  is the default (`DefaultsInv`). A request that has counted all and is about to insert counts as an app
  (`BoundedInv`).
* `HostFits` (`LimitsFit`). A request that summed up a listing that was whole, and that no change of a row
  made stale since, still finds room for its own limit (`Summed`). An insertion, and the
  whole-row write of an owner or a deploy, makes all others stale; a deletion only makes room.
* `ViewsCountedOnce`, `ViewsAreKept`, `AnalyticsTyped`. A view not yet read is at most as old as there were
  troubles (`UnreadInv`), so it comes before its hour is purged. An hour that no threshold fell
  into is purged whole and in the past (`PurgedInv`), after it was aggregated (`AggregatedInv`,
  `YoungInv`); an hour is dropped after it was compacted (`CompactedInv`); so a view that is purged is
  in the row of its hour, or in that of a day that is over and has no view and no hour left (`HeldInv`). Once
  counted stays once, since an upsert replaces (`OnceInv`). The proof needs that hours are
  compacted at least an hour later than views are purged, which TLC shows to be necessary and the
  code has (7 and 30 days, `aggregation_worker.go:49` and `:58`).
* `SumsRight`, `RecordsTyped`: the same of the composition, by the invariant of the component in focus
  (`RecordsInv`).

Sums are defined by a fold, a recursive function on the subsets of a set. `FiniteSums` proves what
the sum over a set with one element more, or with fewer, is, without induction over sets: of
the subsets for which a fact does not hold it takes one of least cardinality.

The limits that can be overrun share one argument: a check admits a request at a
count below the limit, so the last one admitted found at most limit - 1 rows and
the other clients have one request each. That is where the bounds
`... + Cardinality(Clients) - 1` come from, and the lemmas about cardinalities.

Assumptions, all in the modules that declare the constants: bounds are naturals;
sets of clients, databases, repositories, pull requests, labels, addresses and the like are finite; values for "none"
(`NoApp`, `Null`, `Nobody`, `NoPlan`, `NoAddress`, `NoRemote`, `NoJob`, `Direct`) are none of the
things; the nightly worker is no client; plans, cooldowns, quotas and intervals that the
code has as positive are positive; the default interval and fill of cleanups are among those that may be set;
service types are those the code offers;
hours divide days, and views, hours and days are kept for longer and longer (with the hour between,
see above); troubles of reading the log are shorter than the age of views.

Only model-checked: liveness under fairness, which TLAPS cannot prove: `VerdictReached`,
`LockReleased`, `QueueDrains`, `StatusConverges`, `RunsProgress`, `MirrorConverges`,
`GameRowConverges`. Every invariant and every action property of a passing run is proved. What the composing
modules show of one component is proved for that component's own specification (the types and
`SumsAreRight` for the composition too).

## 5. Not modelled

Not modelled: logging, audit, presentation, the content of builds and
environment, tokens and sessions of GitHub, comments of issues and pull requests,
the failure of `SystemPrune` (`cleanup_worker.go:112`), releases and tags, console commands of games, archive formats, the build agent,
dashboard, community, database explorer, images. A deletion of a web app beside a deploy
is not composed with the pipeline.
