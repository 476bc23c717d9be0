# Formal models of gitlab-enhanced

TLA+ models of the concurrent and stateful parts of this repository, the TLC
configurations that check them on small instances, and TLAPS proofs of the results
that hold for every instance. `PROJECT.json` lists components, runs, hazards, findings
and theorems, and maps every definition to the lines it models.

## 1. Inventory

gitlab-enhanced is a set of Go services and a command line around a GitLab
installation. About 8 000 lines are the repository's own; two larger systems are kept
in the tree as source and deployed with it: garm, the GitHub Actions runner manager
(`ci/runners/garm`, with its provider for Incus), and the supervisor that runs inside a
workspace (`environments/supervisor`). The rest is vendored, declarative deployment or
shell.

| Component | State | Operations | What is hard |
|---|---|---|---|
| **Runner pool manager** `ci/runners/garm-gitlab` | per pool a map of instances under a mutex, a SQLite table, Incus containers, GitLab runner registrations, a bounded event channel | webhook, dispatch, scale up, create (five external calls), reconcile every 30 s, scale down, destroy, load on start, shut down | goroutines that check under a lock and act for minutes without it; partial failure of a five-step creation; crash between two stores; signals in the middle of calls |
| **Rewards service** `rewards/`, `store/` | SQLite tables of rewards, wallets and settings; rates in memory; money at a provider | webhook, register wallet, set rates, payout, shut down | overlapping payouts over snapshots; lost replies of the payment provider; redelivered hooks; crash between paying and recording |
| **Bandwidth proxy** `bandwidth/` | artifact table, files, hard links, counters | proxy with compression, LFS deduplication, register and evict artifacts | file system steps that fail half way; two callers on one temporary name; buffer at its limit |
| **Storage chain** `abstraction/storage` | one key space per backend | put, get, delete, stat, list over a chain with fallback | backends out of step after a partial failure; availability that changes between calls |
| **DwarFS pins** `ipfs/dwarfs-pin` | index file from path to CID, pins of an IPFS node | pin, unpin, stat | paths that share a CID; index and node out of step |
| **Environments** `abstraction/environment` | Incus containers and proxy ports | create, start, stop, delete | check-then-act on ports; no clean-up after partial creation |
| **Job runners** `abstraction/runner` | Incus containers by name | run, cancel | prefix matching on names; cancellation during creation |
| **garm provider** `runtime/garm-provider-gitlab` | none of its own | create, delete, list instances | one call of two failing |
| **garm pool manager** `ci/runners/garm/runner/pool` | per pool: instance rows, a key mutex, a delete backoff; machines at a provider; runners in GitHub | loops that add, create, retry, scale down, clean up and delete; webhooks, callbacks of instances, the API | every loop works from a listing that is out of date; provider calls run for minutes in goroutines; restart in the middle of them |
| **garm job dispatch** `runner/pool`, `database/watcher` | the jobs table with a lock per entity, a map of jobs per pool manager | webhook, lock, unlock, break lock, consume, clean up stale jobs | two managers get the same webhook and share the row; changes reach the maps in any order or not at all |
| **garm scale sets** `workers/scaleset`, `workers/provider` | the worker's map of runners, the provider worker's map and a manager per instance, the message queue of the listener | scale up and down, consolidate with GitHub and the provider, job messages, create and delete machines | three copies of each instance kept in step by asynchronous changes; the map is the only capacity check |
| **Workspace supervisor: ports** `environments/supervisor/pkg/ports` | served, exposed and tunneled ports, proxies, automatic exposures, subscriptions | merge four observers in one loop; tunnel, close, expose, retry, subscribe | two locks taken in different orders with an unbuffered channel between them; observers that report late |
| garm services, `garm-provider-incus` | the database; none | API, authentication, templates; one-shot commands | create, read, update, delete; no protocol of their own |
| **Command line** `cmd/gitlab-enhanced` | none | up, down, status, ... | a cancelled command reported as success |
| Image builders, configuration, LFS server abstraction, pin helper | none that lives on | one-shot | nothing concurrent |

How they interact: GitLab posts job hooks to the pool manager and system hooks to the
rewards service; the rewards service registers pipeline artifacts with the bandwidth
proxy over HTTP; rewards and bandwidth share the `store` package (one SQLite file
each, one connection); the command line starts and stops the services. In garm, GitHub
posts job webhooks, which an API handler passes to every pool manager of the job's
repository, organisation and enterprise; instances call back while they install; a
database watcher copies every change of a row into the maps of managers and workers;
the provider is a command that is executed per call. In the supervisor, observers of
`/proc`, of the server, of the tunnels and of `.gitpod.yml` send lists to
`Manager.Run` while clients call the manager over gRPC.

What makes them correct, in one line each. *Pool manager*: what the map and the store
say exists was completely built and is kept in step, the pool returns to its minimum,
scaling down never undercuts it, jobs get runners, signals end the process. *Rewards*:
every contribution leads to one transfer, and the table tells what was sent.
*Bandwidth*: no content is lost by deduplication and no artifact outlives its policy.
*Storage*: what was put can be read back. *Pins*: what the index lists is pinned.
*Environments, runners*: one container per name, none left behind, no two on a port.
*garm pools and scale sets*: no machine without a row, never more rows than allowed,
no machine taken from under a job, what was interrupted or forgotten is removed. *garm
jobs*: one manager at a time spawns a runner for a job, and a row does not say queued
for ever. *Ports*: clients see the true ports, automatic tunnels do not touch those of
users, and the loop never stops.

## 2. Modules

| Module | Models | Kind |
|---|---|---|
| `RunnerPool` | the pool manager alone | component, properties |
| `RunnerJobs` | the pool manager and GitLab's job queue | composition |
| `MCRunnerPool`, `MCRunnerJobs` | instances for TLC | |
| `RunnerPoolProofs` | theorems about `RunnerPool` | proofs |
| `RunnerJobsProofs` | jobs are lost to scale-down only | proofs |
| `Rewards` | the rewards service, its tables and the payment provider | component, properties |
| `MCRewards` | instances for TLC | |
| `RewardsProofs` | theorems about `Rewards` | proofs |
| `ObjectStore` | what a caller of `storage.Backend` expects: one key-value store | abstract specification |
| `StorageChain` | the storage chain over its backends, run by concurrent commands | component, properties |
| `MCStorageChain` | instances for TLC | |
| `StorageChainProofs` | `StorageChain` implements `ObjectStore`, and more | refinement, proofs |
| `GarmPool` | one pool of garm: rows, machines, GitHub, locks and loops | component, properties |
| `GarmPoolProofs` | theorems about `GarmPool` | proofs |
| `GarmJobs` | webhooks, the jobs table, the watcher and the job maps of garm's pool managers | composition, properties |
| `GarmJobsProofs` | theorems about `GarmJobs` | proofs |
| `ScaleSet` | a scale set worker, the provider worker, the listener's messages and the watcher | composition, properties |
| `ScaleSetProofs` | theorems about `ScaleSet` | proofs |
| `Ports` | the port manager of the workspace supervisor with its observers | component, properties |
| `PortsProofs` | theorems about `Ports` | proofs |
| `MCGarmPool`, `MCGarmJobs`, `MCScaleSet`, `MCPorts` | instances for TLC | |

### RunnerPool

A step is the code between two points where another goroutine can run: one critical
section of `Pool.mu`, or one call of Incus, GitLab or SQLite. Threads are one
reconcile goroutine per pool (`Pools` names them) and the scale-up goroutines
(`Workers`); `pc` says where in `createInstance` or `destroyInstance` each is and `at`
which instance it works on. `instances` is the in-memory map, `stored` the SQLite
rows, `incus` and `runner` the outside world. `idle`, `current`, `todo`, `cands` are
the locals of `reconcile` and `scaleDownIdle` that go stale while they are used.

| Action | Code (`internal/pool/pool.go` unless named) |
|---|---|
| `Webhook` | `WebhookHandler.ServeHTTP`: non-blocking send, dropped when full |
| `Dispatch` | `Manager.Run`, `Manager.dispatch`: one goroutine per matching pool |
| `ScaleUpSkip`, `ScaleUp` | `scaleUpIfNeeded` |
| `Create*`, `Prepare*`, `Register*`, `Start*`, `UndoRunner`, `UndoInst`, `Save`, `Add` | the steps of `createInstance`, their failures and clean-up |
| `Tick`, `Grow`, `Shrink`, `Settle` | `reconcileLoop`, `reconcile` |
| `Pick`, `PickNone`, `Deregister`, `DeleteOK`, `DeleteFail`, `Unstore`, `Forget` | `scaleDownIdle`, `destroyInstance` |
| `Signal`, `ManagerStop`, `ReconcileReturn`, `Exit` | `main.go`, `Manager.Run` on `ctx.Done` |
| `Crash`, `Restart`, `Recover` | kill; `NewManager`, `loadFromStore`; systemd |
| `Sweep` | external: leftovers are removed by hand |

Every call may fail, and a failed call may have taken effect: `CreateFail` leaves any
container state, `RegisterFail` may leave a registration, `DeleteFailed` may have stopped
or removed the container. `phase` tells two ends of the process apart: after a kill or an
error of the listener it is `down`, and systemd starts it again; after SIGTERM `main`
returns nil, and with `Restart=on-failure` (deploy/garm-gitlab.service) it stays `stopped`
until somebody starts it, which `Restart` allows but nothing owes. Once the context is
done, calls that take it fail without being counted as faults. Abstractions:
`Instance.Status` is only ever "idle" and `LastJobAt` only ever the zero time in the code,
so neither is a variable and every tracked instance is a scale-down candidate; names and
tokens are left out; time is left out, so a tick can happen whenever the loop sleeps and
every call takes arbitrarily long.

### RunnerJobs

Adds jobs to the pool manager. A job becomes pending and its event is posted once, to a
listener that may be down; a ready runner takes a job its tags allow; a job whose
container is stopped under it is lost. GitLab and the runner are external.

### Rewards

A step is one SQL statement (there is one connection, so statements are atomic), one
access to `s.rates`, or one call of the payment provider. `rows` and `status` are the
rewards table, `wallets` and `saved` the other tables. A payout request (`Handlers`)
goes through `loadPendingRewards` (snapshot into `list`), then for each reward, oldest
first, `Skip` or `loadWallet`, `Prepare` (credentials, Uphold token or Ethereum nonce),
`Submit`, `Record` (the UPDATE by id, whose error is ignored), and `Respond`. The
webhook is two steps, `rateFor` outside the lock and `QueueReward` inside, and may be
delivered any number of times. `method` is chosen once: Uphold, ERC-20 or no
credentials. `ledger` is what really was transferred. `Stop`, `CloseDb`, `Exit` model
`Start`'s shutdown, which closes the database after 5 s whether or not requests are
done. A reward id is type, 0 and number: `handleGitLabWebhook` never fills in the
project. `born` is the row's position in the order of `queued_at`. Amounts are natural
numbers; ABI, RLP and signatures are left out, as is the data race on `s.rates` beyond
a stale read (each event reads one word).

### StorageChain and ObjectStore

`gitlab-enhanced storage put|get|delete|stat` is a process with a chain of its own, so
commands (`Clients`) meet only in the backends. A step is one call of a backend: its
`Available`, or one request of its operation. `at` is the position in the loop of
`Chain.Put`, `Chain.Delete` or `Chain.active`, `wrote` and `err` its locals; `content` is
what the backends hold. A backend outside `setup.stable` may answer anything at any
call: unavailable (`Unavailable`), an error with or without effect (`WriteFail`; IPFS
truncates and rewrites, so `Torn` is possible there, while a local rename and a blob
commit are atomic), a timeout whose request is carried out later (`WriteTimeout`,
`Arrive`), a status 500 that the IPFS backend takes for "does not exist"
(`DeleteIgnored`, `ReadMistaken`). `CloudBackend.Available` only says that the bucket was
opened; `sync.Once` caches that for one command, which asks once, so it is no variable.
A command may be killed at any point (`Kill`): between two calls, or inside one, when a
request to a remote backend may be left on its way, however reliable the backend is
(`LeftBehind`); of the chunked upload of IPFS also the part that cuts an object short.
`skipped`, `alone` and `acked` are history.

`ObjectStore` is the contract of the `Backend` interface, which `Chain` also claims to
fulfil: a call takes effect at one moment, and a call that returned an error, or whose
caller was killed, may or may not have. A call that was given up may still take effect
once after its end (`GiveUp`, `Straggle`), whole or, for a put, `Torn`; `FirstIsAtomic`
says which first backends never show this. The refinement mapping takes the first backend
for the store, and a call for done once its command is past it.

### GarmPool

A step is one database transaction, or one call of the provider or of GitHub, with the
lock operation next to it. `row`, `rs`, `attempt`, `age` and `ripe` are the columns of
the instances table, `vm` the machines, `gh` the runners in GitHub. `list` is what each
loop still has to do from its last listing, which is how stale it works; `gor` are the
goroutines, each with the instance it works on and where it is; `locks` is the
`keyMutex`, `backoff` the delete backoff. `UpdateStatus` and `ForceStatus` are
`UpdateInstance` with `InstanceStatusTransitions` and `ForceUpdateInstance` without it:
a refused transition is an error that the caller handles or ignores, as in the code.

| Action | Code (`runner/pool/pool.go` unless named) |
|---|---|
| `AddList`, `AddPending`, `CreateCall`, `CreateRecord`, `CreateCleanup`, `CreateFail` | `addPendingInstances`, `addInstanceToProvider` and its deferred removal |
| `RetryList`, `RetryOne`, `RetryCall`, `RetryRequeue` | `retryFailedInstancesForOnePool` |
| `DelList`, `DelPending`, `DelMark`, `DelCall`, `DelDrop`, `DelRestore`, `BackoffOver` | `deletePendingInstances`, its goroutine and deferred restore, `locking` |
| `EnsureMinIdle`, `AddRunner`, `AddRunnerRefused`, `CreateInstance` | `ensureMinIdleRunners`, `AddRunner`; `database/sql/instances.go` counts and inserts |
| `ScaleDownList`, `ScaleDownOne` | `scaleDownOnePool` |
| `ListGithub`, `Reap*`, `Provider*`, `Github*`, `Orphan*`, `Abort`, `CleanupEnd` | `runnerCleanup`, `reapTimedOutRunners`, `cleanupOrphanedProviderRunners`, `cleanupOrphanedGithubRunners` |
| `HookInProgress`, `HookCompleted`, `CompletedMark` | `handleInProgressJob`, `handleCompletedJob` |
| `Callback`, `AgentTerminated`, `AgentMark`, `ApiDelete`, `UpdatePool` | callbacks of the instance and the agent, the API |
| `StartOne`, `StartLoops`, `UpdateTools`, `Crash` | `cleanupRunnersInterruptedInFlight`, `Start`; kill |
| `RunnerOnline`, `JobStart`, `JobDone`, `VmFault`, `LoseHook` | external: GitHub and the provider |

Simplifications: runners use JIT configuration, so GitHub knows a runner before its row
exists; locks the reaper and scale-down keep to the end of their function are released
when they are done with the instance; a provider call dies with the process. Times are
ages: less than five minutes, less than the bootstrap timeout, longer.

### GarmJobs

Every pool manager of a job's entities handles each of its webhooks in a thread of its own
(`threads`): `HookRead` is the read and the forward-only check of `persistJobToDB`,
`HookWrite` the later `CreateOrUpdateJob`. `row` is the row they share, with `LockedBy`.
Each write sends a change (`events`), which a goroutine delivers in any order or, after a
second, not at all (`Apply`, `DropEvent`), into `jobs`, the manager's map. `ConsumeStart`,
`ConsumeLocked`, `ConsumeFree` and `Spawn` are `consumeQueuedJobs` over the copy `todo`,
with `LockJob`, `UnlockJob` and `BreakLockJobIsQueued` of `database/sql/jobs.go`;
`DeleteInactionable` and `ScaleDown` remove or correct rows, and so does
`reconcileStaleJobs` in two steps: `ReconcileStaleJobs` asks GitHub about a row and
remembers it in `judged`, `ReconcileDelete` deletes it later, whatever it says by then.
`JobTaken` lets a runner take any job, so that a runner spawned for one runs another
(`strayed`). Left out: label matching (every pool matches), the job backoff (zero),
webhooks of scale set jobs (their jobs only take runners away).

### ScaleSet

| Action | Code |
|---|---|
| `ScaleUp`, `ScaleUpFails`, `ScaleDown`, `SetTarget` | `handleAutoScale`, `handleScaleUp`, `handleScaleDown`, `handleScaleSetEvent` |
| `ConsolidateList`, `ReapOne`, `MissingOne`, `ConsolidateProvider`, `GoneOne`, ... | `consolidateRunnerState`, over two lists taken at different times |
| `HandleEvent` | `handleInstanceEntityEvent`, `handleInstanceCleanup` |
| `HandleStarted`, `HandleCompleted` | the listener: `HandleJobsStarted`, `HandleJobsCompleted`, acknowledgement |
| `HandleInstanceEvent`, `ApplyHeld` | provider worker: `handleInstanceEvent`, `updatesLoop` of a manager |
| `CreateStart`, `CreateCall`, `CreateRecord`, `CreateFail`, `CreateClean`, `DeleteStart`, `DeleteDone`, `DeleteFail`, `HandleError`, `Finish` | `instance_manager.go`: `consolidateState` |
| `ApiDelete` | the API: an ordinary removal, a forced one, one that bypasses GitHub |
| `Crash`, `StartList`, `StartCreating`, `StartOne`, `StartDone` | kill; `Worker.Start` |

A creation that fails is followed by the deferred `DeleteInstance`, which may fail as well
and is only logged: the machine stays, under a row in `error`. `Start` compares GitHub's
raw status ("online", "offline") with "idle" and "active", which never matches
(scaleset.go:244-245), so `StartCreating` marks every row in `creating` for deletion (or
keeps it when GitHub fails), as the code does and not as its comment says. The history
sets `late`, `bypassed`, `forced` and `botched` name the runners the properties make an
exception for: registered after GitHub was listed; deleted although GitHub refused;
deleted by force while the provider failed; creation failed, or found half done by a
restart.

`runners`, `entry` and `mgr` are the three copies of `row`, `wev` and `pev` the changes
on their way to them. Names have no locks here: the provider worker takes none, and the
scale set worker holds its locks only inside its own mutex.

### Ports

A step is a section under one lock, or one receive of the select in `Manager.Run`. `pm`,
`tun` and `exp` are the fields of the manager, of the tunnel service and of the exposed
ports with their observers; `mu` says who holds `Manager.mu`, and `tun.obs = "send"`
that the tunnels' observer holds the tunnel service's lock and waits for Run.
`Receive*` are the cases of the select, `UpdateState`, `UpdateServed` and
`UpdateTunnels` the parts of `updateState` (split where it calls the tunnel service),
`Tunnel`, `AutoTunnel`, `CloseTunnel`, `Expose`, `Subscribe` the calls of clients, with
`TunnelDone`, `AutoTunnelDone`, `AutoTunnelClosed` and `SubscribeDone` where they come back
from the tunnel service or from the send. A changed status goes to one subscriber after the
other while Run holds `mu` (`Notify`). The clients of a tunnel are a Go map, which the
tunnel, the manager's copy of the list and its state share and `EstablishTunnel` and
`CloseConn` change in place; maps are numbered, so that two states can be equal because
they share a map, as `reflect.DeepEqual` finds (ports.go:313), while a subscriber has the
contents of the time it was sent. A tunnel is closed before its connections are, one by
one (`CloseConn`; `Orphan`: one whose tunnel is closed). `Listen`, `Unexpose` and `Cancel`
are processes, the server and the shutdown. Left out: names and URLs, the target port of a
tunnel, the six attempts of one exposure, which are one step with either result, and the
crash with which Go may answer two unsynchronised accesses to the shared map.

## 3. Runs

| Run | Instance | Shows |
|---|---|---|
| `pool_safety` | one pool, two scale-up goroutines, four ids, one fault of nine kinds | `TypeOK`, `StoreMirrorsMap`, `OvershootBound`, `BornReady`, `OnlyDestroySpoils`, `NeverBelowMinIdle`, `RecordOutlivesContainer`, `LeaksOnlyThere` |
| `pool_live` | one pool, one scale-up goroutine, two ids, three faults of eleven kinds, store faults included | `KeepsWarm`, `ShutsDown` |
| `jobs_served` | two jobs; one crash or SIGTERM | `JobsServed` |
| `rewards_safety` | two contributions, two overlapping requests, three methods, two inserts, one fault of eight kinds | `TypeOK`, `NeverSilentlyPaid`, `SentIsSettled`, `BoundedRepay` |
| `storage_chain` | two commands; all three backends with a stable disk, IPFS and cloud with a stable node, IPFS and cloud with nothing stable, a stable cloud alone | `TypeOK`, `AckedIsMirrored`, `OneStore` |
| `garm_pool` | two names, MaxRunners 1, minimum idle 0 or 1, one fault of eight kinds | `TypeOK`, `Exclusive`, `NoOrphanMachine`, `RowCap`, `BusyIsSafe` |
| `garm_live` | one name, one fault of five kinds | `InterruptedRecovers`, `ForgottenGoes` |
| `garm_jobs` | one job reported to one entity or to two; a repeated webhook or a restart | `TypeOK`, `LockCovers`, `OnlyStaleGoesBack` |
| `garm_jobs_live` | one entity; a lost webhook or change | `StaleGoes` |
| `scaleset` | two names, MaxRunners 1, one fault of nine kinds | `TypeOK`, `RowsKnown`, `RowCap`, `NoOrphanMachine`, `AckMeansDoomed`, `BusyIsSafe` |
| `ports` | a user's port and an internal one, two configuration files, two inputs | `TypeOK`, `SubscribersCurrent`, `UserTunnelKept`, `AutoOffClosesAll`, `Settles` |
| `ports_stuck` (violation) | the same ports, two inputs | the loop of the manager stops for ever: `KeepsRunning` fails |

**What the properties say.** `StoreMirrorsMap`: map and store differ only on an instance a
thread is between the two writes of. `BornReady`: an instance becomes known only as a
complete, registered, serving runner. `OnlyDestroySpoils`: nothing but its own
`destroyInstance` makes a known runner unusable. `NeverBelowMinIdle`: scaling down on
stale counters never undercuts `MinIdle`. `RecordOutlivesContainer`: a row goes only after
its container. `LeaksOnlyThere`: the exact places where a container can be let go of: a
failed creation call, a failed clean-up call, the end of the process. `OvershootBound`:
the check-then-create race costs at most one instance per goroutine in flight, as long as
no row stays behind a deleted instance. `KeepsWarm`: after the last failure the pool is
back at `MinIdle` tracked instances for good, unless SIGTERM has stopped it, though saves
and deletions of rows fail and a crash follows. `ShutsDown`: SIGTERM ends the process.
`JobsServed`: with a warm instance every job gets a runner, even if its event is lost,
unless the process stays stopped or the warm instance is a row whose container a crash
left deleted. `NeverSilentlyPaid`: a paid row has a transfer. `SentIsSettled`: a sent
reward is pending only until its UPDATE, or after a failure. `BoundedRepay`: one row is
sent at most once per concurrent request, times one plus the failures. `OneStore`: if the
first backend is stable, the chain implements `ObjectStore`, also when commands are killed
inside a call: such a call takes effect once or never, perhaps after its end, and with the
disk first neither late nor torn; without that it does not, since a backend that was away
comes back with old objects and `Get` asks nobody else. `AckedIsMirrored`: a write that
returned nil is on every backend it did not find unavailable, until the next write of the
key begins; it needs the proviso that no other write of the key overlapped it, because two
commands may pass the backends in different orders and leave them different for good.

*garm pool.* `Exclusive`: at most one goroutine works on an instance, and its row does
not go away under it. `NoOrphanMachine`: whatever fails and whenever the process
restarts, no machine loses the row through which it will be removed, unless an
administrator forced it, or the machine is newer than the list of the provider a
clean-up works from (section 5 says how that happens). `RowCap`: the idle loop,
the job consumer and the webhooks together never exceed `MaxRunners` although each
counts first and inserts later, because the insertion counts again in its transaction.
`BusyIsSafe`: the exact cases in which a busy runner may be marked for deletion.
`InterruptedRecovers`, `ForgottenGoes`: what a restart interrupted, and what GitHub has
forgotten, is removed in the end.

*garm jobs.* `LockCovers`: the lock in the row, and not the maps, keeps the two managers
from both spawning. `OnlyStaleGoesBack`: the forward-only rule of the statuses is broken
only by overlapping handlers, whose check and write are different transactions.
`StaleGoes`: such a row, or one whose webhook was lost, is corrected or removed.

*Scale sets.* `RowsKnown`: the map the worker counts has every row, though changes
overtake each other, also over a restart. `RowCap`: hence `MaxRunners` holds, although
nothing counts rows. `NoOrphanMachine`: also a machine that a failed creation and its failed
clean-up left has a row that leads to its removal, unless an administrator forced the
removal and the provider failed. `BusyIsSafe`: of no decision from an old copy, but of a
runner of `late`, `bypassed` or `botched` (section 2), does a busy runner lose its machine;
that a restart takes one is section 5's `SparedAtStart`. `AckMeansDoomed`: a
job message is acknowledged only once its instance is on the way out, so a completion is
never forgotten.

*Ports.* `SubscribersCurrent`: no change falls between the initial status of a
subscription and the updates after it, nor past a subscriber an update has still to serve;
the clients of tunnels are left out, since nobody is told of them (section 5,
`SubscribersKnowClients`). `UserTunnelKept`, `AutoOffClosesAll`: automatic
tunnels come and go in a table they share with those of clients, and neither disturbs
the other. `Settles`: after the last input the manager knows the true ports, does not
take a proxy of its own for a process, and has answered each automatic exposure; or
everything is closed after a shutdown; or the locks form the cycle of `ports_stuck`.

**Bounds.** `Inst`: four ids let two goroutines create one each beside one that is
destroyed and one leaked, so that `OvershootBound` can be reached; the liveness runs have
two. An id without traces may be used again (`Fresh`), which stands for a new id.
`Workers` bounds concurrent `createInstance` calls of scale-up goroutines: two show every
race between two of them. `MaxSpawned` and `ChanCap` are small so that the channel fills
up. `MaxFaults` 1 lets any fault meet every interleaving; what needs several, such as a
failed save followed by a crash and a signal, is in `pool_live` with 3. `MaxQueued` 2 lets
two rewards add up, or one be redelivered; `Handlers` 2 lets two requests overlap. One key
is enough for the chain, which treats keys independently, two contents let a newer and an
older one meet, and one late request (`MaxLate`) lets it overtake. Symmetry is used for
payout requests, commands, contents and entities, in runs without liveness.

Names of garm are used once, as in the code, so they bound the instances of a behaviour.
One name goes through its whole life with every fault; the second lets adders race for
the last place, and the constraints `SecondIsBrief` and `Brief` follow it only while
nothing fails. `MaxPasses` bounds the loops that are between a listing and its end;
`garm_pool` has 1, beside which every goroutine, webhook, callback and API call runs at
any time. What needs two loops at once is left to the proofs, which have no bound, and to
`GarmPoolStaleList.cfg`.
`TwoAreBrief` splits `garm_jobs`: two managers without faults and with one webhook at a
time, one manager with everything. `MaxEvents` 2 lets two changes overtake each other,
and `MaxThreads` 2 lets two webhooks overlap. In `ports` an internal port and a user's
meet every case of the code; two inputs let a call meet another, a process, the
configuration or the shutdown, and `CancelIdle` lets the shutdown come while Run is at
its select and no list and no exposure is on its way to it.

`CHECK_DEADLOCK FALSE` stands where the system really stops: names, jobs, inputs or
hooks of the instance are used up, the process has been told to exit, or the manager of
the ports is cancelled or in its cycle of locks.

**Fairness.** Every goroutine that can run does (the Go scheduler), every call returns
(HTTP clients and contexts have time limits), the ticker ticks, and systemd restarts the
process after a failure and only then (`Restart=on-failure`; `Recover`). Events, faults,
signals and crashes are owed to nobody. `Sweep` is fair only to undo the bound on ids:
leaked containers would otherwise use them up. In `RunnerJobs` GitLab posts the event of a
job, runners poll, and jobs end. In `GarmPool` the loops tick, goroutines and time go on;
the delete loop finds a name unlocked sooner or later (it ticks every five seconds and
nobody keeps a lock), and a listing is taken again and again, so these are strong. In
`GarmJobs` fairness is strong only where the bound `MaxEvents`, which the code does not
have, makes a step wait, and for the check of a stale row: `reconcileStaleJobs` asks for
five rows in each cycle, so a row waits for good only behind five whose request fails
every time, which the model does not let happen; a lost webhook or change is owed to
nobody. In `Ports` goroutines run; the receives that compete with the endless lists of
served ports are strong, since Go's select picks among ready cases at random, and so are
the steps that take `mu`, since Go hands a lock to the one that waits; clients, processes
and subscribers owe nothing.

## 4. Proofs

Every invariant and every action property of the runs is a theorem for all values of the
constants; two of them need a hypothesis, which `RunnerPoolProofs` below gives. Each proof
goes the same way: the property with the strengthening that makes it inductive, one lemma
per kind of step, and the temporal conclusion from both. Only what the code can be
configured with, finiteness of the sets and bounds that are numbers are assumed.

**`RunnerPoolProofs`**, for every number of pools, instances, goroutines, events and faults:

| Theorem | States |
|---|---|
| `TypeCorrect` | `Spec => []TypeOK` |
| `MinIdleKept` | `Spec => NeverBelowMinIdle` |
| `RunnersBornReady`, `DestroyAloneSpoils` | `Spec => BornReady`, `Spec => OnlyDestroySpoils` |
| `RecordsOutlive`, `LeaksThereAlone` | `Spec => RecordOutlivesContainer`, `Spec => LeaksOnlyThere` |
| `StoreKeptInStep` | `Spec => []StoreMirrorsMap`, if neither "save" nor "unstore" is in `FaultKinds` |
| `OvershootAccounted` | `Spec => []OvershootPaid`: at most `MinIdle`, one per scale-up goroutine and, where deletions of rows may fail, one per fault |
| `OvershootBounded` | `Spec => []OvershootBound`, if "unstore" is not in `FaultKinds` |

The base is `IndInv == TypeOK /\ Control /\ Ownership /\ Floor`. `Control` ties a thread's
program counter to whether it holds an instance. `Ownership` says that no two threads hold
the same instance, that what is being created is not tracked yet, and that candidates and
what is being destroyed still are; it is what makes `Forget` remove exactly one entry.
`Floor` says that reconcile's stale counters never promise more than the map holds: `idle`
is a lower bound of the map's size while it creates, and what is left to remove leaves
`MinIdle`. `MapSteps` then shows that a live map shrinks only in `Forget`.

For the rest every step is first put into one of a few classes (`StepCases`): the move of
one thread, which touches only its own instance (`OnlyAt`), a step that touches neither
threads nor instances, a sweep, the end of the process, a restart. `Upright` says what has
been built when: a runner is registered from `start` on, its container serves from `save`
on, and the container is gone when its row goes. `Unlisted` and `Mirror` relate the two
writes of a creation and of a deletion to each other. `Ceiling` counts: a pool's
instances, those scale-up goroutines are making and those reconcile still has to make stay
together within `MinIdle` and one per goroutine, since a goroutine names an instance only
when it sees an empty pool and reconcile only while its count is below `MinIdle`. Rows
that stay behind a deleted instance (`Left`) are loaded by the next restart as instances;
`Ceiling` moves them to its allowance `g` there, and `g` with the rows still left is never
more than the faults so far, or 0 if deletions of rows do not fail (`Spent`).

`OvershootAccounted` has no hypothesis, and `OvershootBounded` follows from it. The two
hypotheses are necessary, not a convenience: TLC finds `StoreMirrorsMap` violated with a
failing save, and `OvershootBound` with a failing deletion of a row followed by a crash.
`pool_safety` checks both properties without failing stores. Assumptions:
`ConfigAssumption` (what `Config.validate` guarantees) and `WorldAssumption` (finite sets,
distinct names).

**`RunnerJobsProofs`**, for every set of jobs:

* `JobsLostToScaleDown`: `JobSpec => LostToDestroyAlone`: a job on a runner the manager
  knows is lost only in the deletion step of its pool's `destroyInstance`. The code does
  destroy busy runners there (`RunnerJobsBusy.cfg`), but it loses such a job nowhere else,
  no matter what fails, overlaps, crashes or restarts. It rests on `PoolUndisturbed` (a
  behaviour with jobs is one of the pool manager, by the shape of the composition) and on
  the invariants of `RunnerPoolProofs`.

**`RewardsProofs`**, for every set of contributions, wallets, rates, requests and faults:

* `RewardsTypeCorrect`: `Spec => []TypeOK`;
* `PaidIsBacked`: `Spec => []NeverSilentlyPaid`;
* `SentIsRecorded`: `Spec => []SentIsSettled`;
* `RepayIsBounded`: `Spec => []BoundedRepay`.

The invariant adds `Table` (a row stands under its own id), `Held` (whatever a request
holds or the ledger shows came from the table and is not younger than the row that has
its id now; recorded success is backed by the ledger) and `Shaken` (the service is only
ever closed after a fault). The point of the argument is `QueueInd`: a redelivered hook
makes a row younger than every transfer, so no transfer counts as its own.
`RepayIsBounded` is an amortised argument. `Budget` adds to the transfers of a row the
requests that may still send it: those that hold it, and, while it looks pending, every
request that is not just about to settle it. This sum stays within the number of requests
times one plus the faults so far: a transfer moves a request from the second part to the
first, a recorded one takes the row away from all who have not read it, and a fault that
leaves the row pending pays for a full set of requests again.
Assumption: `RewardsAssumption`.

**`StorageChainProofs`**, for every chain, set of keys, contents, concurrent commands
and late requests:

* `ChainTypeCorrect`: `Spec => []TypeOK`;
* `ChainIsOneStore`: `Spec => OneStore`, the refinement of `ObjectStore` with late and torn
  writes of killed commands, and none of either with the disk first;
* `AckedStays`: `Spec => []AckedIsMirrored`.

`LoopInv` says where a command can be: the counter stays behind the position, a read that
is past a stable first backend has its answer (so reads never see a later backend), late
requests are for remote backends, and only IPFS holds torn objects. With it every step maps
to a step of the store (`Begin`, a write or answer at position 1, an end, a call given up,
a straggler) or to a stutter.
`MirrorInv` adds what a write that runs alone has achieved so far, and that after its
return neither a running command nor a late request can undo it.
Assumption: `ChainAssumption` (what `buildChain` returns: a nonempty chain without
repetition).

**`GarmPoolProofs`**, for every set of names, `MaxRunners`, number of loops and faults:

* `PoolTypeCorrect`: `Spec => []TypeOK`;
* `LoopsApart`: `Spec => []Exclusive`;
* `MaxRunnersKept`: `Spec => []RowCap`;
* `NoMachineLost`: `Spec => NoOrphanMachine`;
* `BusyRunnersKept`: `Spec => BusyIsSafe`.

`LockInv` says that a name has one holder, that the holder's lock is taken, and that a
creation or deletion in progress has its row; no row appears but in `CreateInstance`, which
counts in the same step, and that is `RowCap`. `MachineInv` adds that a forced deletion was
asked for wherever the word is remembered (row, listing, goroutine), that a row about to be
dropped has no machine, and that the provider's list of a clean-up errs only about
machines created after it was read. `BusyInv` adds that a name is registered once and has
no row before its insertion, that a deletion keeps its row in `deleting` until it gives up,
that whoever is told a job is over is told so of a runner that will never be busy again,
and that what the clean-up has not seen in GitHub has registered since. A step is cut into
parts (rows, listings, goroutines, the world), each shown harmless by a lemma; only the few
steps with a part that is not are argued one by one. `TypeInv` has the one bound among the
types that is not obvious, that of the attempts: `Retried` says that a name that has been
retried is never `pending_create` again, so the count is never raised a second time; this is
the refused transition of section 5. Assumption: `GarmPoolAssumption`.

**`GarmJobsProofs`**, for every number of managers, jobs, runners, changes and faults:

* `GarmJobsTypeCorrect`: `Spec => []TypeOK`;
* `SpawnsUnderLock`: `Spec => []LockCovers`;
* `ForwardUnlessStale`: `Spec => OnlyStaleGoesBack`.

`JobsInv` is kept part by part: the table with its announced changes (only a row that is
there is locked), webhooks (GitHub posts each once per manager) and handlers (what a handler
writes is not behind what it read), maps, locks, runners. `LockCovers` survives because
`LockJob` is refused while another entity holds the lock, an entity unlocks only what it
spawns nothing for, and a webhook's write keeps the lock. Assumption: `GarmJobsAssumption`.

**`ScaleSetProofs`**, for every set of names, `MaxRunners`, changes, messages and faults:

| Theorem | States |
|---|---|
| `ScaleSetTypeCorrect` | `Spec => []TypeOK` |
| `MapCoversRows`, `MaxRunnersKept` | `Spec => []RowsKnown`, `Spec => []RowCap` |
| `MachinesHaveRows`, `AcknowledgedIsDoomed` | `Spec => []NoOrphanMachine`, `Spec => []AckMeansDoomed` |
| `JobsKeepTheirMachine` | `Spec => BusyIsSafe` |

`KnownInv` is about the worker's map: a change that says "deleted", or a lookup that found
nothing, is about a row that is gone and never returns (`GoneForGood`), nothing is on its way
about a name never used, and while `Start` works through its list each row has an entry or is
still on it (`StartCovers`). So no overtaking change can remove an entry whose row is there,
and counting the map is as good as counting rows. `SetInv` adds `Buried` (a row that is gone
or about to be has no machine, unless a removal was forced, and gets none, even from a
manager with an old copy), `CreatedOnce`, `Acknowledged`, `FailedIsBotched` (a creation is on
its way to fail only for a name in `botched`), and `CondemnedHarmless`: wherever a decision
or a change that ends a machine is under way, the runner is one that GitHub has let go of or
one of the exceptions. Assumption:
`ScaleSetAssumption`.

**`PortsProofs`**, for every set of ports, clients, subscribers and configuration files:

* `PortsTypeCorrect`: `Spec => []TypeOK`;
* `SubscribersAreCurrent`: `Spec => []SubscribersCurrent`;
* `ClientTunnelsKept`: `Spec => []UserTunnelKept`;
* `NoAutomaticTunnelLeft`: `Spec => []AutoOffClosesAll`.

`PInv` has the types with who holds the lock and which list it hands over (`PTyped`), what
each subscriber was sent last (`Sent`: the status that holds, or it is one whom the update
or the `Subscribe` that holds `mu` has still to serve), and the owner of every tunnel
(`Owned`): a client's tunnel is as asked and not among the automatic ones, and every other
tunnel is internal or recorded as automatic, so that closing the recorded ones closes them
all and none of a client's. Assumption: `PortsAssumption`.

**Only model-checked.** Liveness under fairness is out of the prover's reach: `KeepsWarm`,
`ShutsDown`, `JobsServed`, `InterruptedRecovers`, `ForgottenGoes`, `StaleGoes` and `Settles`
stay with TLC, as do the counterexamples of section 5.

## 5. Findings

`ports_stuck` is the listed finding. `Manager.Run` "keeps running until one of its
observers stops" (ports.go:136), but `TunneledPortsService.Observe` sends its list on an
unbuffered channel while it holds the lock of the tunnel service (tunnel.go:113). When
Run, or a call that holds `Manager.mu`, asks the tunnel service for that lock, each
waits for the other, and no port is reported any more. `Settles` shows that this is the
only way in which the manager fails to come to rest.

These configurations are kept beside the runs. Each states what a document, a comment or
a test of the repository says, and TLC finds it violated
(`tlc -config <name>.cfg <module>`):

| Configuration (module) | Property | What happens |
|---|---|---|
| `RunnerPoolHardCap.cfg` (`MCRunnerPool`) | `HardCap`, config.go:84 "hard cap" | two goroutines pass the check before either adds its instance; `OvershootBound` says by how much they exceed |
| `RunnerPoolGhost.cfg` (`MCRunnerPool`) | `KeepsReady` | a crash between the deletion of a container and of its row leaves a row that counts as a warm runner for ever |
| `RunnerJobsBusy.cfg` (`MCRunnerJobs`) | `DestroysOnlyIdle` | scale-down destroys a busy runner: status and last job are never updated |
| `RewardsUnpaid.cfg` (`MCRewards`) | `PaysAllPending` | the running total is compared while it is summed, so the oldest rewards are never paid |
| `RewardsCollide.cfg` (`MCRewards`) | `AllPersisted` | rewards of different projects share an id, and one replaces the other |
| `GarmPoolStaleList.cfg` (`MCGarmPool`) | `SafeToRemove`, pool.go:830-831 "no longer on the provider, and it appears offline in github. It should be safe to force remove it" | a pass of the clean-up reads the provider's list once and lasts more than five minutes, since it starts stopped machines ten at a time; a runner whose machine was created meanwhile is not on the list, so its row is dropped and the machine is left without one |
| `ScaleSetRestart.cfg` (`MCScaleSet`) | `SparedAtStart`, scaleset.go:248 | a restart finds a row in `creating` whose runner is busy; the status compared is GitHub's raw "online", so the runner is not recognised and its row is forced to `pending_delete` |
| `PortsClients.cfg` (`MCPorts`) | `SubscribersKnowClients`, tunnel.go:43-45 "the list of tunneled ports is always the complete picture, i.e. if a single port changes, the whole list is returned" | `EstablishTunnel` changes the map of clients that the tunnel, the list and the manager's state share, so `reflect.DeepEqual` (ports.go:313) sees no change and no subscriber is told |
| `GarmJobsStuck.cfg` (`MCGarmJobs`) | `KnownConsumed`, pool.go:2058-2059 "eventually, all known queued jobs will be consumed sooner or later" | the change of an unlock overtakes that of the lock: the manager's map says "locked by us" for ever, and the job waits without a runner until it is removed as stale |

Met while modelling, without a run of their own: a crash before `SaveInstance` orphans a
container, and a failed `CreateInstance` may; untagged jobs wake no tagged pool although
`run_untagged` is set; `WaitForInstance` can outlive its timeout (incus.go:155);
concurrent ERC-20 payouts read the same nonce and one is recorded as failed for good;
the storage backends do not stay "in sync" (interface.go:48) when two commands overlap or
one is killed, and reads do not fall back to a backend that has the object. In garm,
`retryFailedInstances` deletes the leftovers of a failed instance and then cannot requeue
it, since the transition from `error` to `pending_create` is not in
`InstanceStatusTransitions` (params.go), while doc/external_provider.md:103 says "Garm
will retry creating a failed instance"; a change that overtakes a deletion leaves an entry
of a removed runner in the scale set worker's map; `reconcileStaleJobs` deletes a row even
if a webhook has changed it since GitHub was asked, and five rows whose request always
fails keep it from the others. In the supervisor, two appends to the
list of local exposures without a lock can lose one (exposed-ports.go:247); a range
without a visibility counts as public when a client exposes a port of it and as private
when it is exposed automatically; and the empty list of served ports is never sent, so
the last port to close is reported only with the next one that opens.

## 6. Plan

1. Runner pool manager, its job queue, first theorems (done).
2. Rewards service and its theorems (done).
3. Storage chain against one key-value store, its refinement proof (done).
4. garm: pools, jobs, scale sets with the provider worker (done).
5. The port manager of the workspace supervisor, and the theorems about garm's pools (done).
6. Theorems for every safety property of the runs (done). Still worth proving: what the
   liveness properties rest on (that the step each waits for stays possible until it
   happens, and that the steps before it are bounded).
7. Bandwidth: artifact retention composed with the rewards service's registration
   goroutine; LFS deduplication over an inode model of the file system, shown to
   implement "content of a path never changes"; the response buffer.
8. The DwarFS index against the node's pin set; Incus environments (ports, partial
   creation) and job runners (names, cancel); tasks and terminals of the supervisor; the
   message session of a scale set; `up` and `down` of the command line.

## 7. Not modelled

* Vendored code; deployment, packaging and scripts; image builders, configuration
  parsing, the LFS server abstraction and the pin helper (one-shot, no shared state).
* Wall-clock time (timeouts are nondeterministic failures) and wire formats (JSON, RLP,
  ABI).
* Functions of the pool manager that nothing calls (`UpdateStatus`, `UpdateLastJobAt`,
  `ListAll`, `GetRunnerStatus`, `ListIdleRunners`).
* Of garm: the API, authentication, credentials and templates (create, read, update and
  delete without a protocol), the generated clients, the mocks and the command line;
  the message session and its long poll, `ensureScaleSetInGitHub` and the retries of the
  controllers above the workers; Gitea and runners without JIT configuration; balancing
  between pools. `garm-provider-incus` is a command per call and appears as provider
  calls that may fail.
* Of the supervisor: tasks, terminals, SSH, content initialisation, notifications and
  tokens.
* Components left to step 7 and 8 of the plan. What is hard there: evicting an artifact
  whose file cannot be removed keeps its record (bandwidth/service.go:446); two
  deduplications of one file use the same temporary name (363); a response beyond 32 MiB
  (289); a killed `Put` leaves a `.tmp-` file that `List` reports (storage/local.go:36);
  two paths that share a CID (dwarfs-pin/pin.go:120); a free port that is picked and used
  later, and a container left behind by a failed creation
  (abstraction/environment/incus.go:388, 120); a cancelled run
  (abstraction/runner/incus.go:167); rates read outside the lock (rewards/service.go:217).

Mocks, generated clients, command lines and plain database access are most of the
implementation's lines. The models stand for the parts where state is shared between
goroutines, processes or stores, which is a small share of them.
