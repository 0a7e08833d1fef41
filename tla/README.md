# A TLA+ model of goincus

goincus is an HTTP server that rents out small containers ("VPS") on one host.
It creates Incus containers, gives each a block of host ports, meters and
throttles their traffic, and keeps usage charts. Its state lives in four places
that no transaction spans: Postgres (`instances`, `port_mappings`, the usage
tables), a Redis set and lock, the Incus daemon, and files on the host. Every
HTTP request is a goroutine, provisioning goes on in a goroutine of its own,
and two background loops (traffic, hourly metrics) run beside them. Nearly all
of the code's difficulty is in what happens between two of its calls.

This directory holds TLA+ modules for those parts, TLC configurations that check
them on small instances, and TLAPS proofs about all of them (about the abstract `PortPool`, that `PortAllocator`
implements it). `PROJECT.json` lists components, runs, mutants (deliberate bugs that each property must detect), the
source lines behind every definition, hazards, and theorems.

## 1. Inventory

| part (source) | state | operations | what makes it correct |
|---|---|---|---|
| port allocator (`internal/ports`, `internal/redisstore`) | mutex, Redis lock with a TTL of 10 s, Redis set of marked ports | `AllocateBlock`, `Allocate`, `Reserve`, `Release`, `ReleaseBlock`, `Sync` | a port is handed out once; a mark lives as long as its reservation; nothing leaks; calls return |
| port mappings and address (`service.go`, `incusclient/client.go`, `incusclient/network.go`) | rows of `port_mappings`, proxy devices and the NIC's address in the Incus configuration, the guest's address | add, remove, change of protocol; a start completes the block and gives an address; edits of the NIC limit in the same configuration | rows and devices agree; no edit is lost; NIC and guest have one address |
| traffic (`traffic.go`, `usage.go`) | meter, counter snapshot, period and flag in `instances`; the NIC's limit; `instance_daily_usage` | reconcile every minute; `StartInstance` re-applies limits | charged at most what was sent; over quota is slow; the chart agrees with the meter |
| lifecycle (`service.go`) | status, password, rows; container and guest | create/provision, get with status sync, start/repair, stop, restart, reset password, delete | provisioning ends; syncs do not disturb it; deletion leaves nothing; row and guest have one password |
| hourly metrics (`hourly.go`) | `instance_hourly_metrics` | sample all, upsert, purge, chart | bytes appear once, in one hour; percentages are of the allocation |
| start-up and infrastructure (`main.go`, `store.go`, `storage.go`, `network.go`, `security.go`, `client.go`) | configuration file, schema, Incus pools, networks, profiles, `Client.cfg` | `runServe`, `Migrate`, `EnsureInfrastructure`, `CreateContainer` | the server comes up; migrations run once; containers get an isolating disk and one network |
| package cache (`netboot.go`) | `.deb` and `.partial` files | resolve, download, push | files are whole, the set is complete |
| API access (`api/auth.go`, `api/server.go`, `apicli/client.go`, `cmd/goincus/cli.go`) | failures per address; requests in the server; `goincus create` and its polls | key check, `blocked`, `fail`, `success`; create, get, health; `WaitRunning`, timeouts, repeated commands | failures are limited and a block ends; the command ends and does not report success too early |
| host set-up (`internal/setup`, `config.Save`) | configuration file, database role, Redis and its files, Incus pools and bridges, id maps, support files | `goincus init`, also with `--force` and `--skip-install`, interrupted and run again | what is saved opens database and Redis; running it again completes it |
| secrets, resource statistics, chart queries | none | | not modelled, see section 8 |

Interaction: handlers call the allocator, Incus and Postgres one call at a time;
the loops read and write the same rows and the same Incus configuration; a start
or a password reset runs beside provisioning; a crash ends all goroutines and
loses what is in memory, while Postgres, Redis, Incus and the files stay.

Hard behaviours: unlocked releases racing a locked scan, a lock that expires under
its holder, failures between the n-th and the next call, statuses written on the
strength of stale reads, counters that restart, period ends between a read and a
write, errors that are taken for "does not exist", clients that give up requests the
server goes on with, a set-up that is interrupted and run again, and restarts in the middle of everything. `PROJECT.json` lists them with their lines.

## 2. Modules

| module | models | composed with |
|---|---|---|
| `PortPool` | the abstract promise: a port is free, reserved by one request, or serving | implemented by `PortAllocator` |
| `PortAllocator` | the allocator and the five handlers that call it, one step per external call | `PortPool` (INSTANCE, refinement) |
| `PortAllocatorProofs` | theorems about it | extends `PortAllocator` |
| `PortMappings` | rows, proxy devices and address of one instance, edited by read-modify-write with etags | relies on `PortAllocator` for free ports |
| `PortMappingsProofs` | theorems about it | extends `PortMappings` |
| `TrafficAccounting` | the traffic loop, the daily chart and the NIC of one instance | |
| `InstanceLifecycle` | status, password, ports and container of one instance | abstracts the allocator to "may fail" |
| `InstanceLifecycleProofs` | theorems about it | extends `InstanceLifecycle` |
| `HourlyMetrics` | the hourly loop and table for one instance | |
| `MeteringProofs` | theorems about both meters | extends `TrafficAccounting` and `HourlyMetrics` |
| `Startup` | `runServe`, migrations, pool and network selection, at start and per container | |
| `StartupProofs` | theorems about it | extends `Startup` |
| `PackageCache` | the OpenSSH package cache of one distribution | |
| `PackageCacheProofs` | theorems about it | extends `PackageCache` |
| `HostSetup` | `goincus init` and what it leaves on the host | writes the file that `Startup` loads |
| `HostSetupProofs` | theorems about it | extends `HostSetup` |
| `ApiAccess` | limiter, handlers and `goincus create` for one address and one instance name | abstracts `InstanceLifecycle` to the phases a client can see |
| `ApiAccessProofs` | theorems about it | extends `ApiAccess` |
| `MC...` | the instance each of them is checked on: symmetry sets, small data | extends its module |

Conventions. An action is one step of a goroutine up to and including one external
call and everything the code does with its answer. `pc` says where a goroutine is,
`Failures` which kinds of call may fail, `Max...` how often. A failed call may
or may not have had its effect where the code cannot tell (Redis). A crash ends
all goroutines. Definitions named "Mistaken variant of" are the mutants; no action
uses them. History variables are marked as such where they are declared. Several of them record
that something happened which the code does not guard against (`upset`, `mishaps`, `orderly`, `shared`,
`calm`, `misled`): a property is then stated for the behaviours without it, and all others are
still explored.

### PortAllocator

`mu`, `lock` and `marked` are the mutex, the Redis key and the Redis set; `rows` and
`table` are Postgres. A request goes through `LockMutex`, `AcquireLock`,
`ListUsedHostPorts` (the snapshot), `Scan` (one SISMEMBER per port), 
`MarkPortAllocated` (one SADD per port), `Rollback` or `UnlockOk`/`UnlockErr`, then
its caller's part: `Attach` (the container, `ListPorts`, the proxies) and `AddPort` (rows one by one, but for the ports that have
one of the instance already), `Unused` (`releaseUnused`
of `provision`), `Cleanup` (the release of the whole block in `ensurePortBlock`).
`RemovePortMapping` and `DeleteInstance` release the mark first (`UnmarkRow`) and
delete the row after (`DeletePort`), without any lock. `LockExpires` is the TTL;
`Restart` is `Sync`. `upset` is history, of two kinds. `Clash`: a removal of rows raced another removal of them or the
request that is storing them, a port was given back though it has a row, or a row lost its mark and stayed. `Leak`: a call
to Redis had an unknown outcome, or a reserved port was left to a row of the same port, by `attachPortBlock`, which takes it for attached, or by
`releaseUnused`, which spares it;
`Restart` writes the Redis set anew from the rows: it forgets `Leak`, and `Clash` too unless two rows of live instances have one port,
which `Sync` does not notice.

### TrafficAccounting

`row` is the metering part of the instance's row, `loc` the loop's copy of it, `life`
and `counter` the guest's true and visible byte counts. `Reconcile` reads the row and
starts a new period, `IsRunning` probes, `NetworkBytesTotal` accumulates,
`ApplyNetworkPolicy` changes the NIC when the flag changes, `UpdateTrafficAccounting`
saves, `RecordDailyUsage` and `PurgeOldDailyUsage` keep the chart. `StartInstance`
reads the flag and applies it later. `upset` records probes that found a running guest stopped or its counter lower than it is
(`NetworkBytesTotal` takes a NIC or a counter that Incus does not give for 0), failed policy calls and
starts that overlapped a reconcile. The status `live` stays once it is reached: a provisioning that fails after a start has set `running`,
and a deletion that a crash cuts short, take an instance out of `ListActiveInstances`, and `QuotaEnforced` says nothing of those.

### InstanceLifecycle

One provisioner and several requests; `go[a]` is a goroutine: where it is and what it has read.
Status writes are unconditional, as `UPDATE ... SET status` is; `syncStatusFromIncus` is a read, a
probe and a write in three steps. The port block is a set of rows. `mishaps` records the failures
that leave traces, a crash, and that a start, reset, deletion or provisioning overlapped another. `CloudInit` is the `runcmd` that
`CreateContainer` leaves with the guest: it sets the initial password some time after the first boot, unless the image has no cloud-init.
`diverged` records that guest and row were given different passwords: by a reset that failed or died after its `chpasswd`, or by a late `CloudInit`. The next
start, repair or reset that gets as far ends it.

### PortMappings

`go[r]` is a request: the edit it makes (`old`, `new`, `limit`), what it has read, and whether it is
being rolled back. `copy` holds what `GetInstance` returned, or nothing, and stands for its etag:
`UpdateInstance` fails if the configuration has changed since. Rollbacks are edits of their own and may
fail. `orderly` says that no two requests that clash overlapped (two that choose device names, two of one mapping) and that no
step failed which the code does not make good. `StartInstance` is a sequence of such edits: the NIC's limit, then `ensurePortBlock` (missing ports of
the block one by one, or a new block), then `EnsureInstanceIPv4` and, inside the guest,
`ApplyGuestStaticIPv4`. `AllocateContainerIPv4` is any address; that no other instance has it is Incus's
refusal and outside the module.

### HourlyMetrics

Time is counted in ticks, several to an hour. `BeginRound` fixes the hour, then the guest is
sampled, the row of the hour or the last one before is read, the new row is stored
and old ones are purged, each a step that may fail, while time passes and the guest
works or restarts. A row is what the table has (hour, bandwidth, percentage, the last reading) and, as history, the
stretch of the guest's traffic that it stands for: `from` where it begins, whether the guest did not restart in it (`whole`),
and whether the percentage is of more time than it was computed for (`excess`: the sample came late, or the one before lacked the counter). `sent` is what the guest has
really sent. `ResourceSample` may lack the CPU counter or a direction of the traffic, which the code reads as 0 without an error (`nonNeg`, a
state without the NIC); `netGap` and `cpuGap` are, as history, how much a reading lacked, and a row is `known` if neither its own nor
the reading before it lacked traffic. `Cores / CoreParts` is the allocation, which may be a part of a core. `ChartConserves` is about any chart `GetHourlyMetrics` returns: stretches do not overlap and follow one another.

### Startup

The server and the creating goroutines share `EnsureInfrastructure`. A lookup that fails is
indistinguishable from "there is none" (`LookupFails`); `misled` remembers when that
was wrong, or that the pool chosen could not be saved. The configuration file is `Torn` between `os.WriteFile`'s truncation and its
write, and stays so when the write fails: the error is only logged, and the server serves with a file that the next start refuses.
`ListenFails` is an error of `ListenAndServe`: it is logged and cancels the context, and `runServe` returns 0 (`ended`), or 1 when the
shutdown fails too (`down`). `RunServe` starts again from `down`; from `ended` only the operator does (`Restart`). `release` grows when a newer version is installed; `tx` is the open transaction.
Start-up is abstracted where it only writes constants: what the profile, the sysctl
files and the firewall script contain is not modelled, only that the step comes there
and whether its error counts.

### PackageCache

A file is `absent`, `whole`, `torn`, or being written by a process. Because `os.Create` truncates
a file under whoever writes it and `os.Rename` moves a file that is still open, a
file belongs to the last process that truncated it, wherever it was moved to, and is
whole when that process has written everything. Resolution is one step per turn of
the loop of `resolveOpenSSHDebs`, compared with a declarative closure. Pushing the files
of the directory to a guest is one step.

### HostSetup

Each step of `Run` is an action that may fail, and `Interrupt` may end it anywhere; nothing is undone.
`redis` distinguishes the binary, the password in the files and the one in use, so that `DetectExistingRedis`
can find a running server, one that wants a password, an open port without `redis-cli`, or only files.
Secrets are fresh numbers. `RedisService` is the host: it stops Redis, or starts it with what its files
say. `upset` records that Redis was found to require a password, and that `--force` has changed the role's
password without having saved it yet.

### ApiAccess

`hits` is the limiter's bucket of the address, if there is one. `blocked`, `fail` and `success` lock the mutex one by
one, so `Blocked` and `CheckKey` are steps of their own. `conn[q]` is a request in the server, `client[c]` a run of
`goincus create`, which posts, sleeps and polls until its deadline. `Timeout` ends the client and leaves its
request in the server. Other callers of the same address send right and wrong keys. `inst` is the instance as a client can tell:
its status, where provisioning is, and, as history, whether an operation wrote the status before provisioning was over (`early`). Operations come
from anywhere at any time: `Record` is the status that a start, repair, restart, stop or password reset writes in its end, `Delete` what a deletion
writes. Whether there are ports is left open from the creation of the container on, as provisioning, starts and mappings add and remove
them. `guesses` is history: keys refused in the last one, two, ... ticks.

## 3. Runs

Twelve runs; times are for two workers. `pass` runs check every property they name on
all reachable states; `violation` runs check a statement of the documentation that
the code does not meet.

| run | asks | size |
|---|---|---|
| `port_safety` | `TypeOK`, `HeldExclusive`, `ReservationKept`, `ServedOnce`, `NoLeakedMark`, refinement `PoolSpec`: provisioning, starting, adding, removing, deleting by three requests, removals of one row twice among them; failures of Redis, Incus, INSERT, DELETE and `ListPorts`; expiring lock; one crash | 1.5 M states, 2 min |
| `port_live` | `RequestReturns`: every allocator call returns; a crash may leave the lock behind | 60 k, 0.5 min |
| `traffic_meter` | `TypeOK`, `ChargedAtMost`, `ChartWithinMeter`, `ThrottleHolds`, `QuotaEnforced` (liveness): counter resets, midnight, month end, any failure or a crash, starts racing the loop | 2.3 M, 2.7 min |
| `traffic_lift` (violation) | `ThrottleLifted`: a slowed NIC is restored in the next month | |
| `life` | `TypeOK`, `NeverPromoted`, `NothingLeft`, `PasswordAgrees`, `ProvisionEnds` (liveness): two requests during and after provisioning, cloud-init at any time, any call may fail, a crash | 1.2 M, 2.8 min |
| `map_served` | `TypeOK`, `NoLostEdit`, `MappingServed`, `GuestAddressed`: three editors of one configuration, starts among them, any failure | 0.7 M, 1 min |
| `hourly_chart` | `MetricsTypeOK`, `ChartConserves` (each byte once, none missed), `CpuWithinAllocation`: two samples an hour, one and a half cores, a restart of the guest, one failure, lacking counter or crash, purge | 3.9 M, 1.6 min |
| `startup_serve` | `TypeOK`, `MigratedInOrder`, `WellPlaced` (isolated disks, one home), `ComesUp` (liveness): any pools and networks, two failures (of the listener and the save, too) or crashes, an upgrade, two containers | 1.6 M, 1.4 min |
| `package_cache` | `TypeOK`, `PackagesWhole`, `ResolvedClosed`, `CompleteWhenCalm`: warm-up and three guests, two failures or crashes, a dependency cycle | 0.9 M, 1 min |
| `package_partial` (violation) | `PushedComplete`: a pushed set has all dependencies | |
| `host_init` | `TypeOK`, `ConfigOpens`, `SetUpEnds` (liveness): any host, two failures or interruptions, `--force` and `--skip-install` | 0.5 M, 0.6 min |
| `api_create` | `TypeOK`, `GuessesBounded`, `ReportedWhenOver`, `BlockEnds`, `CreateEnds` (liveness): one command beside other callers on two connections, operations on the instance by anybody | 0.4 M, 2.3 min |

Why these bounds are enough to meet the interesting cases. Ports: two ports and blocks
of two make every scan collide, and three requests are needed for a removal to race a
reservation that races a second one. Traffic: three days in months of two give a month end
and a midnight inside a month; a quota of 2 with 3 bytes is crossed, also after a reset. Lifecycle: provisioning plus two requests lets a sync read before, and
write after, what two others do; they are reads as a part of all others, starts, stops, resets and deletions, while a restart differs from a stop that finds the
guest running again only in the status it writes, and is left to the theorems. Mappings: three editors are the least for a rollback to meet two others; a block of two ports can be
half there, and two addresses can be given to one guest.
Hourly: four ticks of two to an hour with a retention of one hour reach
refresh, gap, next hour and purge; one and a half cores make percentage and cap differ, and allocations below a core are left
to the theorem. Start-up: three networks of which two are bridges let both passes of `EnsureNetwork` choose; two faults reach "the second choice was
made, then the server died", which is what a wrong save would need. Cache: the
warm-up and three guests are two downloaders, one that looks meanwhile and one that comes after.
Set-up: two faults are a run that fails, and a forced or repeated one that fails elsewhere. API: two connections
let one pass the check while the other is counted; two failures in windows of two ticks let a bucket end
between them, and one poll makes a stale read and the deadline possible.

Deadlock is checked in `api_create`, where somebody can always call; in the others requests are finite and clocks
bounded, or the set-up is complete, so every instance ends. Symmetry is used only in runs without liveness, and only over
requests and addresses, which differ in nothing but their name.

What the properties assume, because the code does not enforce it and they fail without it (section 6): `upset` restricts
`HeldExclusive`, `ReservationKept`, `ServedOnce` and `PoolSpec` (to what has nothing of `Clash`; the restart after it forgets that, unless a port is mapped twice), `NoLeakedMark` (to what
has nothing of `Leak` since the last `Sync`), `ChargedAtMost`, `ThrottleHolds`, `QuotaEnforced` and `ConfigOpens`, `mishaps` and `diverged` the properties of `life` (`NeverPromoted` apart), `known`, `whole` and `excess` single rows of
`ChartConserves` and `CpuWithinAllocation`, `early` `ReportedWhenOver`, `orderly` `MappingServed`, `~shared` and `calm` those of
`PackageCache`, and `~misled` the part `OneHome` of `WellPlaced`. `ChartWithinMeter`, `NoLostEdit`,
`GuestAddressed`, `NeverPromoted`, `MigratedInOrder`, `DiskIsolated`, `SetUpEnds`, `GuessesBounded`, `BlockEnds` and `CreateEnds` hold without any such restriction.
What is excluded is not covered: of the hazards listed, a second removal of one mapping, the release of ports that have rows, overlapping choices of one
device name, a start that overlaps a deletion and two downloaders of one package are only recorded, and the properties are about everything else.

## 4. Fairness

* `PortAllocator`: weak fairness of each request's steps (a goroutine that can run
  does), of `Restart` (systemd: `Restart=on-failure`, `RestartSec=5s` in
  `deploy/systemd/goincus.service`, five seconds apart, so the default start limit does not apply) and of `LockExpires` (the TTL).
* `TrafficAccounting`: weak fairness of the loop's steps (the ticker comes again), of a start and of the
  status update that ends provisioning. Nothing obliges the guest to send.
* `InstanceLifecycle`: weak fairness of the provisioner and of every request; calls to
  Incus and Postgres return. `ProvisionEnds` leaves crashes and failed status updates out, see section 6.
* `Startup`: weak fairness of `RunServe`, which includes the restart after an exit with a status other than 0, as
  `Restart=on-failure` gives it (`deploy/systemd/goincus.service:18`). Nothing starts a server again that ended with 0, so `Restart` has no fairness.
  Failures are bounded, so `ComesUp` says: once calls stop failing the server comes up, unless its file is torn or its listener has failed.
* `HostSetup`: weak fairness of the steps of a run, strong fairness of running it again without `--skip-install`: it
  is the operator who repeats it, and nothing is promised if nobody does.
* `ApiAccess`: weak fairness of each request in the server, of the clock and of the client's deadline; strong fairness of
  its poll, since connections are taken and freed by other callers all the time. None of provisioning, of the client's timeout or of any operation.

## 5. Proofs

Checked by TLAPS with SMT, Zenon and PTL, for every value of the constants that the named assumptions allow: any
number of requests, guests, connections and clients, any ranges and lists, any number of failures and crashes. Each proof
module states an inductive invariant `IInv`, proves that `Init` implies it and that each action keeps it (a lemma per
action), and derives the properties from it. TLC has checked every `IInv` on the instance of its run before it was proved.

| module | assumptions | theorems (property) |
|---|---|---|
| `PortAllocatorProofs` | `RangeAssumption`, `RequestAssumption` | `Invariance`, `BaseInvariance`, `TypeCorrect` (`TypeOK`), `Exclusion` (`HeldExclusive`), `MarksKept` (`ReservationKept`), `OneMapping` (`ServedOnce`), `NoLeak` (`NoLeakedMark`), `Refinement` (`PoolSpec`) |
| `MeteringProofs` | `TrafficAssumption` | `TypeCorrect`, `MeterSafe` (`ChargedAtMost`), `ThrottleSafe` (`ThrottleHolds`), `ChartSafe` (`ChartWithinMeter`) |
| | `MetricsAssumption` | `HourlyTypeCorrect` (`MetricsTypeOK`), `HourlyChartConserves` (`ChartConserves`), `HourlyCpuWithinAllocation` (`CpuWithinAllocation`) |
| `PortMappingsProofs` | `MappingAssumption` | `Invariance`, `TypeCorrect`, `Served` (`MappingServed`), `Guest` (`GuestAddressed`), `EditsKept` (`NoLostEdit`) |
| `InstanceLifecycleProofs` | `LifecycleAssumption` | `Invariance`, `TypeCorrect`, `Unpromoted` (`NeverPromoted`), `LeavesNothing` (`NothingLeft`), `PasswordsAgree` (`PasswordAgrees`) |
| `StartupProofs` | `StartupAssumption` | `Invariance`, `TypeCorrect`, `Migrated` (`MigratedInOrder`), `Placement` (`WellPlaced`) |
| `PackageCacheProofs` | `PackageAssumption` | `Invariance`, `TypeCorrect`, `Whole` (`PackagesWhole`), `Resolution` (`ResolvedClosed`) |
| | and `Offered` | `Complete` (`CompleteWhenCalm`) |
| `HostSetupProofs` | `SetupAssumption` | `Invariance`, `TypeCorrect`, `Opens` (`ConfigOpens`) |
| `ApiAccessProofs` | `AccessAssumption` | `Invariance`, `TypeCorrect`, `Reported` (`ReportedWhenOver`), `Limited`, `Guessed` (`GuessesBounded`) |

The `...Assumption`s only give the constants their types and keep model values apart from the data they share a variable
with. One theorem has a condition more, which the configurations of its runs meet. `Offered`: the archive's indexes have the
packages that are required, and what those of the closure depend on. The other restrictions are part of the properties
themselves (section 3).

**PortAllocator.** The invariant is `Undisturbed => IInv`: once something of `Clash` has happened, it stays recorded
until a restart (`UpsetGrows`), and `RestartInv` shows that `Sync` re-establishes all of `IInv` from the rows alone, given that no port
is mapped twice by live instances (`MappedOnce`); that needs `KnownInv`, that rows are of instances that exist. `IInv` joins the types with: who holds the mutex and where
(`MutexInv`), that nothing runs while the server is down (`DownInv`), what a scanning
request knows of its block (`BlockInv`: the checked ports are unmarked by anyone
else, or have just been released), what a reservation is at each location (`HoldingInv`, `StoredInv`,
`FreshInv`, `KindInv`), how rows relate to requests that create or remove them (`RowInv`,
`RemovalInv`), and that serving rows are marked (`ServedMarked`). It is needed because
`HeldExclusive` alone says nothing of a port that is checked and not yet marked, and the
mutex, not the expiring Redis lock, is what keeps two such requests apart. `Refinement` shows that each step maps to a step
of `PortPool` or leaves it alone, the mapping being who owns which port; a step that adds to `Clash` is the pool's `misused`, after
which it promises nothing until `Recover`, which a restart is (`RestartRefines`). `BaseInv` holds whatever happens: requests keep to the ports they were asked for. `NoLeak` adds
`CoverInv` to it: unless something of `Leak` has happened since the last `Sync`, every marked port is one that a request under way
still answers for, or has a row nobody is removing. `Leak` has three ways in which that fails: an unknown answer of Redis, a port that
`attachPortBlock` skipped, and one that `releaseUnused` spared.

**TrafficAccounting.** `CounterInv`, `CopyInv` and
`MeterInv`, which says that, unless a probe has misled it, the row and the loop's copy are each covered by what was sent after
their snapshot; `SerialInv` and `FlagInv`, which hold until a policy call has failed or a start
has overlapped a reconcile (`UpsetGrows`: what has happened stays recorded); `PeriodInv`,
`SampleInv` and `ChartInv` for the chart.

**HourlyMetrics.** `ReadingsInv`: the guest is past every reading, and the reading of a round past those of the rows, in time, in bytes
and in restarts, with counters and gaps that together differ by what was sent unless there was a restart. `RowsInv`: a row whose readings lacked nothing shows exactly
what was sent in its stretch if it is whole, and at most that if not. `JoinedInv`: no row begins before an earlier one ends, and neighbours meet.
`HoursInv` and `NewInv` relate the hours of the rows, the round and the row about to be stored.

**PortMappings.** A row may be without its device only while a request is about to remove or change it (`DeviceInv`), which
needs that requests on one name or mapping do not overlap (`ApartInv`), that what they have read is still so (`OrderInv`), and
that new ids are new (`FreshInv`). `AddrInv` relates the address a start carries to the configuration it has read under its
etag. `EditsKept` is an action property, from the same invariant.

**InstanceLifecycle.** `SyncInv`: from its probe on, a sync finds the status past creation for good, because nothing sets it
back. `AloneInv`: unless an overlap is on record one goroutine has the instance for itself, from which `DeleteInv` (what a
deletion has read is all there is) and `PasswordInv` (unless `diverged`, the guest has the row's password, or the one its only changer is about to store) follow.

**Startup.** `MigrationInv`: `schema_migrations` lists exactly what the schema has seen, and an open transaction holds the next
file. `PlacedInv`: past the choice of a pool the client's pool isolates. `HomeInv`: until a failed lookup has misled the server,
pool and network stay the ones that it would find again, a torn file and a server that has ended included. The names tried for a pool are a list without repetitions, which is why
`StartupAssumption` asks for it.

**PackageCache.** `FileInv`: while no two goroutines download one package, a partial file belongs to its downloader and is whole
when it is renamed. `ResolveInv` relates the loop's list, queue and index to the declarative closure, so that when the queue is
empty the list is closed: it holds for cyclic graphs, where termination is another question and not claimed. `CalmInv`: the cache of a process
that has it for itself is what it has downloaded so far.

**HostSetup.** `RoleInv`, `SourceInv` and `PoolInv` say which of the values in `proc.cfg` have come true at each step; `FileInv`
that a saved file survives later runs, which holds because a Redis with files is always found again and so is not configured anew.

**ApiAccess.** `StageInv` relates status and provisioning as long as no operation was `early`, so that no reader takes a half-made instance for a running one.
`FailsInv`: failures counted and requests past the check are together at most `MaxFails` and the other connections. `GuessInv`
relates the history to the bucket: what its time covers it has counted, and the rest of a window is covered by the bucket before
it; the bound of `GuessesBounded` is the sum of these two.

What the proofs changed in the models. A step of provisioning had two guards that overlapped (`Proceed`), so that it
was less determined than the code. `orderly` had missed two removals of one mapping with an addition of the
same device name between them, which breaks `MappingServed` and which the instance of the run had not shown. Where a definition filtered a
sequence, which the provers cannot reason about, it is now written without (`Names`, `ResolveNext`, `WithDriver`); the
history of `ApiAccess` holds running totals instead of a sum over ticks, and that of `HourlyMetrics` the stretch behind each row instead
of a sum over rows, which also says where a byte is missing. The restrictions of `PortAllocator` were conditions on the constants (which
requests are sent, which calls may fail); as records of what has happened they are weaker, and the run admits every request.

Only model-checked:

* liveness (`RequestReturns`, `QuotaEnforced`, `ProvisionEnds`, `ComesUp`, `SetUpEnds`, `BlockEnds`, `CreateEnds`), since the
  prover does not reason about fairness.

## 6. Known disagreements

Two are kept as runs:

* `traffic_lift`: `src/README.md:130` says over quota throttles "until next month". At the
  month's end `reconcileInstanceTraffic` clears the copy's flag (`traffic.go:59`) before it
  compares it, so the NIC is not restored until the next start.
* `package_partial`: `netboot.go:464` says that OpenSSH and its dependencies are
  downloaded. The cache counts as filled once openssh-server, the first package, is there
  (`netboot.go:471`).

The following were met while modelling; those the models can show appear in their runs, and are recorded there by
the restriction named in section 3:

* Two removals of one mapping (`service.go:718`): the second SREM takes the mark of a
  reservation made in between, and the port is handed out again.
* A removal that has taken its SREM and not yet its DELETE (`service.go:718`), beside a provisioning that had listed the used
  ports before the mapping was added: the port is marked again for the new block, `provision` fails, `releaseUnused`
  (`service.go:204`) spares the port because the row is still there, and the DELETE leaves a mark without a row. When the mapping removed is the instance's own,
  `attachPortBlock` (`service.go:311`) takes it for attached and provisioning succeeds: after the DELETE the block lacks a port, which stays marked until the next restart.
* Two removals of one mapping with an addition between them: the second `RemoveProxyDevice` (`service.go:717`) removes the new
  mapping's device of the same name.
* `ensurePortBlock` (`service.go:380`) releases a whole block though some of its ports have rows.
* A failed power probe in a period's first reconcile (`traffic.go:79`) sets the baseline to 0:
  the guest's whole counter is charged, against the comment at `traffic.go:69`.
* A running guest whose state lacks the NIC or its counters is read as 0 (`client.go:705`, `traffic.go:122`), and the next reconcile charges the whole counter again.
* The same in the hourly chart (`client.go:744`): the hour after such a sample shows the whole counter again, and its CPU percentage is too high.
* The CPU percentage is cut off at 100 per core (`hourly.go:170`) though it is of the allocation (`docs.txt:221`: 100 = fully using its cores): an
  instance with half a core never shows more than 50.
* A failed policy call (`traffic.go:86`) is stored as done.
* A start that read the flag earlier (`service.go:513`) undoes a throttle.
* Overlapping password changes (`service.go:566`) leave guest and row different; so do an exec that fails after its `chpasswd` (`ssh.go:136`) and cloud-init's own
  `chpasswd` (`ssh.go:30`), which comes some time after the first boot and undoes a reset made before it.
* A read turns `error` into `running` without ports (`service.go:486`; `docs.txt:76`: "up with
  port block"); a sync that overlaps a deletion brings the row back (`service.go:500`;
  `docs.txt:80`); after a crash an instance stays `creating` (`service.go:183`; `docs.txt:75`).
* Two additions choose one device name (`service.go:674`), and the loser's rollback
  removes the winner's device; a removal refused by the etag leaves the device
  (`service.go:717`).
* One failed lookup makes the server use another network or pool until it restarts
  (`storage.go:38`, `client.go:116`).
* The lowest mapped host port is taken for the SSH port (`service.go:348`; `docs.txt`: "SSH listens on the FIRST port of the
  block"): removing the first mapping moves sshd at the next start.
* A running Redis that requires a password, one that an earlier `init` configured for instance, answers NOAUTH, which counts
  as found (`redis_linux.go:234`): the passwords in the files are not tried (comment at `redis_linux.go:41`) and a configuration
  without password is saved, also by `init --force`, which `config.go:298` recommends.
* A Redis found only in its files is reused and nobody starts it (`redis_linux.go:49`).
* An `init --force` that fails after `ALTER ROLE` leaves a configuration whose database password no longer works.
* A name that is taken by a deleted instance, or by a creation at the same time, is answered 500 by the UNIQUE constraint
  (`docs.txt:65`: "409 conflict (e.g. name already exists)").
* `create -wait` may report success after provisioning failed with all ports stored, because its own poll syncs `error` to `running`
  (`service.go:486`, `apicli/client.go:256`); any error, a 429 too, ends its waiting.
* A start, repair or password reset during provisioning writes `running` (`service.go:532`, `574`), and `create -wait` reports success half way once there is a
  port (`apicli/client.go:254`).
* A listener that fails, its port being taken for instance, is logged and `goincus serve` exits with 0 (`main.go:247`), so that `Restart=on-failure` does not start it again.
* A client that disconnects cancels the context of the whole request, the release of its reservation included (`service.go:697`).
* A crash inside `config.Save` (`config.go:149`), or a failed write there, which is only logged (`main.go:214`), leaves a file that `Load` refuses at every start.

## 7. Plan

Done: the allocator with its abstract pool, traffic, lifecycle, mappings with block completion and
address, hourly metrics, start-up, package cache, host set-up and API access; theorems for all of them, and for every safety
property that a run checks.

Next:

1. The statuses that a crash or an overlapping sync leaves behind, once the code has a rule for them (section 6).
2. The chart queries, should they come to have state of their own.

The modules to be proved about declare no RECURSIVE operator.

## 8. Not modelled, and why

* HTTP routing, JSON and validation (`api/server.go`): beyond authentication, creation, reading and health, each route resolves an
  instance and calls one service operation, which has its module. Which header an address or a key comes from is left out, and
  so is a limiter's map of many addresses: buckets do not interact.
* The CLI's other commands: one request, one answer, no state.
* What the set-up writes into files, unit and scripts, and the package managers it calls: only that the step came and whether its error counts.
* Shell scripts run in guests and on the host, and what profiles contain: text handed to
  other programs. The steps are there, their contents are not.
* Secrets: a password is an uninterpreted value.
* Resource and host statistics, chart queries: read-only sums.
* `SetInstanceState` in Redis: nothing reads it.
* Uniqueness of IPv4 addresses over instances: an address is picked from a list that may be stale, and Incus refuses one in use.
* Cancellation of a request's context half way: the failed calls it causes are modelled, not that they come together.
* Versions, mirrors and formats in the package index; memory and disk columns of the charts.
* A guest without `eth0`, whose other NICs are summed, and an NIC that comes and goes between samples.
* Loss of what Postgres, Redis or the file system has acknowledged.
