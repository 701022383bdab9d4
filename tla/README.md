# A formal model of lerd

lerd runs local PHP sites and their services in rootless podman containers
under systemd. Several processes share the work and, through files, the state:

- **lerd-ui**, the dashboard server: HTTP handlers, websockets, a debounced
  event hub, snapshot caches, polls of podman;
- **lerd-watcher**: file watches, DNS, worker health, and the *idle engine* that
  puts unused sites to sleep;
- **the CLI** (`lerd ...`), **the MCP server** and **the tray**, each a process
  with its own memory and its own Go mutexes, calling the same packages.

This directory holds TLA+ models of the parts where an interleaving, a failure
in the middle or a restart could break something that a unit test would not
see, the TLC runs that check them, and theorems that TLAPS checks.

## 1. Inventory

`PROJECT.json` lists every component with its sources; this is the reading
behind it. *Hard* marks the behaviour that is difficult to test.

| Component | State it keeps | Operations | Interacts with | Hard |
|---|---|---|---|---|
| Snapshot cache (`ui/snapshot.go`) | per kind: bytes, time stamp, invalidation counter, build mutex | `get`, `fresh`, `invalidate`, TTL expiry | handlers, websocket broker | invalidation during a build, waiters on the build mutex, retry cap, failed builds |
| Event hub (`eventbus`) | dirty kinds, timer, subscribers with buffers | `Publish`, `flush`, `Subscribe` | every mutation handler, the invalidator | `Timer.Reset` against a fired timer, full buffers |
| Websocket broker and handlers (`ui/ws*.go`) | peers and their channels, the count of visible windows | connect, first frame, push, drop, visibility frames, leave | hub, snapshot cache | first frame against pushes, peers dropped or gone, a reader that still counts while its connection ends |
| Idle engine, sites and worktrees (`watcher/idle_*.go`, `cli/idle_engine.go`) | belief (`suspended`, `inFlight`), tracker, session, drains; on disk the list of suspended workers, the flag, pins | tick, suspend, resume, activity, enable, disable, drain, boot | `sites.yaml`, `.lerd.yaml`, systemd units, the CLI over a socket and through the files | jobs against ticks against drains, the CLI beside it, crash and restart |
| Idle engine, services (`watcher/idle_services.go`, `cli/idle_services.go`) | `sleeping`, `inFlight`, `svcKeys`, the file of sleeping services, the waking page of each site | suspend, wake, release, brief start for a snapshot, tick, boot | `lerd service start/stop` and lerd-ui through the file, nginx, dashboards that wake their service, automatic snapshots | a wake behind a suspend, a user's stop during either, failures half way, crash |
| Service images (`serviceops/update.go`, `migrate.go`) | `config.yaml` entry, quadlet, container, data directories, offers | update, migrate, rollback, start, stop | podman, registry, all front ends | failure at every step, the way back, two processes, crash |
| Service reinstall, remove, snapshots | the same | reinstall, restore | the same | without the lock of the others |
| Pause and unpause (`cli/pause.go`) | `Paused`, `PausedWorkers` | pause, unpause | idle engine, registry | whole record written back after seconds, jobs that go on under it, a pause that fails half way |
| Registry of sites (`config/site*.go`) | `sites.yaml`, its backups, `sites.lock`, a cache in each process | load, set a field, add, remove, reorder, restore, repair | everyone | reads behind a cache, lost updates, the backup a restore takes, a holder of the lock that dies |
| Other files (`config`) | `config.yaml`, service sets | read, change, write | everyone | lost updates |
| Groups, worktrees, installs | registry, locks | assign, discover, install | registry, git | roll back, probe of a lock |
| Command runs (`ui/runs*.go`) | ring of lines, watchers, registry of runs | start, append, stream, finish, sweep of old runs | browser, a lerd process behind a pipe | eviction against a watcher, wait against append |
| Exec guard (`execguard`) | a record file per run, marks in containers, process groups | run, stop, finish, sweep | podman exec, the watcher | death of lerd at any step, reused pids and groups |
| Lifecycle lock, container cache, stats, worker health, request statistics, dash-wake, dumps | small caches behind mutexes and timers | poll, batch, publish | hub, podman | overlapping polls, timers |
| DNS, nginx, certificates, PHP/Node/Composer, presets, store, install, Windows, tray, TUI, MCP, front end | files and commands | generate, run | host | none that a state machine would add to |

What makes the modelled components correct:

- *Snapshot cache*: nothing an invalidation outdated is served as fresh; a push
  never carries it; every read is answered; only a failed build leaves `get`
  empty-handed.
- *Feed*: a change reaches the open tabs; when all is quiet they show the present state; the count of visible
  windows, by which lerd polls, is right however a connection ends, and an ended one leaves no peer and no reader.
- *Idle engine*: one job per key, one loop per session; no worker the user
  wants is forgotten; a site in use or pinned wakes, an unused one sleeps;
  marks on disk end up true after restarts, manual starts and pauses.
- *Service images*: the user's rows are always in some directory; no engine
  runs on a directory of another line; pin, quadlet and directory agree between
  operations; an abort undoes what was done.
- *Sleeping services*: what the engine put down is remembered wherever it is killed; a wake
  starts what sleeps and nothing the user stopped; a site with a sleeping service shows the page that wakes
  it; a service in use wakes, an unused one sleeps.
- *Registry of sites*: a save undoes nobody else's; the newest backup is what the last save replaced; a
  cached registry is the file's; the lock comes free.
- *Command runs*: a page gets each line once and in order, never sleeps over one, and is told the end last.
- *Exec guard*: a sweep never ends a command in progress; one used pid is not enough for it to touch a stranger's process; what
  a dead lerd left behind ends, and with it the run of the dashboard.

### Hazards

The forty most important ones are in `PROJECT.json` with their line and the
properties that would catch them. Smaller ones seen on the way, for later:
steady publishes push a hub flush out without bound (`eventbus.go:93`), and so
do triggers of a poll (`ui/coalescer.go:32`); the TTL follows the number of
visible tabs (`ui/snapshot.go:26`); saves of the registry without its lock (`nginx/manager.go:1591`); when unit states cannot be read a suspend from a stale belief
rewrites the list (`cli/idle_engine.go:85`); a worker that does not start on
resume is only warned about (`cli/pause.go:580`); backup names have a resolution
of a second (`serviceops/migrate.go:158`); `PreMigrateBackup` names the last
directory moved aside only (`migrate.go:474`); a first-start mark that outlives
its start (`serviceops/first_start.go:30`); the ping interval of dash-wake
(`ui/dash_wake.go:73`); a group assignment put back from an old record (`grouping.go:103`); overlapping
polls (`podman/cache.go:272`); the dev server of a host-proxy site, in no worker list
(`cli/idle_engine.go:106`); a drain that looks at the disk before it looks at `inFlight`
(`watcher/idle_engine.go:433`); a site paused while its suspend runs (`:365`); a brief start behind
a wake (`watcher/idle_services.go:343`); a reinstall beside a migrate (`reinstall.go:105`); rows written between the dump and the stop of a migrate
(`serviceops/migrate.go:365`); read-change-write of `config.yaml` (`config/global.go:1488`); the probe
of an install lock (`config/install_lock.go:126`); a lerd killed between the start of a host group and
its record (`execguard/host.go:38`); a record dropped though the kill failed (`execguard.go:183`); the waking page
that outlives its service (`cli/idle_services.go:186`); two registries of one size in
one tick of the clock (`config/site.go:460`); a first frame against a push (`ui/ws.go:191`,
`ui/ws_broker.go:150`); a reader that finds a build under way (`ui/snapshot.go:69`, `:96`).

## 2. Modules

| Module | Models | Beside it |
|---|---|---|
| `SnapshotSlot` | one slot of the snapshot cache, each critical section of `load` an action | `SnapshotSlotProps`, `SnapshotSlotProofs`, `MCSnapshotSlot` |
| `SlotPromise` | what a reader may rely on: a call and an answer | refined by `SnapshotSlot` (in `SnapshotSlotProofs`), instantiated by `DashboardFeed` |
| `DashboardFeed` | handlers, hub, invalidator, broker, tabs around a `SlotPromise` | `DashboardFeedProps`, `DashboardFeedProofs`, `MCDashboardFeed` |
| `IdleEngine` | the idle engine for sites and worktrees, its control socket, its life, and the CLI beside it | `IdleEngineProps`, `IdleEngineProofs`, `MCIdleEngine` |
| `SitePause` | `lerd pause` and `lerd unpause` on top of `IdleEngine` | `SitePauseProps`, `MCSitePause` (proofs in `IdleEngineProofs`) |
| `ServiceImage` | update, migrate and rollback of one service | `ServiceImageProps`, `ServiceImageProofs`, `MCServiceImage` |
| `IdleServices` | services put to sleep and woken, the user's commands and the snapshots beside it | `IdleServicesProps`, `IdleServicesProofs`, `MCIdleServices` |
| `CommandRun` | one command run of the dashboard and the pages that stream it | `CommandRunProps`, `CommandRunProofs` |
| `ExecGuard` | guarded runs, their records, the watcher's sweep | `ExecGuardProps`, `ExecGuardProofs` |
| `DashboardCommand` | the two together: a dashboard run whose lerd runs something under the guard | `DashboardCommandProps` |
| `SiteRegistry` | `sites.yaml`, its cache, lock and backups, with actors of three processes | `SiteRegistryProps`, `SiteRegistryProofs`, `MCSiteRegistry` |

Each component has its specification, a `Props` module with the properties, an
`MC` module with the definitions an instance needs, and its proofs. A comment
"a mutated form" or "a slip" marks an operator that no action uses: it is the
mistake the property beside it would catch.

### SnapshotSlot and SlotPromise

State: the slot's `data`, `at`, `gen` and the build mutex; per caller where in
`load` it is and what it has captured (`call`). `world` is a version number for
what the snapshot describes, `acked` the version the last invalidation was called
for. Actions: `Call`, the steps of `load` (look, `TryLock`/`Lock`, recheck,
build, store, return), `Mutate`, `invalidate`, and the two ways time matters
(`Age`: the TTL passes; `Lengthen`: it becomes longer and a stale value fresh).
`SlotPromise` has none of the locks: a read starts and is answered with a value
that covers every invalidation before the call, unless the build failed, the
third attempt was outdated too, or another caller was building.

### DashboardFeed

State: the slot's promise, the handlers, the hub (dirty, timer, orphaned timers,
waiting flushes, the invalidator's channel), the invalidator, the broker's
channels, and per tab where the main loop of its handler is, what it shows, where its
reader goroutine is, whether it counts as visible (`says`, the code's `connVisible`) and the count itself
(`visible`). One kind and one change at a time; a debounce is "the timer may fire". Events carry "kind" or
"nothing", because a second flush after a late `Reset` sends an event without kinds. A connection is `Connect`, `Refresh`,
`ReadFirst`, `FirstFrame`, then `Frame`s beside the reader's `Hear` and `Settle`, which count in two steps. `handleWS` returns
from a failed first frame, a failed frame, or for any other cause (`Return`: a ping, a reader that is done, a dropped peer); its
deferred calls are steps of their own: the socket is closed, `Uncount` waits for the reader, `Leave` takes the peer out.

### IdleEngine

State on disk (`enabled`, `list`, `pinned`, `paused`, `declared`), on the machine
(`running`, `checkouts`), in the watcher (`suspended`, `inFlight`, jobs, tick
loops, drains, tracker, control socket), in CLI processes (`starting`) and the
history variable `want`. The clock is reduced to what the tracker says about a
key: active, quiet or nothing. Read `SuspendWorkersForIdle` as `Collect`,
`StopWorker`, `Relist`, `Persist`; a resume as `FindList`, `StartWorker`,
`AllStarted`, `Persist`; `suspend`/`resume` end with `Mark` and `Clear`. A tick
is `TickBegin` (its copies of the registry), then per key `TickLook`,
`TickProbe`, `TickDecide`, then `TickEnd` (worktrees gone).

Some critical sections are one action where nothing in between can be seen: the
read of the belief in `OnActivity` with the re-check in `resume`, the store and the decision of a
tick, `FindSite` and `SetSite...` in `ClearIdleSuspendOnStart`, a probe and the
drop of its list. Keys are visited in any order. The
control socket is one FIFO. `paused` changes only under `SitePause`. What users do to pins and
workers (`ByHand`) touches files and units only; worker commands happen in `idle_marks`, pins in `idle_site`. A tick that begins leaves a paused
site and its worktrees to themselves, and does not prune them either. `StartWorker` is the start of a unit with the end of its
mark and its entry in `.lerd.yaml`, and always succeeds; `Lost` takes a unit that is not up for one that is gone; `Toggle` is the
flag with the datagram. A start that fails, a unit that is installed and down, the
vhost swap of host-proxy sites and the services part of a tick are left out.

### SitePause

EXTENDS `IdleEngine` and adds `parked` (`PausedWorkers`) and per site the `command` at work with what it has in
hand: the workers to stop or start, and the lists and the pin of the record it read. A pause is `Pause`
(the read), `CollectWorkers`, `StopWorkers`, then `SavePaused` or `PauseFails`, then `StopWorktrees`; an unpause
is `Unpause`, `RestartWorktrees`, `ResumeParked`, `SaveUnpaused`. Between any two of them the engine takes any number of
steps, and `AddSite` puts back every list it wrote meanwhile. What one phase stops or starts is one step, the workers of
a worktree are the ones it is opted in to, and vhosts, containers and services are left out. Every action of the
engine is kept as it is, with the commands' state unchanged (`Engine`), so that each step of `PauseNext` is a step of the
engine or one of a command.

### ServiceImage

State: the entry in `config.yaml`, the quadlet's image, the container (`unit`,
`mount`), every data directory there has been with its line and whether it has
the user's rows, which one is at the service's path, and per process its lock
(`lockService`) and cached offer; per caller the step it is at and its locals.
An operation takes the lock, finds its target, and a migrate then dumps, stops
and moves the directory aside; all three pull, write the entry, rewrite the
quadlet and restart; a migrate waits, restores and records. Every step may
fail, and a failing migrate goes through `abortMigrate` (`UndoData` ...
`UndoStart`), whose steps may fail as well when `undo_fails` is among `Events`.
Beside it a user starts, stops and re-renders the service without the lock, the
dashboard polls for offers, and a process may crash.

The service is a default preset with a migrator and without a
`data_version_file` (mysql). Rewriting a quadlet is one step with its
daemon-reload, and one that fails one step with the entry put back; the snapshot
of the entry is taken with the dump. Left out: custom services' own YAML, the
sweep of superseded images, `alreadyOnDigest` (part of `NewerOf`), the
first-start mark.

### IdleServices

State on the machine: `flag` (`idle-suspended-services.yaml`), `running`, the site's `vhost`, and
`by`, a history of who put a service down (`lost` where the code is known to lose track, section 6). In the watcher: `sleeping`,
`inFlight`, `known` (the keys of `svcKeys`), `jobs`, the `tick` and `snap`. A job takes `svcMu`,
then goes through its services: a suspend (`NextService`, `ReadSet`, `WriteSet`, `StopSlept`, `MarkSlept`,
`ClearSuspend`) flags a service, stops it with its dependents and swaps the page; a wake (`LockWake`, `StartWoken`,
`ReadSet`, `WriteSet`, `RestoreSites`, `MarkWoken`) starts a service with what it needs, drops the flag and
restores the page; a release only clears; a brief starts a service for a snapshot and stops it again.
`UserStop`, `UserReads` and `UserWrites` are `lerd service stop` with its read and write of the same file; `StartBehind` is a start
that does not ask the watcher. `SiteRequest`, `DashRequest` and `GoQuiet` move the activity of the keys and ask for
wakes; `TickRead`, `TickLook` and `TickAct` are the engine's tick. `Crash` and `Boot`
lose and rebuild what is in memory. One site stands for all that use a service, and `Needs` is one level deep: that is
enough for a group of a service and its dependents, and for a service kept awake by another's key.
The tick looks at its candidates in one step, and requests come while at most `MaxWaiting` jobs wait to begin.

Every step that may fail does so as an upset: a stop or start of a unit (a wake that fails may have brought up what its service needs), the
swap to the waking page (the service is flagged and stopped all the same), the restore of the vhost, the write of the set
(`WriteFails`, an error the code ignores). `vhost` says what became of the page: `waking` while somebody is left to take it down
(`Watched`: a tick, of what it believes asleep; a job, of what it works on), `stuck` from the step on that leaves it to
nobody, `bare` where no page could be written, `late` where a release wrote the real one over the page of a suspend under way.

### CommandRun, ExecGuard and DashboardCommand

`CommandRun` has one action per critical section under `r.mu`: `append` (drops the oldest line, wakes all), `finish`, and
of a page's stream `wait` (asks for a channel), `read` (takes what is new), the blocked `select` (`Wake`), `tell` (the
done event) and `LeaveRun`. Lines are numbers, the buffer holds `MaxKept`. `ExecGuard` follows a run from its
record over start, wait and stop (`StopKill`, up to `killAttempts`) to the drop of its record, in a container or
in a host group, and the watcher's sweep: `Glob`, `Look`, `SweepKill`, `SweepDrop`. A lerd may be killed at every
step (`Crash`), pids and group ids go to other programs once they are free, a command may leave a child (`Fork`). `TakePid` gives
away lerd's pid, `TakeGuardPid` the guard's, to a process in another group or in the one that has the group's id by
then, and `TakeGroup` the group's id. `GuardHolds` is what `sweepHost` can see: there is a process with the guard's pid, and `getpgid` names the
recorded group. `harmed` records who signalled a group that was another program's, a sweep or a run's own end.

They share no variable. `DashboardCommand` EXTENDS both and joins them at the pipe: `cmd.Wait` of lerd-ui returns
when lerd has exited *and* nobody it left holds the command's output. So whether a page ever hears
the end depends on the guard's sweep, which is `RunEnds`.

### SiteRegistry

State: the file with its time, the backups by time and counter, the lock (`siteWriteMu` and the flock of `sites.lock` in one), the
cache of each process, and per actor its step, operation and registry in hand. An operation under the lock is
`Lock`, `Read` (`loadSitesFresh` and the change), `Backup`, `Save`, `Done`; a cached load is `Stat`, `Fresh`, `Store`. A
pause is a load, then `AddSite` of the whole record; a repair (`RepairVhosts`) is a load, then a save
without the lock. Processes may be killed; the clock may stand still over any number of saves,
which is where times and sizes stop telling versions apart. A lock that cannot be taken (the operation returns) and the end of the 999 backup
names of a second (the save goes on without one) are left out.

## 3. Runs

Ten runs pass and two show a disagreement between the code and what its
comments or docs say; the project is kept to a dozen, each a question of its own.

| Run | Bounds | Question |
|---|---|---|
| `snapshot_slot` | 2 callers, 1 mutation, 3 invalidations | Is the slot truthful and does it keep `SlotPromise`, answers included? |
| `dashboard_feed` | 1 handler, 1 tab, buffers of 1, 2 changes, 2 connections | Do changes reach the dashboard, and is the count of visible windows right, with nothing left of a connection that ended? |
| `idle_site` | a site, a worker that may sleep and one that needs a build, pins, one toggle, a drain that may give up, crash at any step and restart | One job, one loop, nothing lost; wakes and sleeps; every worker up or listed after a crash? |
| `idle_keys` | a site and its worktree, which may be removed | Do two keys ever mix their workers? |
| `idle_marks` | a site and a worker, started, stopped, half-started by hand, one pause with its unpause | Do the marks of a quiet site end true, whatever is written back over them? |
| `idle_services` | a database and its admin tool, one failure, crash, command or snapshot, one job waiting | Is a sleeping service remembered, shown as asleep and woken, and nothing else woken, whichever single step fails? |
| `service_versions` | 3 operations of 2 callers, any step fails | Are line, quadlet, pin and directory consistent, and aborts undone? |
| `service_data_kept` | 2 operations, crash, user, polls, failing way back | Are the rows always on disk? |
| `two_processes` (violated) | 2 callers in 2 processes | The same, without a common mutex |
| `rollback_after_migrate` (violated) | 3 operations | Is every rollback after a migrate refused? |
| `dashboard_command` | 1 page, a buffer of 1, 2 lines, 2 kills, container or host | Does a page see every line and the end, and does the sweep end what is left and only that? |
| `sites_registry` | 4 actors of 3 processes, 3 operations, 1 crash, 1 tick, 1 backup kept | Is a save undone by nobody under the lock, and by a restore? Is the cache the file's? |

Why the bounds are enough. `MaxGen = 3` outdates each of the three attempts of a
build, and two callers are a builder and a waiter; the theorems of section 5 lift the bounds
for all but liveness. In the feed a buffer of one makes a full buffer as common
as an empty one, and two changes with two connections let a push, a first frame
and a reconnect overlap in every order. In the idle engine two workers are what
an unfinished suspend needs (one stopped, one not), one key what a race of jobs
needs, and two keys what a mix-up needs; one worker that is stopped, parked and restarted meets a pause in every
phase of a job, and `MarksEndTrue` also held in larger instances that take too long to keep (two workers, one with a
build, without commands by hand; two pauses); one toggle already makes a drain meet a
tick, and the jobs, ticks and drains themselves are unbounded. For services
three operations are the shortest sequence that reaches the rollback finding, two images
on one line and one beyond it separate an update from a migrate, and two callers
fill the lock and its queue. A database with an admin tool has a service that sleeps on its own and one that goes
down and comes up with another; one upset at every step is each single fault, and
the jobs are without number as long as one waits at a time (a request that finds one waiting joins it
in the code when it names the same services). A buffer of one line evicts at the second, with one page at every place
of its loop; `StreamsAreFaithful` and the other theorems of `CommandRunProofs` have neither bound. Three operations of the registry are a
reader, a writer and one that undoes it; a kept backup of one prunes at once, and one tick gives saves in the same
second and in different ones.

`CHECK_DEADLOCK FALSE` stands where the bounded environment runs out: no more
changes, operations, toggles or lines. `snapshot_slot`, `idle_marks` and `idle_services` never stop and
are checked for deadlock.

`service_versions` and `EngineFitsData`/`Consistent` (and `AbortUndoes`, for the line of the directory) set aside
histories in which an update named the image already pinned (`again`): that is the finding
`rollback_after_migrate`, which checks the same without the exception. `by = "lost"` and the vhosts `bare`, `stuck` and `late` in
`IdleServices`, `loose` and the guard pid `inside` in `ExecGuard` and `crossed` in `SiteRegistry` are such histories too: each is set
by the steps where the code is known to lose track, and section 6 says which. A property excepts what they name and nothing else.
`stuck` has the most causes, and no step sets it as long as anyone is left to take the page down: the restore that failed, the stop that
failed, a boot after a crash, and the flags that others clear or bring back where the engine does not look.
What is lost while its flag is set, because a write of the file brought the flag back, stays lost until a suspend
takes it anew: no page was ever put up for that flag.

## 4. Fairness

Only what the code's scheduling gives:

- a goroutine inside `load`, a job, a tick, a drain, a handler that has begun
  goes on (weak fairness): the Go scheduler runs every runnable goroutine;
- the build mutex is strongly fair (`SF_vars(TakeBuild(c))`): since Go 1.9 a
  mutex a goroutine has waited 1 ms for is handed to it;
- of a websocket connection: a closed channel or a reader that is done ends the main loop, and a closed socket the reader. The deadlines on
  writes (`ui/wsframe.go:177`) and reads (`ui/ws.go:223`) keep either from hanging on a page that does not answer;
- timers fire and the hub's flush gets its mutex; the 30 s ticker of a live
  session fires; the control socket is read;
- the watcher is restarted after a crash: `Restart=on-failure` in
  `internal/systemd/units/lerd-watcher.service:8`;
- a command that has started a worker goes on to clear its mark, unless it is
  killed (`UserKilled`); a pause or unpause that has begun goes on;
- a job of the sleeping services that has begun goes on; those waiting for `svcMu` get it in turn; its tick fires;
- the goroutines of lerd-ui that drain a command and stream it, and the steps of a lerd that runs; the
  watcher's minute ticker sweeps (`watcher` starts it, and systemd restarts the watcher);
- an actor of the registry goes on, and the kernel gives a waiting `flock` the lock when its holder closes it or dies.

Nothing is assumed of users, mutations, activity, a tab that reads its channel
in time, builds that succeed, a drain that beats its five minutes, or a command that ends.

## 5. Theorems

See `PROJECT.json` "theorems". All are for every value of the constants that the
named assumptions allow. Every invariant and every safety property of the passing runs is one of them; where a theorem
has a hypothesis of its own, it is named here with what breaks without it.

- `SnapshotSlotProofs`: type correctness, `FreshCoversInvalidations`,
  `BroadcastCoversCall`, `GetAnswersUnlessBuildFailed`. The second and third are not inductive as they stand: what makes a stored value
  truthful is that `at` stays "zero" as long as a build that was outdated is
  under way, and that a build whose counter is current read the state after the
  last invalidation. `IInv` adds that (`BuildIsCurrent`), that only one caller is
  inside the build (`OneBuilder`), and that floors only name past invalidations
  (`FloorsHold`). For the last one `Fallback` says that a caller that merely tries the build mutex has a value to fall back on.
  `SlotKeepsPromise` is the refinement: every step is a step of
  `SlotPromise` or a stutter, under `Reads` and `Outdated`. `Call` maps to a call
  or a hit, `Return` to an answer, the retry to `Retry`, `Store` to the new
  data, all else stutters. It needs `IInv` and a bound on the attempt (`Bounded`).
- `DashboardFeedProofs`: `FeedUsesSlot`, that what the feed does to the slot is a behaviour of `SlotPromise`, so that the two
  models meet; type correctness, which is inductive with what the promise keeps (`SlotInv`); `CountIsRight` (`LeavesNothing`): inductive with where a
  reader may be for each place of the main loop (`SeenInv`), above all that none is on once the cleanup is past its wait, by what each step adds
  to or takes from the set of counted tabs, and the library's facts about cardinality; and `RestIsCurrent` (`RestsCurrent`). That property speaks of rest only. What makes it so is that a change nobody is still to announce
  has been invalidated, for the push under way as well (`NothingUnknown`), and that after a push each peer's last
  frame, sent or still in its channel, is the present state (`PushedReaches`).
- `IdleEngineProofs`: type correctness, with no key ever given another's worker;
  `JobsExclusive`; `OneLoop`. Type correctness is inductive because the types say
  what a job or tick past its first step holds; the other two follow on top of it, action by
  action. With the commands of `SitePause` beside it all three hold too (`PauseTypeCorrect`, `PauseKeepsDiscipline`): a
  record that is written back holds what the lists of its keys held (`CommandOK`), and no command touches the watcher.
  `NothingIsLost` (`NothingLost`) rests on `LostInv`: a key that no resume is waking is all up or all down, or a crash left it half asleep
  and every tick since has seen its list (`Settled`); and a job has in hand what it has taken off the machine or the list (`InHand`).
  Its hypothesis `Orderly` is that every worker is declared and sleeps without a build and that none is started or stopped
  by hand. The runs `idle_site` and `idle_keys` check the property with a worker that needs a build as well; section 6 says what is
  lost in instances beyond both.
- `ServiceImageProofs`: `DataKept`, and type correctness, under the hypothesis
  `OneProcessOnly`: all callers share one process, hence one `lockService` mutex
  per service (the run `two_processes` shows that without it `DataKept` is
  false). `DataKept` is not inductive: `RemoveAll` in `abortMigrate` deletes the
  directory at the service's path. The invariant `Moved` says that while a
  migrate has a directory moved aside, rows are in a directory *other* than the one at the
  path, that what the way back would rename is on disk, and that it is not at the path
  itself; `AloneMoved` is where the lock is used: nobody else past it has
  anything moved aside. All else is `Gentle`: starts, restores and new
  directories only add. `CallersOK` holds what each step has in hand.

  `EngineAlwaysFits` (`EngineFitsData`), `AlwaysConsistent` (`Consistent`) and `AbortAlwaysUndoes` (`AbortUndoes`) hold of what
  `service_versions` checks, for any callers, images, lines and operations: `Undisturbed` adds to `OneProcessOnly` that the
  service is pinned and that there is no crash, no user, no poll and no way back that fails. Each of these breaks them, and TLC shows how: a crash
  after the entry and before the quadlet leaves the two apart; a user's start during a migrate initialises the
  fresh directory on the old line; a poll begun before a migrate's switch caches an offer of the old line, which the next update
  takes; a way back that fails half way leaves what it reached; an unpinned service has no entry to put back. `LinesInv` says of
  the one caller past the lock, step by step, where pin, quadlet and directory agree (`Settled`, `AtUpdate`), what a migrate has yet to put
  back and that it fits (`AtMigrate`, `WayBack`), and what each step of the way back finds (`AtUndo`); `PutBack`, that an entry put
  back stays, which holds whatever the history.

- `CommandRunProofs`: type correctness; `StreamsAreFaithful` (`FramesInOrder`), `NoLostWakeup`
  (`SleepsOnlyCaughtUp`), `DoneIsLast` (`ToldTheEnd`), for any number of pages, lines and any size of the
  buffer. The invariant says that the buffer holds the lines `dropped + 1 .. appended` in order (`Buffer`), that a run that
  ended has drained its output and has no waiters (`Ended`), and per page that its frames ascend up to its `from` with
  nothing left out but what was evicted (`PageOK`). Asking before reading (`wait` before `read`) is what makes its last part inductive.
- `ExecGuardProofs`: type correctness, `SweepIsSafe` (`SweepSparesRuns`), `GroupIsOurs` (`StrangersSpared`).
  A run whose record is marked, or that a sweep took for finished, is past `Run` for good (`FinishedIsPast`); a group's id
  is not given away while its guard lives (`GuardKeepsId`). So what a sweep can see (`GuardHolds`) of a group that is another program's is the guard's
  pid in that group (`HarmIsReuse`), and a run's own end, which does not look, meets one only past its guard (`RunHarm`). `PartsAreKept` states that every
  behaviour of `DashboardCommand` is one of `CommandRun` and one of `ExecGuard`, so that the theorems of both hold of the composition.
- `IdleServicesProofs`: type correctness and `SleepIsRemembered` (`AsleepIsRemembered`). Inductive is that what
  the engine owns is flagged, or still up with a suspend about to flag it (`Mine`), that what a job is about to unflag is up
  or down on another's account (`Owed`), and that one job at a time holds `svcMu` (`OneHolds`), which keeps the two apart.
  `WakeTakesAsleep` (`WakesOnlyAsleep`): every key in flight is among the names of a suspend or a brief (`Owned`), and as a wake
  looks again under `svcMu`, no suspend is past its lock then. `PageIsRight` (`PageMatches`) rests on `PageInv`: the page is up from before
  a suspend's first flag until no flag is left (`Covered`, `FlagPage`), and while it is up there is a flag, a service down on somebody's account,
  or a job that looks at the page before it ends (`WakingWhy`). That holds under failing swaps, restores and writes of the set as well. Its hypothesis `UsesWhatItNeeds` is that a site that uses a service uses
  what that relies on; section 6 says what happens to a site that does not.
- `SiteRegistryProofs`: `SaveIsAtomic` (`SavesWhatItRead`), from `OneWriter` and `UpToDate`: an actor with the lock that nobody
  crossed has in hand what its operation makes of the registry on disk; `RestoreUndoesSave` (`UndoneByRestore`): among the backups of this second one
  has the highest counter (`Numbered`), the next is above it, and what a save is about to replace is the newest there is, which no pruning takes (`KeptFirst`);
  and `CacheKeepsUp` (`CacheIsHonest`), from
  `CachesMatch`: a cached registry, and one about to be stored, goes by a time and size that are the
  file's, or those of a version in `past`.

Only model-checked: `MarksEndTrue` and `MarkRestored`, which speak of what becomes of a mark in the end, and
everything else about liveness (`KeepsPromise`'s fairness,
`ChangeShown`, the wake, sleep and mark properties of both idle components, `LeftoversEnd`, `RunEnds`,
`LockComesFree`). Liveness and ENABLED are beyond the prover.

## 6. Findings and observations

The two findings are in `PROJECT.json` with the lines they contradict. Seen
while modelling, without a run of their own. *Dashboard:*

- the hub drops a subscriber whose buffer is full (`eventbus.go:117`): when the invalidator's sixteen slots fill
  during a slow build it is closed, and nothing subscribes it again (`ui/ws_broker.go:169`). `DashboardFeed` has
  a build that does not block the hub for that long;
- a tab that connects while another one does may get as its first frame the
  value that is being replaced (`ui/ws.go:185`); a kind whose build failed is left out of a push and
  not published again (`ui/snapshot.go:113`); `fresh` after a failed rebuild ships the value that was replaced;
  a frame older than the first frame can be queued behind it and is shown until the
  next; a GET that follows a push may still read the old value (`ui/ws_broker.go:19`).

*Idle engine, sites:*

- a disable does not always leave every site awake
  (`docs/usage/idle-suspend.md:94`): the drain looks at the disk before it looks at `inFlight`
  (`watcher/idle_engine.go:433`), and gives up after five minutes;
- the dev server of a host-proxy site is in no worker list, so a belief a tick
  overwrote can lose it (`cli/idle_engine.go:106`); the list of a removed worktree that was
  not believed asleep stays on disk;
- `MarkRestored` holds against crashes, and `MarksEndTrue` against pauses and workers started
  by hand; with both in one instance a worker started by hand during a suspend, or one the user stops while it
  is on the list, can after a crash during the next suspend be left neither up nor listed, or come back;
- workers go missing from the list beyond the instances that check `NothingLost`: a worktree with a dev server and another worker, where a
  tick that took its copy of the registry before a suspend was done suspends again and lists the dev server only; a site with both
  over two toggles, where a tick of the session before still holds an old list and drops a newer one (`watcher/idle_engine.go:232`);
  and a worker started by hand, where a tick that finds it up drops the whole list before `ClearIdleSuspendOnStart` takes its mark off it;
- only a tick looks at `Paused`: a resume (`watcher/idle_engine.go:583`), activity (`:385`) and the drain of `lerd idle off`
  (`:473`) start the listed workers of a site that is paused, where `docs/usage/pausing.md:55` speaks of workers that
  stay down, and nothing stops them before the next pause;
- pause and unpause put back the lists they read (`config/site.go:611`): a list a suspend wrote meanwhile is gone until the site sleeps
  again, a mark is back for a worker that was just started, which a later probe takes as a reason to drop the whole
  list. So a list may name only some of the workers that are down: `MarksEndTrue` does not say "all". A worktree has no pass that finds what
  was lost: when a resume ends after a mark was put back, its worker is neither up nor listed;
- a pause that fails at its page or vhost leaves the workers stopped and unremembered (`cli/pause.go:105`); a
  worktree's worker started by hand outside `.lerd.yaml` is stopped by a pause and not restarted.

*Idle engine, services:*

- a brief start for a snapshot does not look at the flag again under `svcMu` (`watcher/idle_services.go:343`): a wake ahead of
  it leaves the service awake, and the brief then stops it with no flag set; its key leaves `inFlight` only after the unlock;
- a suspend whose stop fails unflags the service and leaves the waking page up, and dependents it had stopped stay down without a flag;
  so does a dependent that starts between the group's computation and the stop;
- a service put to sleep takes its dependents down, and the waking page goes to the sites of the service alone
  (`cli/idle_services.go:134`): a site that uses only a dependent keeps its own vhost and has nothing that wakes it by a page;
- a write that brings a flag back (below) does so without a page: the service is listed as asleep and its sites show no page;
- a suspend chosen before a `lerd service stop` flags the service the user stopped, and a later wake starts it;
- the file of sleeping services is read, changed and written back by the watcher and by commands without a lock
  (`config/service_set.go:61`): either may undo the other; `syncSleeping` reads it outside `e.mu`;
- a crash between the page and the flag, or between the unflag and the restore, leaves a waking page nothing takes down;
  a release restores vhosts without `svcMu`, and may put the real one over the page of a suspend under way;
- a waking page that cannot be written is warned about, and the service is flagged and stopped all the same
  (`cli/idle_services.go:143`): its sites show no page until they wake it by themselves; a vhost that cannot be restored is warned about, and nothing
  takes the page down from services that are up (`:215`);
- the error of a write of the set is ignored (`serviceops/idle_suspended.go:14`): a suspend goes on to stop what it has not flagged, and it
  is then down on nobody's account; a set that cannot be read or parsed is taken for an empty one (`config/service_set.go:46`, `:62`), and the next
  write forgets the rest. The latter is not modelled;
- the page also stays where a `lerd service stop` clears a flag that no tick had read yet, where a tick drops
  a cleared flag of a service that is in flight, where a wake that waited on another service's flag finds that one cleared by the user, and where a
  write undoes the flag of another process.

*Service images:*

- the first update of an unpinned service records no previous image, although
  `docs/usage/service-updates.md` says each update does (`serviceops/update.go:368`); a rollback leaves
  the cached offer of the image it left (`update.go:506`); a poll begun before a migrate's switch caches an offer of the
  old line, which the next update takes; a start while a migrate pulls
  initialises the fresh directory on the old line;
- a migrate of an unpinned service that fails at its restart puts the entry back but leaves the new image in the quadlet,
  on the old directory, until the next render (`migrate.go:352` against `:306`, `serviceops.go:872`);
- `ReinstallService` and `RemoveService` take no `lockService` (`reinstall.go:105`) and may run inside a migrate.

*Commands and the guard:*

- a lerd killed between the start of a host group and its record leaves a group no record names (`execguard/host.go:38`); a
  record is dropped even when the kill failed or reached the container before the command had started
  (`execguard.go:183`). Both leave a process that holds the dashboard's pipe, and a run that goes on: `loose`;
- a record without a start time is kept as long as any process has its pid;
- the end and the stop of a run on the host signal the group without asking whose it is (`execguard/host.go:50`, `:64`): with a guard that
  never started, or was killed before, the id may be another program's;
- `sweepHost` takes a process with the guard's pid in a group with the recorded id for the guard (`host.go:171`). A program that was given
  both, the id for its group and the pid for one of its processes, is ended.

*Registry of sites:*

- `RepairVhosts` (`nginx/manager.go:1591`) and the start of lerd (`cli/startstop.go:1304`) load the registry, work for
  seconds to minutes and save it without the lock, where `config/site.go:425` says that `siteWriteMu` serializes
  every read-modify-write; the save undoes what was written meanwhile, and `crossed` is who it may hit;
- pause, unpause and some forty callers of `AddSite` write back a record they read before they worked: other fields are undone, and
  a site unlinked meanwhile is back (`config/site.go:611`);
- a cache passes for the file when two versions of one size are written in one tick of the file system's clock
  (`config/site.go:460`); backup names use local time, so that the hour of a change from summer time sorts newer
  ones as older (`site_backup.go`), and a newest backup that does not parse makes a restore fail.

## 7. Not modelled, and the plan

Not modelled: what is generation of files, calls of external programs or front
end (the last row of the inventory): there is no state to interleave in them, and what they generate is text. Of the
modelled components, the following is left out, each with its reason:

- *Command runs and guard*: a restart of lerd-ui (its registry of runs is in memory and gone), several runs at once (they share nothing
  but the sweep, which `ExecGuard` has for any number), a watcher that dies in a sweep (it begins again);
- *Idle engine*: the vhost swap of host-proxy sites;
- *Pause*: vhosts, containers and their autostart, shares, services started or stopped with the site: no other
  modelled part looks at them;
- *Services*: custom services, the sweep of superseded images, reinstall and remove, ports, snapshot restore;
- *Sleeping services*: a file of the set that cannot be read;
- *Registry*: files that do not parse, disks that are full, a clock that goes back, a lock file that cannot be opened, more than 999 backups in a second.

Plan, in order of what it would add:

1. a worktree in the instance of `SitePause`, with the property that fits what the code does for one;
2. reinstall and remove as operations of `ServiceImage` without the lock, beside a migrate;
3. `config.yaml` and groups of sites, with the locks of installs and of the lifecycle, on the pattern of `SiteRegistry`;
4. the container cache and worker health: overlapping polls.

Proofs to come: a promise of the idle engine for one key (asleep, waking, up), which `IdleEngine` refines as `SnapshotSlot` does
`SlotPromise`, and one of `ServiceImage`, an entry and a directory that change together; `NothingLost` with a build
beside it, on what the runs check.
