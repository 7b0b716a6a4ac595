# Verification of pm0

pm0 is a process supervisor: a daemon that launches applications as process
trees, restarts them under a policy, reloads clusters without a gap, and serves
a command line over a unix socket. This directory holds TLA+ models of its core
(`src/internal`), the TLC configurations that check them, and TLAPS proofs.

## 1. Inventory

For each part: its state, its operations, whom it talks to, what is hard about
it, and what makes it correct.

**machine** (`internal/machine`): one goroutine per app owns every status
transition. State: status, process handle and pid, crash counters and their
window (`unstableRestarts`, `created`, `crashSeries`), backoff, restart park
timer, ready timer. Operations: start, stop, restart, delete, signal over an
unbuffered mailbox; exit, ready and timer events from the select. Blocks inside
the kill path, the graceful handoff and the spawn, while callers wait and
readers take snapshots. Correct when: one generation of processes at a time,
snapshots tell the truth, a crash loop is parked and a healthy app is not, every
command is answered.

**supervisor** (`internal/supervisor`): the registry of apps by pm_id, with
serials, an id counter and a version, under one mutex held for whole commands;
cluster reload replaces an app at its id, parking the old incarnation at a
negative key, and polls the replacement with the mutex released. Calls machine.
Correct when: no live app is ever unreachable, ids and serials are unambiguous,
a reload ends with one incarnation, nobody holds the mutex for ever.

**proc: reaper** (`reaper_linux.go`): the daemon's only `wait4` loop, waiters by
pid, an exit cache for exits that come before Register. Hard: the race of fork,
exit and Register; the cap of the cache; pid reuse; orphans. Correct when: each
exit reaches its launch, and no other.

**proc: kill path** (`handle_linux.go`, `cgroup_linux.go`, `scan_linux.go`):
SIGTERM to the group, a grace, SIGKILL to group, cgroup and strays until nothing
is left. Hard: trees that fork or leave their group meanwhile. Correct when nil
means that no process of the tree is left.

**proc: launch, IPC, adoption** (`launcher_linux.go`, `ipc_linux.go`,
`adopt_linux.go`, `starttime_linux.go`): fork and exec in a group and cgroup; a
socketpair for `ready` and `shutdown`; after a daemon re-exec, running trees are
taken over after checking that the pid still is the dumped process.

**daemon** (`internal/daemon`): binds the socket and pid file, possibly against
a rival boot; resolves selectors and calls the supervisor; saves, resurrects,
updates (dump and re-exec); keeps a log route per pm_id; streams logs; samples
/proc. Hard: stale owners, ids resolved then reused, an app started while an
update dumps.

**logbus** (`internal/logbus`): one tailer per file, a ring of recent lines,
subscribers with bounded channels; drops are counted and reported; rotation by
copy and truncate. Correct when each subscriber sees the lines in order, with a
marker where any are missing.

**ops** (`internal/ops`, `daemon.go` opsLoop): per app incarnation a runner that
restarts it on cron slots, memory, failed probes and file changes. Hard: a
runner acts by pm_id on what it saw earlier; probes end later; the version gate
decides whether a change is ever seen.

**store** (`internal/store`): the dump, written to a temporary file that is
synced and renamed over the old one. Hard: the list to save is taken before
the lock, so rival saves may write in the other order.
**cron** (`internal/cron`): schedules and their next slot. **config, cluster,
startup, client, cmd, api**: parsing, files for node, init units, selectors and
fan-out, output, generated code.

`PROJECT.json` has one entry per part under `components` and one per hazard,
at its line, under `hazards`.

## 2. Plan

| # | modules | state |
|---|---|---|
| 1 | `Machine`, `AppContract` (what an app promises), `ActorStatus` (what the registry may see of it), `MCMachine`, `MachineProofs` | checked, proved |
| 2 | `Supervisor`, `SupervisorProofs` | checked, proved |
| 3 | `Reaper`, `MCReaper`; `KillPath`, `KillPathBounds`; `MCProc` runs the two; `ProcProofs` | checked, proved |
| 4 | `Ops`, `MCOps`, `OpsProofs` | checked, proved |
| 5 | `LogBus`, `LogFeed` (what a client is promised), `LogTail`, `LogTailBounds`; `MCLogs` runs the two; `LogBusProofs` | checked, proved |
| 6 | `Takeover`, `TakeoverProofs` | checked, proved |
| 7 | `Control`, `MCControl`; `Persist`, `MCPersist`; `DaemonProofs` is about both | checked, proved |
| 8 | `Cron`, `MCCron`; `Options`, `OptionInputs`, `MCOptions`; `Fanout`, `FanoutInputs`, `MCFanout`; `MCRequests` runs the three; `RequestsProofs` | checked, proved |

What is left, in the order of its worth: an abstract specification of
`Supervisor`, as `AppContract` is one of `Machine`; the pipe fallback of log
streaming for apps without sinks; the IPC channel.

How they compose. `Machine` implements `AppContract` (a refinement checked by
TLC and proved). `Supervisor` sees an actor as the status it publishes: its
`Kill`, `Served`, `StopDone`, `Restart*` steps are the actor's handler seen from
outside, and its `Lives` steps are what `Machine` allows by itself. That this is
so is proved: `Machine` implements `ActorStatus`, and `Supervisor` allows each
step of it. What is left to trust there is that a retirement (`RetireParked`,
`Rollback`) is one step for the registry: nobody else looks at an incarnation
that is being retired. `Ops` sees
the registry as the serial in one slot and a status: `Supervisor`'s
`SerialsIdentify` and `VersionCounts` are what it relies on. `Machine` sees the
reaper as `DeliverExit`, which `Reaper`'s `ExitArrives` justifies. `Machine`
takes the kill path for one that returns, with nothing left or with an error:
`KillPath` shows that it returns, and that success means this with cgroups. In
pgid mode it means less, and `Machine` does not follow the process that may be
left. `LogBus` implements `LogFeed` (checked and proved too), and takes lines as
captured, in order: `LogTail`'s `LinesOnce` is that. `Control` takes a request as
a resolved selector: `Fanout` is how a command becomes requests and its answers one result. `Persist` takes an app's
record for its name: `Options` is what the record keeps. `Takeover` says which
daemon is there, `Persist` what it finds. `Ops` takes a slot for a minute that
comes: `Cron` says which.

Three roots (`MCProc`, `MCLogs`, `MCRequests`) put models that share
no state side by side in one run: in the initial state one of them is chosen,
and the others rest. That checks each exactly as a run of its own would.
`MCPersist` only gives `Persist` names that differ from `Control`'s, so that one
module of proofs can speak of both.

## 3. The modules

### Machine
The source's fields are variables of the same name; `leader`, `kids`, `exitKind`
are the process tree, `failed` remembers trees whose kill path reported
survivors. `pc` says where the actor is: `loop` is the select; `handoff`, `kill`
and `spawn` are the calls a handler blocks in; `relaunch` is the point of a
restart at which the published status is `stopped`. Everything between two
blocking calls is one action, for only the actor's goroutine touches the state.

| actions | code |
|---|---|
| `Start*` | onStart, with resetState and launch |
| `Restart*` | onRestart |
| `Halt*`, `HandoffEnds`, `KillFails` | onStop, onDelete and the graceful handoff, stopTree |
| `Spawn*` | launch |
| `OnReady`, `OnReadyTimeout`, `ParkFires` | the ready gate, the restart park |
| `OnExit`, `Exit*`, `Tally`, `NextRestartDelay` | onExit and the restart policy |
| `Fork`, `KidsExit`, `LeaderExits`, `DeliverExit`, `Tick`, `Call` | the tree, the reaper, the clock, callers |

Time is kept as ages in ticks, capped at the largest threshold the code compares
them with, so the state space is finite with no bound on time. `Tick` is
disabled in the clean-up of an exit, since onExit reads the clock once before
it. Restart counter, exit code, log and pid-file paths, and tree display fields
are left out: they decide nothing.

### AppContract
Intent (`run`, `halting`, `halted`) and whether processes run: at most one
generation, launches only when wanted, nothing running when halted.

### ActorStatus
The status that others act on, and the order the actor has begun to carry out:
which status may follow which, unasked or under the order. `Machine`'s `Seen`
tells two of its places apart from the status published there. In the clean-up of an
exit the code says stopping, and the view says launching: the reload and the ops
loop treat the two alike. In the launch of a start or restart the code says launching, and
the view stopped until the order is answered: the reload's poll may see either,
and acts on it only when it has `s.mu`, which the order holds.

### Supervisor
Registry maps, serials, counter and version are the code's fields. `op` is the
command whose holder of `s.mu` waits for an actor; `rollPc` is the place of the
reload. `StartApps`, `StartAtID`, `RegisterAt` register; `Begin`, `Kill`,
`StopDone`, `Restart*`, `DeleteDone` are Stop, Restart and Delete; `RollBegins`,
`GatePolls`, `GateDecides`, `Rollback`, `RollbackFindsSuccessor`,
`RetireParked`, `Unpark` are reloadOne with rollbackReload and retireParked.
`Kill` is also for an errored app, which keeps its handle when its last kill path
reported survivors; whether it did is left to chance.
Names are resolved to numeric ids by the daemon first, and only numbers reach
`resolveLocked` from it, so resolution by name is left out.

### Reaper
`Reap`, `NoneDead`, `NoChildren`, `Interrupted`, `IdleEnds` are the loop's
branches; `Deliver` and `CacheExit` are deliver; `RegisterCached` and
`RegisterWaits` are Register; `Spawn`, `SetExit` its caller. With `Reuse` the
kernel hands out a pid again once its last exit has been delivered.

### KillPath
`pc` is the place in StopWithin. Processes are numbered in the order of their
births, and /proc is read pid by pid, in any order: os.ReadDir sorts the pids as
strings. SIGKILL makes a process `doomed`: it forks no more, and ends when it
likes, or never. A failed stop may be tried again on the same handle.

| actions | code |
|---|---|
| `StopWithin`, `Expire`, `GracefulEnds`, `ExitWaitEnds` | StopWithin, waitExitOrDone, leaderGone |
| `GroupKill`, `SweepEnds`, `KillVictim`, `KillsEnd`, `Survivors` | forcePgid, killVictimsVerified |
| `ReadProc`, `Look`, `Matches` | procPids, scanPgrpMembers, scanReparentedOrphans |
| `Verdict`, `VerdictSeesOne`, `GroupEmpty`, `TreeEmpty` | treeEmpty |
| `CgroupKill`, `NoCgroupKill`, `Drained`, `RemoveCgroup` | forceCgroupKillPath, waitCgroupEmpty, removeCgroup |
| `Freeze`, `FreezeFails`, `ReadProcs`, `KillVictim`, `Thaw` | forceFreezeDrainPath |
| `Fork`, `Escape`, `Exit`, `Reap`, `Ice` | the kernel: fork, setsid, exit, the reaper, the freezer |

Left out: adopted trees (their orphans go to init), processes that change their
environment or cgroup, pids that come round again, and errors of reading files
other than that they do not exist.

### Takeover
A process stands for a (pid, start time) pair. Time goes in rounds of the poll
in takeoverSocket: boots that sleep wake together, and what a boot does
between two sleeps, or between its bind and its serving, takes less than a
round. `path` is where the socket path leads, `record` what the pid file names.

| actions | code |
|---|---|
| `Judge`, `WriteRecord` | pidFileOwnerDead, writePidFile |
| `Listen`, `PingAnswered`, `PingFails`, `Unlink`, `Relisten`, `Tick` | takeoverSocket |
| `Serve`, `CloseListener`, `Leave` | Run: chmod, Serve, the deferred clean-up |
| `Signal`, `TermUnrecords`, `TermExits` | the SIGTERM goroutine |
| `KillCall`, `KillUnlinks`, `KillExits` | KillDaemon's goroutine |
| `Crash`, `Update` | an unclean end; UpdateDaemon's exec |

### Control
`op`, `at`, `todo` and `fresh` are a request handler: what it serves, where it is,
the ids it has resolved (or read from the dump) and not yet acted on, the new apps
still without a log route. Each step is one hold of the registry's mutex.

| actions | code |
|---|---|
| `StartOne`, `StartTwo`, `StartBatch` | StartProcess |
| `Grow`, `GrowStarts` | ScaleProcess up: the listing, then StartApps |
| `Resurrect`, `Revive`, `RegisterAt` | Resurrect and its loop over the dump: a survivor is adopted, or an app started, at the pm_id it had |
| `Describe`, `EnsureRoute` | ensureRoutesFor, ensureRoute |
| `Stop`, `Restart`, `Delete`, `Shrink`, `Logs` | resolveSelector, ScaleProcess down, StreamLogs |
| `ActStop`, `ActRestart`, `ActDelete`, `Unregister`, `CloseRoute` | the loop over the ids |
| `KillEnds`, `KillFails`, `KillMisses` | the outcome of a kill path: nothing is left; survivors, which is an error; or nothing to kill, for the survivors of an earlier kill are in nobody's handle any more |
| `TreeExits` | an app ends by itself |

A delete forgets its app whatever the kill said (supervisor.go:256-263), and goes
on to the route; a stop, restart or delete whose kill failed ends its request.
`failed` remembers the trees that survived a kill. What a dump holds is a
parameter (`Dumps`): which pm_ids it names is `Persist`'s matter.

### Persist
The dump in four forms: the temporary file of a save (`tmp`), what a reader finds
(`file`), what a power cut leaves (`disk`), and whether its data were synced.
`WriteTmp`, `RenameTmp`, `SyncDir`, `SaveFails` are Save under its mutex, and the
list is taken when the mutex is held; `Load`, `Adopt`, `StartAtID`, `Reply`
resurrect; `Exec`, `ExecFails` the update; `Kill`, `StopNext`, `Exit` KillDaemon;
`Crash`, `PowerCut`, `Boot` the world. A tree keeps who hears of its leader's
exit (`exit`): an adopted leader that is a child of the new image is known to the
reaper only by its pid. A kill may leave survivors, which are then nobody's, and a
tree that is found may fail to be adopted, by its cgroup, its start time or its
actor (adopt_linux.go:67-82, 179): as in the code (control.go:374-388) the app is
then started at its pm_id beside it. `loose` remembers the entries to which one of
these happened, at the pm_ids where the model allows it (`Failing`).

### Cron
`Parse` is an operator from the fields of an expression to sets; the search of
Next is a state machine, one skip a step, so that its loop can be proved about.
The calendar is a parameter.

### Options
A request's options, from a file or from flags (`SpecFromFile`, `SpecFromFlags`),
through the wire (`Narrow`, `Lift`, `WireRotateMax`), into the registered config
(`Config`, `FillPaths`), an instance of it (`Instance`, `Expand`, `Index`), the
dump and back (`AppToRecord`, `RecordToApp`). Integers have the width of their
wire type, scaled (`WireRange`). Actions: `Start`, `RestartExisting`, `ScaleUp`,
`ScaleDown`, `Delete`, `Resurrect`.

### Fanout
`SelectorOf` is the command's reading of its targets, `Gathered` and `Listings`
the targets in the order in which a map or the daemon's list yields them, `Pack`
and `SplitSelector` the client's packing over parallel RPCs, `Meant` the daemon's
reading ("all" counts when it stands alone).

| actions | code |
|---|---|
| `Direct`, `SendSplit`, `SendListed`, `SendUnlisted` | the HTTP routes and reload; StopN, RestartN and DeleteN (client.go:76-160) over what selectorsForParallel (client.go:216) gives with targets, over a listing, and with none |
| `ResolveAll`, `ResolveId`, `ResolveName` | resolveSelector: one id or name at a time, while the registry moves |
| `Serve`, `ServeGone`, `Reply`, `Deadline` | the daemon's loop over the ids, its answer, the client's deadline |
| `Merge` | the merged result |
| `OtherStarts`, `OtherDeletes` | other clients |

`Turn` is the order in which an RPC serves its ids: the lowest pm_id first, but
for a reload. A reload over HTTP reports no error if it rolled one app
(`Lenient`).

### Ops
`ReadVersion`, `List`, `Sync*` are opsLoop and Reconciler.Sync; the runner's
actions follow `runner.step` in its order, with a place for each point where it
has read something and not yet acted on it. A probe and the watcher are
goroutines of their own. A probe's command is waited for by cmd.Run (ops.go:349)
beside the reaper's wait4(-1), so a result has three ways to come: a success is
heard (`SuccessHeard`); the probe fails or times out (`NoSuccessHeard`); or it
succeeded, but the reaper has taken its status and cmd.Run returns ECHILD
(`StatusTaken`, remembered in `taken`). A runner's restart acts on whatever
incarnation is in the slot, as the code's does. Left out: the schedule itself, ignored files,
`Reconciler.Stop` (tests only); whether a memory or probe interval has elapsed
is chance. launching, stopping and waiting count as stopped, since every look
taken here treats them alike. A reload appears as the registration of a new
serial.

### LogBus
`AppendLine` is appendLines with pushRing: the line gets its number, and the ring
evicts for its count or, by chance, for its byte budget. `FanoutMarker` and
`FanoutLine` are fanout; its two sends are separate actions, for the receiver
runs between them. A subscriber's drops are kept as the set of lines dropped,
of which the code has the number. `Clear`, `CloseRoute`, `CloseChannel` are Clear
and Close, `Subscribe` and `Unsubscribe` the subscription. `Snapshot`,
`SendBacklog` (one line a step), `BacklogEnds`, `Receive`, `Forward`,
`ForwarderEnds`, `Send`, `StreamEnds`, `ClientLeaves` are StreamLogs: its
snapshot, taken after the subscription, its forwarder and the select of its
sender. Subscribers share nothing but the mutex, so one stands for all; a batch
is appended line by line. Left out: the truncation of long lines, and the file
fallback for apps without a route.

### LogFeed
What StreamLogs promises, without ring, subscription, queues and markers: the
streams the client follows, the lines it is still owed (`due`) and what it was
sent. While a stream is followed a captured line is owed; a line is shown only
when owed and newer than the lines of its stream shown before; what is reported
dropped is reported once. `Attach` leaves no gap: with a line of a followed
stream in the backlog, all later ones of that stream are owed. In `LogBus` the
debt is the backlog still to be sent, and, for one who follows, whatever is
newer in the queues, in the pump's hands and in the drops not yet reported.

### LogTail
`Poll*` is a poll that finds the file as it was, grown, or due for rotation;
`Copy`, `CopyAgain`, `Truncate`, `CopyFails` are copytruncate; `Read` is the capture of pump
with its batch cap, the carried half line, its cut at the maximal length, and the
pruning of old archives; `ReadFails` and `SeekFails` its errors; `Flush` is `pm0
flush`, and `Write` the app. A byte of a file is its place in the app's output, so
every copy can be compared with what was written. `losses` names the ways in which
the code may lose lines: a batch over the cap, a write between the last copy and
the truncation, a flush, an error.

## 4. Runs

| run | question | bounds |
|---|---|---|
| machine_policy | the safety of one app under four policies, every command, any process behaviour; the refinements of `AppContract` and `ActorStatus` | two trees (a survivor and a successor), one caller, thresholds of 1 to 5 ticks placed so that each policy branch is taken |
| machine_calls | every command is answered, no transient status lasts, crash loops end | one tree, two rivals: one wants the app up, one retires it; a cluster worker with gate and delay |
| supervisor | no app unreachable, a reload keeps one incarnation and ends, under every interleaving | two ids, three registrations: a reload, its rival and a successor |
| proc | Reaper: no exit lost, each arrives; KillPath: what success of a stop means, and that it returns, in each mode | two launches, an orphan, a cache of two, so that eviction happens; three processes: a leader, a stray and its child |
| ops | one runner and a version gate that misses no change, earned restarts, cron without burst or loss | two runners, two registrations, two slots, two retries |
| logs | LogBus: the contract of `LogFeed` (lines once and in order, or told of once), loss announced, channels closed once, lines arrive, the stream of a deleted app ends; LogTail: output kept across rotations, every line captured | three lines of two streams, ring of two, channels of one: each fills and each evicts; five bytes, rotation at two, one archive kept, a batch of three, lines of two, one failure |
| takeover | one owner, a settled daemon keeps its socket, boots end | three processes, one unclean end, a grace of two rounds |
| control | trees have their app, targets stay, scaling keeps one, routes are their app's | two handlers, three ids, three registrations, a dump with the first and the last id, one tree at a time that survived a kill |
| persist | acknowledged dumps survive, dumped trees are adopted, none is doubled | one saver and the adopter, two ids, one name, one end of the daemon, and a kill or an adoption that fails at one of the ids: the other's trees are firm, and must come through |
| requests | Cron: the first match, and schedules that fire; Options: options kept on every path; Fanout: success covers the selector, the report is honest | ten Gregorian years around the missing leap day of 2100, days of two hours of two minutes; each option alone, at the values where its conversions change; four apps, two changes by others, ids of eight values |
| machine_survivors | (violation) survivors stay reachable | two trees |
| ops_health | (violation) probes never restart a stopped app | one runner |

Two of everything is enough for the interleavings asked about: each property
speaks of one actor and at most one rival (old and new incarnation, tree and
successor, launch and evictor, saver and adopter). The proofs lift the safety
properties of all runs to any number. `CleanSingle` does depend on its bound:
see below. Deadlock checking is off in every run: an app that is deleted, a registry whose bounded serials are used
up, a search that found its minute and processes that all ended are places where
the system stops. `KillPath` was also run with four processes; its proof needs no
bound. The type invariants are proved, or part of a proved invariant, but for
that of the Reaper's eviction queue, which TLC checked with the module alone, and
the bounds on LogTail's bytes and faults. Every inductive invariant of section 6 was checked by TLC before it was proved,
on the run of its module or on a larger instance of it.

What the two violation runs show, at the lines `findings` quotes:

- a start after a failed kill overwrites the handle that was kept so that the
  survivors could be stopped (`SurvivorsRetained`);
- a probe in flight when its app is stopped can start it again
  (`HealthSparesStopped`).

Seven more configurations, to be run by hand, each show a sentence of the code's
comments or documents violated by its model:

| configuration, root | property | what happens |
|---|---|---|
| `ReaperReuse`, `MCReaper` | `DoneIsOwnExit` | an orphan's cached exit is taken for that of a later launch with its pid |
| `KillPathVerdict`, `KillPath` | `NilMeansEmpty` | in pgid mode a stop succeeds and leaves a process that was no orphan yet when it was looked at |
| `TakeoverRace`, `Takeover` | `LiveSocketKept` (daemon.go:228-229) | two boots that both judged the same owner dead: the second unlinks the socket the first already serves |
| `OpsProbes`, `MCOps` | `HealthTrue` (ops.go:9-11) | the reaper takes the exit status of a probe before cmd.Run waits for it (the race for which reaper_linux.go:15-17 rules out os/exec.Wait elsewhere); the ECHILD of a probe that succeeded is counted as a failure, and restarts the app |
| `CronCentury`, `MCCron` | `AcceptedFires` (cron.go:247-249) | 29 February asked about in 2096, or on 31 January 2100: no match within four years, and Next gives up |
| `FanoutOred`, `MCFanout` | `SelectorOred` (daemon.proto:87) | "all" beside an id reaches the id alone |
| `OptionsSinks`, `MCOptions` | `SinksApart` (control.go:241, store.go:112-116) | scaling up copies the base's log path, so a new instance writes into the log of an old one |

Further remarks, found while modelling; each is in a module, none is a run:

- `RouteFresh` of `Control` (logroute.go:124-127, "a reused pm_id never inherits a
  stale ring") does not hold, as `MCControl` shows with it as an invariant beside
  the constants of `Control.cfg`: a resurrect takes a deleted id before its
  route is closed and keeps that route, or a lookup taken before a delete makes the
  route of an app that is gone. `RouteOwned` is what is left of it.
- A tree that is found and cannot be adopted gets a second one beside it, against
  "without killing or duplicating its apps" (adopt_linux.go:4-6): the comment at
  control.go:387 names the case ("or adoption impossible"). `NeverTwice` and
  `SavedAdopted` except that tree, and no other one of the batch.

- A daemon told to end twice over, by SIGTERM and by `kill`, unlinks the path a
  second time, and with it the socket of a successor. `CleanSingle` excepts that.
- `CleanSingle` is true of at most Grace + 2 processes: a boot that meets, in
  every round of its grace, another daemon that comes and goes unlinks the next
  one's live socket. The real grace is some twenty polls.
- A boot that is refused because a daemon answers has already overwritten that
  daemon's record, and removes it when it leaves (`WriteRecord`, `Leave`;
  pidfile_linux.go:35-61).
- A daemon re-executed by an update finds its own old socket file, has no dead
  owner to prove, and waits the whole grace; a boot of the same round can win.
- `Persist` defines `ExitHeard`, `UpdateAdopts` and `PoliteDeath`, which do not
  hold: an adopted leader's exit can be reaped into the cache before its app
  listens; a start between the dump and the exec is in neither; and an app
  started during `kill` is orphaned.
- A captured line can be joined of two after a flush (`LogTail`'s
  `LinesUnmixed`): the half line carried over from an archive is not dropped. A
  failed open or read sets the offset back, and the file is captured again from
  its start. Pruning removes any file named like an archive. `pm0 flush` also
  truncates the archives.
- Near the cap of a batch, with a half line carried, the offset can get below
  zero, and the next Seek fails (`SeekFails`).
- `looksLikeNode` puts TypeScript files and scripts with a shebang into cluster
  mode, which WithResolvedExec then refuses (`LooksLikeNode`, `ExecOk`).
- Running an ecosystem file again starts a second family when the first runs as
  fork instances `web-0`, `web-1` (`RestartExisting`); a restart with an empty
  environment keeps the old one.

## 5. Fairness

- Machine: blocking handlers return (the kill path is bounded by its grace, a
  spawn succeeds or fails), timers fire, exits are delivered: weak fairness. A
  blocked sender is served under strong fairness: Go wakes blocked senders in
  order and picks among ready arms at random. Nothing is assumed of callers,
  processes or the clock: `CrashLoopEnds` names ticks as an excuse.
- Supervisor: actors answer (Machine's `CallsReturn`), the deadline passes;
  the reload gets `s.mu` under strong fairness, for sync.Mutex has a starvation
  mode that hands it to the longest waiter.
- Reaper: the loop and the launchers run; wait4 reaps each zombie sooner or
  later (strong, per process, since rivals may be reaped first).
- Ops: tickers tick, probes time out, and a closed stop channel, one of two
  ready arms at a tick, is eventually taken (strong).
- KillPath: the actor's goroutine runs and deadlines pass (weak). Nothing is asked
  of the processes, not even that a killed one ends.
- LogBus: a fan-out never blocks, goroutines run, the backlog is sent line by
  line, the client reads what it is sent (weak); those that wait for the route's
  mutex to subscribe, to take the snapshot or to unsubscribe get it (strong).
- LogTail: the pump's ticker ticks (weak). Nothing is asked of the app.
- Takeover: goroutines run and time passes (weak, per process). Nothing is asked
  of users: no signal, call, crash or boot must come.

## 6. Proofs

The eight `*Proofs` modules are checked by TLAPS to the last leaf, from the
assumptions on constants named in the modules they are about (kinds of the
constants; nothing on their size) and the hypotheses named below.

**Machine.** `IInv` joins the checked invariants and `BackoffBounded` (the
growing backoff keeps below its ceiling, proved only) with `Control`,
which says where the actor can be for each status and what is then true of its
handle, its caller and the null `created_at`. Without it the invariants are not
inductive: `SingleGeneration` survives a spawn only because nothing but a
reported survivor can be in the handle at that point. `Invariance` is
`Spec => []IInv`, with one lemma per group of actions; from it follow the six
state properties (`TypeCorrect`, `OneGeneration`, `SnapshotsAreTrue`,
`ParkMatchesStatus`, `BudgetStaysArmed`, `BackoffStaysBounded`), the action
property `NoUnaskedRevival`, and `ActorKeepsContract`, the refinement of
`AppContract`: initial states map to initial states and each action to a step of
the contract or a stutter. `ActorKeepsStatus` is the refinement of `ActorStatus`
in the same way. It says more than `NoUnaskedRevival`, which is proved still and
no property of the run any more: a stopped or errored app goes nowhere unasked, a
waiting one only to its launch, and under an order only where the order goes.

**Supervisor.** `SInv` adds to the checked invariants `RollShape` (what old, new
and the two slots are during a reload), `SlotShape` (a visible slot holds an app
of that id with a live actor), `SerialShape` (serials are handed out in order)
and `HolderShape`: the holder of `s.mu` has its actor, and nothing stirs an app between
the two halves of a restart. `SlotShape` is what keeps `CommandsAnswered` inductive:
a command picks its actor from a slot. The theorems state all eight safety properties of
the module for any number of ids and registrations. `ActorsAreAllowed` joins the two
models: each step of `ActorStatus`, taken by any incarnation at any point of a
reload and with what the holder of `s.mu` then does, is a step of `Supervisor` (a
delete's answer, which the registry goes on from, is shown to be awaited); so
these properties hold of actors as `Machine` has them. Stating it showed a step
that was missing, the kill path of an errored app with survivors.

**Reaper.** Under `NoReuse`: no pid comes round again. `IInv` says of every
launch at which step of spawn, Register and wait its exit can be where: in the
process table, in the loop's hand, in the cache, in its channel, or evicted from
the cache at its cap. The checked
invariants are not inductive alone, since they do not say that a cached exit is
that of the process which has the pid. `ExitsAreKept`, `WaitersAreSole` and
`ExitsAreOwn` follow; the last is what `reaper_reuse` violates without the
hypothesis.

**LogBus.** `Closers` says who may still close a subscriber's channel: whoever
takes the subscription out of the route, which for Close is before it closes;
then its list; then nobody:
`ChannelsAreSafe`. With `FanoutHolds`, a fan-out in progress has its
subscription: `NoSendOnClosed`, no send panics. `LInv` adds what the client's
side needs: each queue on the way to the client is in order, and all that is in
a later queue comes before what is in an earlier one (`Ordered`); the backlog
ends where the lines sent live begin, since the snapshot is taken after the
subscription (`Bounded`, `Staged`); and from any line on its way every later
line of its stream is on its way too, or counted in a marker, or still to be
counted in one (`Complete`). `DeliveredOnceInOrder` and `LossesAreAnnounced`
follow for every ring, every capacity and any number of lines. For the
refinement, `FInv`: a dropped line is in one place only, a set still to be
reported, a marker in one queue, or one sent (`Once`); what is in the queues was
captured (`Known`); every line since the subscription is in the channel or
among the drops until the snapshot is taken, so the snapshot meets them without
a gap (`SinceAttached`); and what has passed the forwarder is of the streams
asked for and newer than the backlog (`Asking`). `StreamKeepsFeed` then maps each action to a step of
`LogFeed` or a stutter: a fan-out, a forward and an eviction change where a line
is, not whether it is owed. `DeliveredOnce` is no property of the run any more,
for the contract says as much of what is sent, and of what is dropped too.

**LogTail.** `OutputIsKept` is for any output, rotation size, retention, batch
and line cap (one batch is longer than a line). `TailKeeps` has four parts.
`ShapeInv`: the file is the end of the output, a copy under way is in order and
older than the rest of the file, the carry is a piece without a newline, and
there is a carry only at the beginning of a file. `OrderInv`, as long as no read
failed: what is captured and carried is in order, and older than every byte not
yet read, wherever that byte is now (`UnreadIsNewer`: file, copy or last
archive). It is this that a rotation between two reads could break, and why a
read of the archive goes on at offset 0 of the file. `LinesInv`, as long as
nothing was lost: the pump has read the output up to `Place`, the lines captured
are those that end before it, and the carry is the rest, cut (`CarryIsRest`).
The step that matters is the read: the newlines of what it got are the next
newlines of the output, moved by what the carry has been cut (`ShiftedEnds`,
`ReadEnds`), a count over finite sets of places rather than an induction over the
bytes. `WholeInv`, as long as nothing was flushed or written in a truncation's
window: each archive begins where the one before it ended (`Linked`), and the
copy is what the file was (`CopyIsFile`).

**Ops.** `RunnersInv`: serials are handed out in order and nobody knows one that
is not (`SerialsKnown`), what the loop has listed is the registry of now unless
the version moved since (`ViewFresh`), and a runner that is gone starts anew;
hence `RunnersAreSole`: one runner enforces an app, and the version gate hides no
change. `BudgetInv` compares the runner's count of failures with what the
probes reported, less the result still in the channel (`FailsCounted`), and the
next slot with the last one that fired (`NextAfterLast`): `TripsAreEarned`,
`SlotsFireOnce`. What is earned is a row of results without a success among
those the runner heard; that such a result was a failure is not said, since the
reaper may have taken the status (`HealthTrue`, section 4).

**KillPath.** `KInv` says what the verdict in progress has established. In pgid
mode: a marked child of the daemon remains one, so it is seen by the scan of the
group or by that of the orphans; `GroupLooked` and `OrphansLooked` say which of
the marked can still be alive as the scans go on, and `Result` carries their
outcome to the return. In a cgroup: nothing forks where nothing lives.
`SuccessIsTrue` is `VerdictHolds` for every tree; `CgroupSuccessIsEmpty` is
`NilMeansEmpty` when pgid mode is not among the modes.

**Control.** From `BoundsAssumption` and `DumpsAssumption` (a dump names ids, and
at least one). `IInv` adds what the four properties need and do not say: the
counter is above every registered id (`Counted`) and above every id that a
request still holds, unless a resurrect gave it out or the registry was empty
since (`TargetKnown`); a route, and a view promised one, is of the app that has
the id, or nobody has it, unless the id is among the `recycled` (`RoutesCounted`,
`RoutesKnown`); and the lowest registered pm_id is in no shrink's hands
(`LowestKept`), which is why scale requests, each with a count out of date,
cannot empty a family together. A failed kill takes its tree out of what
`TreesOwned` claims, and that tree alone: the proof has the three outcomes of a
kill in one lemma (`KillsLeave`). That a request's first view exists is a lemma on
sets of numbers (`LeastNatural`, from the library's WFMin).

**Persist.** From `DumpAssumption` (kinds of the constants). `DumpsWhole`:
whatever may be renamed over the dump is whole and synced, and an acknowledged
list is the one on disk: `DumpsDurable`. A tree that no app runs is lost, and a
lost tree is firm when no kill and no adoption of its entry has failed. As long
as no start has taken the pm_id of a firm lost tree (`rival`), whatever
names that pm_id, in the registry, in a dump or in a request, names it alike
(`LostApart`), no list on its way to the dump names the tree (`LostUnsaved`), and the resurrecting request still has every firm lost tree
of the dump to do, and is never about to start one (`LostToDo`): so when it is
done the dumped trees are adopted (`DumpsAreAdopted`), and no firm tree is adopted
or started twice (`NothingTwice`).

**Takeover.** `SettledSafe`: while a daemon is settled the path leads to it and no
boot stands between its verdict and its unlink, for a round ends only when no
boot does, and in a later round the daemon answers. `SettledStays` follows for any
number of processes and crashes. `CleanHasOneOwner` is for at most Grace + 2
processes, and any grace. `CleanSafe`: in a run without unclean ends the path is
free or leads to the one daemon whose listener nobody has unlinked
(`HolderOnPath`), no boot can judge the recorded owner dead, for who ends has
removed its record (`RecordAlive`), and every round that a boot waits is paid
for by another daemon that came and went (`RoundsPaid`, a count over the set of
the processes that have ended or unlinked). A boot that waited the whole grace
has thus seen all others go, and what it unlinks is nobody's.

**Cron.** `Passed`: no minute between the one asked about and the search matches.
A skip goes from one minute to the first of the next month, day, hour or minute,
and the minutes it jumps share the field that did not match (`SameDay`,
`SameHour`, `SameMinute`). `FirstIsFound` is for every calendar whose end is at
least 51 months off, and every schedule.

`LeapInv` adds what Parse hands to the search (`WellFormed`: fields within their
ranges, none empty) and what the search knows at its end: the limit is behind
it. When it gives up, 47 whole months have passed without a match, so each month
of the year did (`MonthComes`) and, in a month of four weeks, each weekday
(`WeekdayComes`): no weekday is asked for, and no day that a month of the
schedule always has (`NoDayPassed`), which leaves 29 February (`OnlyLeapDay`).
Hence `GivesUpForLeapDayOnly`, from `SpecsAssumption` (the kinds of the parsed
parts) and `MonthsAssumption` (months have their Gregorian lengths; no rule says
which February is long). An earlier `FiresInLeapCycle` had let the search give
up only when no February of the four years was long: the proof did not go
through, for a search from 31 January 2100 gives up on 2 February 2104, weeks
before the leap day of a month it has reached. The property now speaks of the 47
whole months, and the run has that start. `FiresShortOfCentury` is the comment at
cron.go:247-249 where it is true: if any 48 months hold a leap day, no search is
given up.

**Fanout.** From `FanoutAssumption`: registries are numbered from 0, a pm_id fits
an int32, `--parallel` is at least 1. `FanoutInv`: until an app asked for is
served, some RPC still has it to resolve or to serve, or has failed (`Covered`);
what was served is among the ids of an RPC, or that RPC has an error
(`Accounted`); and when no target was given twice over parallel RPCs, the RPCs
share no pm_id, and one that served an app comes to it no more (`Apart`,
`ServedOnce`). The lemmas under it are about the packing: the packed selectors
name together what the targets name, and apart what is apart (`PackParts`,
`SplitParts`, `ListingApart`). `SuccessMeansAll` and `ReportsAreHonest` follow for
every registry and command and any number of other clients.

**Options.** From `OptionsAssumption`: the defaults fit the wire, and are 0 where a 0
is not lifted. `OptionsHold` follows an option through file or flags, narrowing,
lifting and the encoding of rotation; `KeptConfig` is preserved by every way a
config is copied: an instance, a fill of its paths, a changed environment, the
dump and back. `OptionsAreKept` is for any requests and any width of the wire.

**Only model-checked.** Liveness (`CallsReturn`, `NoLimbo`, `CrashLoopEnds`,
`RollEnds`, `ExitArrives`, `CronAnswers`, `LinesArrive`, `DeletedEnds`,
`LinesCaught`, `StopReturns`, `BootEnds`) is out of the prover's reach.
## 7. Not modelled

The IPC channel's framing (Machine uses its two events); the reading of /proc and
of start times by adoption; the file fallback of log streams; sampling of /proc
for display; tables, doctor, init units and the rest of the command line; the
evaluation of a JavaScript ecosystem file; generated protocol code: none has a
state whose order could be wrong, but the first three. `Supervisor.TreePids`
unlocks before it sends, and could block on a deleted actor; the daemon does not
call it. Three hazards have no property: `PROJECT.json` says why at each.
