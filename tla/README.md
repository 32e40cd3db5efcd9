# NetOpsBench: a verification development

NetOpsBench provisions emulated data-centre networks, injects a fault of a
scenario, lets an agent diagnose it, scores the diagnosis and cleans up.
What is hard in it is the part around the algorithms: expensive runtimes are
shared by concurrent incidents through leases, every mutation of a live device
can fail half way, whatever happens the next scenario must find a clean
network, and what the agent is told about it must be true although probes,
polls and requests get lost. This directory holds TLA+ models of that part, TLC configurations that
check them, and proofs that TLAPS checks. Paths below are relative to the
repository (`platform/` is `netopsbench/platform/`); `PROJECT.json` maps every
definition to the lines it models.

Modules are read in this order:

| module | models | state |
|---|---|---|
| `ExclusiveLease` | abstract: what leasing promises | implemented by `LeasePool` |
| `LeasePool`, `MCLeasePool` | `RuntimeLeasePool` + `RuntimeEpisodeBackend` | checked, proved in `LeasePoolProofs` |
| `Incident`, `MCIncident` | `PreparedIncident` + `DiagnosticSession` + backend `finish` | checked, proved in `IncidentProofs` |
| `Tracker` | `FaultTracker.remove_faults`, which the next two share | used by both |
| `LinkFaults`, `MCLinkFaults` | link fault handler, `FaultTracker`, `recover_all` | checked, proved in `FaultProofs` |
| `DeviceFaults`, `MCDeviceFaults` | all other fault handlers on one device, tracker, `recover_all` | checked, proved in `FaultProofs` |
| `ScenarioDispatch`, `MCScenarioDispatch` | `execute_on_runtime_pool`, `ScenarioExecutor`, `_cleanup_after_scenario` | checked, proved in `ScenarioDispatchProofs` |
| `SimulatorService`, `MCSimulatorService` | `SimulatorService`, `DiagnosticEnvironment`, registries of `SimulatorManager` | checked, proved in `SimulatorServiceProofs` |
| `RuntimeLifecycle`, `MCRuntimeLifecycle` | provision and teardown of runtimes on one host, buckets, collectors | checked, proved in `RuntimeLifecycleProofs` |
| `WorkerReadiness`, `MCWorkerReadiness` | activation of devices, health checks, start of client agents | checked, proved in `RuntimeLifecycleProofs` |
| `TrafficControl` | traffic controller and the traffic process of each client | checked, proved in `WorkerServiceProofs` |
| `BgpTelemetry` | BGP collector, its spool, Telegraf, the event query | checked, proved in `WorkerServiceProofs` |
| `Pingmesh`, `MCPingmesh` | probe agent of a client, its writer, what the analysis reads from the rows | checked, proved in `WorkerServiceProofs` |
| `SessionRun`, `MCSessionRun` | `SessionOrchestrator`, the files of a run, the trace index | checked, proved in `SessionRunProofs` |

## 1. Inventory

### Components, their state and operations

| component | state | operations | hard behaviour | what makes it correct |
|---|---|---|---|---|
| runtime lease pool `platform/simulator/runtime.py` | lists of `WarmRuntime` per scale (in use, deadline, quarantined), one re-entrant lock with a condition | acquire, release, refresh, quarantine, drain, reap_orphans | threads competing for the lock, waits with a timeout, provisioning and teardown that fail, leases revoked under their holder | exclusive leases, bounded capacity, no leak, no dirty reuse, every acquire returns |
| leased episode backend, same file | record, delegate | prepare, call_tool, refresh, finish | each step of prepare may fail with the lease held; finish races with tools | a lease ends exactly once on every path |
| incident engine `platform/incident/engine.py` | incident state, cleanup status, two locks, sessions with counters | prepare, open_session, call_tool, submit, terminate_failure, close | parallel tool calls, close from any thread, limits | cleanup and `on_close` once, tools only on a leased runtime |
| link faults `platform/faults/handlers/link.py`, `services/tracking.py`, `injector.py` | interface states and routes on devices, active faults, background threads | inject and recover link_down, link_flapping; recover_all | commands that fail after they took effect, compensation that fails, a background thread that outlives its join | a fault that is not tracked has left nothing behind |
| other fault handlers `platform/faults/handlers/*` | device configuration, tc qdiscs, containers, BGP and ACL configuration | inject, read back, compensate, recover | the same, and originals saved with the fault | as above; recovery restores the original |
| scenario executor `platform/scenario/*` | phase of a run, cleanup status | run, prepare, observe, `_cleanup_after_scenario` | retries against a deadline, convergence | success is only reported after recovery, traffic and routing were verified |
| simulator service and environment `platform/simulator/{service,environment}.py` | slots with tombstones, per-environment locks | create, reset, step, delete, prune, close | concurrent HTTP requests, deletes during a step, close during create | an environment is closed once, slots never leak, tombstones answer replays |
| simulator manager `sdk/simulators.py` | environments, incidents, current pool | create, prepare, discard, close | close during prepare, the pool replaced after close | close leaves no runtime behind |
| session dispatch `platform/session/dispatch.py` | workers with scenario queues, results | assign, run a worker, collect, cleanup | a failed cleanup poisons the worker, exceptions in evaluators | every scenario is run or skipped once; a dirty runtime is not reused |
| session orchestrator, reports and traces `platform/session/*` | run directory, report, metadata, trace index and result rows | reserve, provision, run, save, tear down, amend | two files written twice, each write may fail; runs that start at the same time; workers that append to one index | files tell the truth about run and runtime and agree with each other; a result is joined with its own trace |
| runtime lifecycle `platform/runtime/*` | labs, metadata files, buckets, subnets, worker slots | provision, attach, teardown | crash between two steps, rollback that fails, two processes on one host | no orphaned resource, nobody else's resource is removed |
| telemetry `platform/observability/*` | InfluxDB buckets, telegraf and collector processes, process identity files | ensure, delete, start, stop, collect | lost answers, PID reuse, backlog | only owned buckets and processes are removed; no snapshot is lost or written twice |
| pingmesh detector `platform/pingmesh/*` | none (queries) | detect, coverage | thresholds at boundaries | its classification equals the definition |
| traffic `platform/traffic/*`, client agent `native/client-agent/*` | flows, control sockets, probe cycles, in-flight probes | start, stop, verify; probe, report | partial starts, bounded in-flight work, timeouts against late answers | all flows or none; a probe is counted once |
| topology `platform/topology/*` | none | plan, build, render | index arithmetic | addresses and links are unique and symmetric |
| evaluator `evaluator/*` | none | score | missing fields, boundaries | the score is within its range and monotone |
| toolkit, MCP server, CLI, SDK facade, agents | caches only | queries, presentation | parsing | the BGP event query tells what was polled; the rest is I/O and formatting |

### How they interact

`SimulatorManager.prepare` makes an `IncidentEngine` whose backends share one
`RuntimeLeasePool`. `IncidentEngine.prepare` calls `backend.prepare`, which
*acquires* a runtime (waiting under the pool's condition variable, provisioning
under its lock), *recovers* what is left on it, checks health, starts traffic,
takes a baseline, and has the executor's delegate *inject* the fault and observe
it. Sessions then *call tools* through the incident (under `_tool_lock`), each
call *refreshing* the lease before and after. `close` (under `_close_lock`) has
the delegate *recover* through `FaultInjector.recover_all` and the backend
*release* or *quarantine* the runtime, then calls `on_close` in the manager.
A lease whose holder went silent is revoked by whichever thread next asks for a
runtime; `SimulatorManager.close` drains the pool at any time. The batch path
(`Session` -> dispatch -> executor) uses the same executor and fault handlers
without leases: the orchestrator *reserves* a run directory, *provisions* a runtime or takes
the user's, *dispatches*, writes report and metadata, *tears down* and writes both again.

`RuntimeManager.provision` runs four stages on the workers of a runtime: *deploy*
labs under a host-wide lock, *observability* (bucket, telegraf sidecar, collector
process), *pingmesh* (agents) and *warm* (health). `teardown` works from what the
runtime's metadata says. The collector and the Pingmesh agents write rows while
everything else goes on; Telegraf carries the collector's spool to InfluxDB, the
detector and the toolkit query it. The traffic controller talks to a process on each
client, one request per operation.

### Hazards

`PROJECT.json` lists 40 of them with their line, and the properties that cover
them. In short: interleavings of acquire, release, reap and drain; leases revoked under
a holder that goes on; waits computed from state that is stale; every step of prepare
and finish failing; close against tools in flight and against a second close; a
flapping thread that outlives its recovery; compensation that fails; retries against
deadlines; crash between creating a resource and recording it; requests that are
carried out after their sender gave up; files that are written twice around a teardown; a spool whose segments are sealed, read and
deleted at the same time; coverage that is assumed rather than observed.

## 2. Plan

Done, in this order: `LeasePool` with `ExclusiveLease`, `Incident`, `LinkFaults`,
`ScenarioDispatch`, `SimulatorService`; then `DeviceFaults`, `RuntimeLifecycle`,
`WorkerReadiness`, `TrafficControl`, `BgpTelemetry`, `Pingmesh`, `SessionRun`.

Left:

1. the validation in `attach` and the workspace's index of runtimes in `RuntimeLifecycle`;
2. latency anomalies and the repeated query in `Pingmesh`;
3. the scorer against a reference definition.

Every safety property that a run checks is proved; liveness stays with TLC (section 5). Modules
whose proofs share a proof module name their variables and specifications apart (`TrafficSpec`,
`BgpSpec`, `DeviceSpec`, `WorkerSpec`). Modules meant to be proved about use no `RECURSIVE` operator.

## 3. The modules

### `LeasePool`

One backend per client thread, a pool of records, one lock (`owner`). A record's
fields are functions over `Records` (`shelf` is the list of `_runtimes` that holds
it, `ttl` the time to its deadline, `faulted` whether a fault of an episode is
active on it). Actions that the code runs under the lock without giving it up are
split exactly where another thread can see the difference: the lock is taken by
`EnterLoop`, kept through `ReapOrphan`, `LookForCapacity`, `EvictIdle` and
`Provision` while time passes, and given up by `WaitForLease`, by a lease or by an
error. `todo` is the local list (`stale`, `candidates` or `selected`) the holder
works through; each teardown may fail. The client's side is `Request`,
`OpenSession`, `StartTool` and `StartFinish`; nothing makes a client continue, so
that leases are orphaned. `DrainBegin/One/End` is `drain`, for any set of scales and
at any moment.

A name in `Records` stands for a `WarmRuntime` object and is used again only when
the pool and every backend have dropped the old one. Time is discrete: a tick may
fall between any two steps, and everything measured in seconds (TTL, grace, session
limit, wait timeout) is measured in ticks. Abstracted: contents of health errors,
the reuse of baselines, and the traffic check inside prepare (they only decide which
outcome of prepare occurs, and every outcome may occur). A backend has at most one
session at a time here; several sessions at once are in `Incident`.

`ExclusiveLease` is what the pool promises: a runtime that has no holder and is not
retired can be taken, a holder can give it back or be revoked, and a retired runtime
is never taken again until its name is renewed. The refinement maps `holder` to the
backend that leases the record and `retired` to the quarantined records.

### `Incident`

One `PreparedIncident` with the backend below it and its sessions, driven by
threads. The granularity is that of the locks and of the calls at which the
interpreter can switch threads: `CheckIncident` and `TakeToolLock` are different steps
(the state is checked before the lock is taken), `Recovered` (the backend forgets its
record and delegate) and `ReleaseRuntime` are different steps. `CallTool` checks and
counts in one step, because there is no call between the two in which another thread
could run. `leased` is the pool's view: the incident still has the lease it acquired.
`DispatchTool` reads `self.delegate` once where the code reads it twice; a backend that
finishes in between only changes which exception the tool raises. `on_close` is one step;
what the manager does in it is in `SimulatorService`.

Restrictions: an incident under preparation is not visible to other threads
(`IncidentEngine.prepare` returns it afterwards); a session is submitted and
terminated by its own harness thread, while tools may be called by every thread; the
revocation of the lease by another thread is not repeated here (`LeasePool` shows
that within the session's limit only a drain does it).

### `LinkFaults`

One physical link, the executor's thread `Main` and the thread of `link_flapping`.
`_set_physical_link` is a *job*: the endpoints still to do, the endpoints attempted,
whether the job is undoing, and which errors and residuals it noted. Every command on
an endpoint is a step of its own, so the two threads interleave between any two
commands. A command that is reported as failed may have changed the device
(`LowerEnd` and `RaiseEnd` leave it open). A shutdown removes the routes of a client
endpoint, `RestoreRoutes` brings back those in the snapshot. The tracker is the
sequence `faults`; `RecoverAll` ... `RecoverAllEnds` is `recover_all` with its copy of
the list and its final overwrite.

The link is chosen in `Init` from `Links`, each given by its endpoints on clients: none,
or the peer of an access link. Restrictions: at most one flapping thread at a time (a
scenario has one fault per link), and on an access link one fault at a time, of a kind
in `AccessKinds`: the second snapshot would be taken while the routes are gone.
`MaxFaults` bounds faults injected before a recovery.

### `SimulatorService`

Request threads (`Workers`) and the thread that closes the service. A slot is
`table`, `bound` (its environment is not `None`), `terminal` and `terminalAt`;
`slotLock` is `slot.lock`. What runs under the service's own lock without giving it up
is one step (`Lookup`, `Delete`, `Insert`, `PruneSlots`); `step` and
`delete` keep the slot's lock from `EnterStep` and `DeleteBound` to their end. A slot
is retired in three steps, of which only the last is under the service's lock:
`Retire` takes its environment away, `StampSlot` sets `terminal_at`, `PruneSlots`
prunes. Other threads prune between any two of them.
`environment.close` is a subroutine: `phase` says where in it a thread is, `pc` where
it goes on, because `step`, `submit`, `delete`, a rejected `create`, the service's
sweep and the manager's loop all call it, and the incident's `_close_lock` is what
they meet at. Below the environment the incident, its session and its lease are
reduced to a state each (`Incident` and `LeasePool` have the detail), with each
failure of prepare, finish and teardown as a choice. Pools are generations: the
manager makes a new one when `close` has dropped the last.

`Prunes` is `_prune_terminal_environments`: the set of tables it may leave. A tombstone
that has no stamp yet is never expired and counts as the newest; between tombstones that
are as new as each other any order is allowed, where the code takes that of their insertion.
Only the order of stamps matters, so a stamp is a number that grows, and `TimePasses`
lets the TTL of the oldest remembered stamp pass. `SimulatorManager.close` drains, and
at its end drops, the pool it found when it began, whatever pool the manager has by then.

The closer may start at any moment, also between two steps of a request, and again
later. `SimulatorManager.prepare` (incidents without an environment) and the event log
are left out.

### `DeviceFaults`

The faults of one device, and the tracker that promises to undo them. A handler runs
alone on the executor's thread, so a whole handler is one step: it chooses one of the
results that its commands can have. `Run` is a command: refused, or done in part or in
full without saying so, or done. `Verified` is a command followed by the readback the
code makes of it. Injection is a handler's sequence of these with its compensation; it
ends tracked, tracked as a residual (compensation was not read back), or untracked.
`RecoverAll`, `RecoverNext`, `RecoverAllEnds` are `recover_all` with its copy of the
list, its overwrite of the tracker, and the `remove_faults` predicates, by which one
recovery takes a whole `Group` of faults with it.

`Stacks` names the groups of which several faults are injected before a recovery. MTU
and neighbour faults are not among them: their second injection would save the faulty
value as the original, and no scenario injects two on one device. `device_down` is
injected alone. Two switches are off in the run because the code is known to go wrong:
`OwnRoute` (the device has a static route of its own for the fault's target, which
readback and recovery take for the fault's) and `UnreadableMtu` (the kernel's MTU
cannot be read while commands work, and the fallback to CONFIG_DB or to another port
answers for it). The expected ASN of a neighbour comes from the topology's manifest, so
recovery does not depend on what was read. Neighbour faults are not read back: return code 0
of `vtysh` is taken to mean that all of its commands were applied, as the handlers do. After
`Heal` the device answers everything.

### `RuntimeLifecycle`

The host (`lab`, `telegraf`, `collector`, `bucket`), the files of each runtime (`disk`
is `runtime.json`, `owned` is `telemetry-buckets.json`) and the process that works on it
(`pc`, `job`). A process may die between any two steps and leaves exactly the files, and a
command it runs dies with it; a command may fail before or after it took effect. Whatever the
process does in two calls with something to lose in between is two steps: `mkdir` and the first
`runtime.json` (`Provision`, `Describe`: a directory without the file, `Bare`, can never be
attached and blocks the name), a bucket and its record (`Observe`, `Record`), a collector and
its pid file (`Sidecars`, `WritePid`), `rmtree` and `sudo rm` (`RemoveDirectory`: the file may
be gone and the directory left).

Deployments hold `lock`, the file lock of the host; the compensation of a failed provision and
a teardown do not, as in the code. `Allocate` plans the subnets of all workers at once from what
docker lists, `Deploy` uses them lab by lab while other runtimes remove theirs.
`assert_worker_slot_available` ignores the return codes of docker, so a check that
could not be made passes and the lab is deployed with `--reconfigure`, over whatever is there.
The same holds for `teardown_worker_lab`: when docker refuses to tell what is left, the lab
passes for removed (last disjunct of `UndoLab`). Every teardown attaches the runtime anew, which
takes its `runtime.json` (`Attachable`) and forgets what an earlier one had in memory.

Runtimes of one name in two workspaces share the names of labs and buckets and nothing else;
the run has two of these. `torn` are the runtimes a teardown of which has begun and those
of which a namesake may have taken something: by deploying without an answer of docker, or by
cleaning up. A namesake that is refused, or fails before it deploys, cleans up nothing.
`Others` are labs that somebody else deployed under one of our names (section 6). `orphans` is what
a runtime left that none of its files leads to: labs of a process that died while it deployed
(the next provision of the name is then refused by its own directory, and a teardown sees a
runtime that was only created); a bucket whose creation was not answered or not recorded; a
collector without pid file; a lab docker gave no answer about. `GoneMeansClean` says that
there is nothing else.

Not modelled: two processes that work on one runtime of one workspace, runtimes that share some
of their lab names only, and failures of later writes of `runtime.json` (the first and the one
after a failed removal may fail).

### `WorkerReadiness`

One deployed worker: `boot`, `kernel`, `telemetry` and `converged` belong to its devices,
which boot, converge and lose their sessions on their own; `task` is the activation of a
device (wait for ConfigDB, activate, inspect the addresses, repair, verify); `check` is
the health check under way, with the devices still pending; `agent` and `start` belong to
the clients. `phase` is the order of `deploy_worker_transactionally`: activation, health,
agents, health again with the agents, ready. A command that times out may have
taken effect, or (the shell of a start command) may go on later: `late`. Agents are started
only on the clients that `ListContainers` finds (`scheduled`), and a failed start is cleaned up on
those only. When `docker ps` fails it finds none: nothing is started or stopped, and agents of an
earlier bring-up run on and no error names them. `AgentsAllOrNone` says so.

### `TrafficControl`

The controller of a topology and one traffic process per client. `call` is the operation
that is sent to all clients in parallel; each client has two attempts (`todo`), each of
which may be lost, answered, or carried out without an answer. A request that was given
up stays in `late` and may be carried out until the next start or stop of the episode: the
process reads a request until 5 s after it accepted the connection, the sender gives up
after 3. The process checks generation and plan as `control.rs` and `traffic.rs` do, its
scheduler connects flows, and a status request answers ready only when all flows are up
and the heartbeat is fresh (a client without outgoing flows never refreshes it, hence is
never ready). `verify_active_flows` only reads and is left out. That a late request is
not carried out after the next start or stop is a matter of these seconds: an enabling
that is carried out after a later episode's disabling is excluded, not shown to be impossible.

### `BgpTelemetry`

The collector's round: devices are polled in parallel (`polling`), each poll with the time at
which it was launched, and the lines of the polls that are `done` are written in batches, in any
order. A write may be refused (the spool is full), and then the batches of the round that are
not yet written are gone although the tracker has moved on (`lostPolls`). No two polls have one
time in nanoseconds, so a counter stands for the clock; between rounds it goes back to the last
time that left a trace (`LastTime`), which nobody can tell from the clock. `active` and `sealed`
are the spool; `Write` seals the active segment (`Seal`
appends its marker and renames it) when the next batch does not fit, under a name made of the
latest time in the file and a sequence number (`NextSegment`), and `Crash` may come
between the marker and the renaming; `Refuse` and `EndRefused` are the end of a round the
spool has no room for; `DeleteSegments` removes segments whose marker Telegraf has stored,
or fails. Telegraf is external: it reads the
lines of each file in order, at its own pace. `FastEvent` and `SnapshotEvent` are the two
ways of the query, `IndexCovers` decides between them, `PolledEvent` is the reference:
what the polls saw. A query covers a window that ends now, with any `state_filter`. Its scope is
*absolute*, and then starts from the last row before the window (`Prior`), or *rolling*, and then
does not. In rolling mode the two ways differ: transitions tell the step into the window
and full snapshots do not; `EventsTellTruth` says of each what it tells.

Excepted by `Known`: devices of which a poll was lost, or whose
collector was restarted (a new tracker takes the first state as a baseline in silence),
or whose session disappeared from the output, and windows in which what is stored has a gap
(`IndexCovers` looks only at the two ends). A collector of more than 128 devices leaves out the rows
of established sessions between two full snapshots (`Sparse`, in a configuration of its own): then the
last row before a window may be older than the last poll (`StalePrior`), and a session that was up
all the time is not told of; the property names both.

### `Pingmesh`

The agent of one client, counted in cycles: `Begin`, the probes, the replies, the
confirmation of unanswered large probes, the rows, the end of the cycle; ticks may be skipped.
`pending` is the map from sequence numbers to probes; `log` is the history of the cycle, from
which each row also carries what really happened (`missed`, `dfMissed`, `probed`). The writer takes rows
from the bounded `queue`, collects a `batch` and posts it; a post may fail after it was
stored. On the analysis side `Complete`, `Suspect`, `Lossy`, `Unreachable`, `PassesGate`,
`ReportsLoss` and `ReportsMtu` are what the detector and the baseline gate compute from
the rows of a `Window`. The gate tolerates lossy paths up to a rate of 0.001 of all clients' paths;
`LossyPaths` is how many of them are this client's. `FaultsAreReported` says what a baseline that
passes may hide of a later fault: loss on a path that lost probes in the baseline as well, less
of them than the detector counts, or on a tolerated path; and loss of large packets on ports where
the baseline lost small ones or most large ones. `Slice` cuts an observation into its early and steady parts,
`Reported` is the report over the whole and its parts, and `WindowsObserved` and
`Persistence` are what `_merge_window_anomalies` writes on a reported loss. Left out: the
responder, the ready and integrity flags, latency and the repeated query. The order of
probes within a phase is
left out as well; it is not visible in the counts.

### `ScenarioDispatch`

One runtime, used `MaxDispatches` times; each worker runs its `Share` of the scenarios.
`pc` follows a worker from `_run_worker` into `run_scenario`: prepare (`traffic`,
`baseline`, `injecting`, `observing`), `diagnosing`, the loop of
`_cleanup_after_scenario` (`cleaning` is the head of the loop, `settling`, `verifying`
and `validating` are the checks in it), `reporting` and `closing`. A prepare that raises
goes to the same cleanup, since a broken incident is finished at once. `left` is the
time to the deadline in polling intervals: a recovery and the wait after it may take any
part of it, a sleep takes one.

The injector and the traffic controller are their contracts. A fault that is `active` is
`tracked` until its recovery is reported (which is what `LinkFaults` checks of a
handler); a recovery that fails may have changed the network or not. A controller is
absent, has no flow (`start_matrix` failed and cleared them) or runs. Health checks and
queries succeed, fail or raise as they like. Both belong to the executor of a worker
and a dispatch, so a new dispatch starts with an injector that tracks nothing:
`lost` remembers that an earlier one ended with an exception.

Abstracted: what the windows contain, scores and reports (only whether writing them
raises), and the orchestrator around the dispatch, which is `SessionRun`; `Dispatch` by
another run is the case in which the user owns the runtime.

### `SessionRun`

Several calls of `run_scenario` and `run_suite`, or of their variants on a user's runtime
(`mode`: its own runtime, its own with `keep_runtime`, the user's). `pc` follows
`_run_with_platform_runtime`: *reserving* a directory, *provisioning*, *preparing*,
*running*, *reporting* and *describing* (report and metadata), *tearing* down, *finalising*
the report and *amending* the metadata. It ends *returned*, *raised* (the run's own failure),
*refused* (before there was anything to record), *broken* (any other exception: a final write or
the handle's refresh that failed, or a run on the user's runtime) or *crashed*. Only a call that
wrote both files promises that they agree: when the last write of the metadata fails, the report
may say "failed" and the metadata still "completed", and the call raises. A run that failed goes on to the
teardown with whatever files it has, exactly as far as `except Exception` reaches.
`atomic_write_json` leaves the old file or the new one, so `Write` replaces a file in one
step; each write is a step of its own, and it may fail or be the last one.

While the call is *running* each worker has a `thread`, which takes the scenarios of its
`Share` (every `Size`-th). A scenario is diagnosed, which writes a trajectory and appends to
`index`, and scored, which adds a row to `rows` with the trace `TraceOf` finds; or its
preparation failed and it is neither. A cleanup that failed lists the rest of the share as
skipped. `ScenarioDispatch` has what happens inside a scenario, `RuntimeLifecycle` what
provisioning and teardown do: here both succeed, fail or leave a runtime behind.

All calls are made in the same second, the worst case for the names. `Roots` are the
artifacts directories a call may be given; runtimes are named after the run id only, so
a call with another directory may find its runtime's name taken. The trace files are
forgotten when the workers were joined: nothing reads them before the run is over.
Nobody tears a kept runtime down here; a user who does so later does not amend the report.
Bounds: `MaxLost` traces and rows that cannot be written, `MaxCrashes` processes that die.

## 4. What TLC checks

| run | asks | bounds | distinct states |
|---|---|---|---|
| `lease_switch` | every safety property of the pool, that no sleeper misses a deadline, and that it implements `ExclusiveLease` | 2 places, 3 names, 2 backends, 2 scales, TTL 2, grace 1, limits {0,1}, wait 4 | 1.2 million |
| `incident` | the lease ends once, tools start on a lease, calls return, a close frees the runtime | 3 threads, 2 sessions, 1 tool call each | 87 thousand |
| `service_overlap` | no interleaving of create, step, delete and close loses an environment that holds a runtime; pruning takes exactly what it may | 2 environments, 2 workers, 2 pools, 1 tombstone, close at any time | 4.0 million |
| `link` | untracked means clean and the flapping thread is tracked; that thread and every recovery end | a switch link and an access link, 2 faults, 2 rounds | 14 thousand |
| `device_faults` | untracked means original, what is reported as injected is in effect, recovery converges | all 13 kinds, 2 at a time | 53 thousand |
| `scenario_dispatch` | scenarios start clean, statuses are truthful, a dirty runtime is quarantined, every dispatch returns | 2 workers with 2 and 1 scenarios, timeout 2, 2 dispatches | 159 thousand |
| `runtime` | what is gone left nothing, subnets are disjoint, warm is complete, everything is gone in the end | 2 runtimes of one name in 2 workspaces, 2 labs each, 4 subnets, 2 failures or crashes of one of them | 704 thousand |
| `readiness` | ready means activated, converged once and running this bring-up's agents; failed starts leave none but those they know of; it ends | 2 devices, 2 clients, 2 tries, 2 polls | 50 thousand |
| `traffic` | two matrices never mix, a stop silences, calls return | 2 clients, 1 flow each, 2 matrices, 2 polls, 3 losses | 103 thousand |
| `telemetry` | the event query tells what the polls saw, by either way and in either scope, but for what it names; no line is deleted before it is stored | 1 device, 3 states, 5 polls, spool of 6 in segments of 2, 1 crash | 1.1 million |
| `pingmesh` | losses are real, suspicions confirmed, coverage means probes, windows are long enough, a baseline hides only what it had itself, a loss that lasts is called persistent | 1 target on 2 port batches, 2 targets on 1; 4 cycles, queue and batch of 2, 2 troubles, 1 lossy path tolerated | 1.1 million |
| `session_run` | report and metadata are true and agree whatever fails, reports account for every scenario, rows point to their own trace | 2 calls, one with 2 workers on 2 scenarios of one id, one with 2 scenarios on 1 worker; 2 directories, 1 lost trace or row, 1 crash | 2.3 million |

Run by hand, with `tlc -config <cfg> <module>`; those marked V are violated, and section 6
says why:

| cfg | module | asks |
|---|---|---|
| `LeasePool_live.cfg` | `MCLeasePool` | every acquire returns; orphans are reclaimed |
| `SimulatorService_live.cfg` | `MCSimulatorService` | every request and every close returns |
| `LeasePool_long_session.cfg` V | `MCLeasePool` | a lease covers its session when session and pool are configured apart |
| `Incident_tool_in_flight.cfg` V | `MCIncident` | a tool only runs on a leased runtime |
| `SimulatorService_forgotten_pool.cfg` V | `MCSimulatorService` | a closed manager leaves no runtime, when a create is under way |
| `LinkFaults_access_flapping.cfg` V | `MCLinkFaults` | untracked means clean, for link_flapping on an access link |
| `ScenarioDispatch_lost_quarantine.cfg` V | `MCScenarioDispatch` | a warm runtime is clean, whatever raised |
| `RuntimeLifecycle_strangers.cfg` | `MCRuntimeLifecycle` | the run `runtime` for two runtimes of different names, each with a failure or crash |
| `Bgp_sparse.cfg` | `BgpTelemetry` | what the query tells of a collector of more than 128 devices |
| `Pingmesh_baseline.cfg` | `MCPingmesh` | what a baseline with lost probes below the threshold hides |
| `RuntimeLifecycle_foreign_lab.cfg` V | `MCRuntimeLifecycle` | cleanup removes only what the runtime deployed |
| `TrafficControl_leak.cfg` V | `TrafficControl` | after stop_traffic nobody sends |
| `Bgp_full.cfg` V | `BgpTelemetry` | a spool whose lines are all stored takes batches again |

Why the bounds are enough to meet the interesting cases. `MaxActive + |Backends| - 1`
record names always leave one for a thread that provisions: it finds fewer than
`MaxActive` in the pool, holds none, and every other backend refers to one at most.
With two places and two scales eviction, refusal, waiting and revocation all occur, and
a waiter may have to look at several deadlines.
TTL 2 with grace 1 and limit 1 is the tightest configuration that the validation of
`SimulatorConfig` accepts, where a tick more or less shows; with a wait of 4 an acquire may wait
longer than a lease lasts, as the code's 1800 s allow. Two backends give every pairwise race; the proofs below
cover any number. Three threads in `Incident` let two run tools while a third closes.
Two rounds of flapping are the first number at which the loop turns, two faults the
first at which recovering one may disturb the other. Two workers and a closer let a
step, a delete and a close meet at one slot; with two environments and room for one
tombstone, pruning has to choose; two pools let one be dropped and another made. A
timeout of two intervals leaves room for a retry that succeeds and for one that ends at
the deadline; the second scenario of a worker is the first that an earlier one may
disturb, the second dispatch the first that finds what another one left.
Two runtimes are the first at which a deployment meets another's undo, two labs the first
at which half a runtime exists and half of a plan is used; that they have one name is the case in which
they take each other's labs, and who of two namesakes fails makes no difference. Two troubles are a
failure with its compensation failing or its process dying. With four subnets both fit side by side;
by hand, three for three labs only suffice if what was freed is found again. Two devices are the first of which one may be converged while the other
is waited for; two addresses the first of which one may be missing. Two clients may be
on two matrices; three losses take both attempts of a request and its undo. Five polls
fill two segments and leave one active, with a window before, inside and after each; one
device is enough for the histories because sessions do not influence each other (batches of
several devices meet in the spool; the theorems below are for any number). Four cycles hold a
baseline epoch and a later one for two batches, and windows that begin anywhere in
them; a queue of two is exceeded by one cycle's rows when the writer is slow. Two calls
are the first that want one name; two workers on one scenario id the first that append to
the index around each other, two scenarios of one worker the first of which one is skipped.
Symmetry is used in safety runs only, where records, backends and scales, or
environments and workers, are interchangeable.

Deadlock is checked in `lease_switch`, `incident`, `service_overlap`, `link` and `traffic`,
where nobody may be stuck. The other systems really may stop: a quarantined runtime is not
used again, a healed device with an empty tracker has nothing to do, every runtime is torn
down in the end, a bring-up ends, calls are over, and rounds and cycles are bounded. There a liveness
property says that nothing stops in between (`DispatchReturns`, `RecoveryConverges`,
`EventuallyGone`, `BringUpEnds`); for the telemetry and Pingmesh runs the bound on times or cycles is
what stops them.

Each property of a passing run has a mutant in its module (marked `Mutant:`), a
plausible mistake at the line it replaces, under which TLC finds it violated.

### Fairness

`LeasePool`: time passes; a thread that can take its next step does (weak fairness).
Python's locks promise no order, but a thread that wants the pool's lock again and
again while it is free gets it in the end: strong fairness on taking the lock
(`EnterLoop`, `RefreshLease`, `Finish`). Clients promise nothing. `Incident`: weak
fairness of each thread's own steps; calls themselves are never forced. `LinkFaults`:
both threads keep running, since `CommandRunner` gives every command a timeout.
`SimulatorService`: a thread that serves a request or closes keeps running, and one
that waits for a slot's lock or for `_close_lock` gets it in the end (strong fairness);
nobody has to send a request. `ScenarioDispatch`: the threads of the workers keep
running, because devices, agents and queries are called with timeouts, and the caller
collects what they return; nobody has to use the runtime again. `DeviceFaults`:
recovery is called again and finishes (`_cleanup_after_scenario` retries it, commands have
timeouts); the device need not heal. `RuntimeLifecycle`: each process goes on with
its next step unless it dies, and a runtime that can be attached and that nobody works on is torn
down in the end (the user's `runtime teardown`, or `drain`); failures are bounded by `MaxTrouble`. `WorkerReadiness`: the bring-up's threads keep running, since every
command has a timeout; devices need not boot or converge. `TrafficControl`: the
controller goes on, since a request that is not answered ends after 3 s; clients promise
nothing. `BgpTelemetry` (for `SpoolTakesBatchesAgain` only): the collector's loop keeps
running and Telegraf reads what is there. `SessionRun` states no liveness.

## 5. What is proved

`LeasePoolProofs` (TLAPS), for any number of records, backends and scales and any
bounds on time:

| theorem | says |
|---|---|
| `TypeCorrect` | `Spec => []TypeOK` |
| `LeaseInvariant` | the inductive invariant `LeaseInv` holds |
| `LeaseExclusive` | no two incidents drive one runtime |
| `LeasesNotLeaked` | every lease has a holder, every holder a lease or a revoked one |
| `CapacityRespected` | the pool never exceeds `max_active_runtimes` |
| `RuntimesNotLost` | `RuntimesAccounted`: the three above and below together, as the run checks them |
| `SleepersWoken` | `NoLostWakeup`: while a thread sleeps, the pool is full, nothing in it is idle, and no lease ahead of its deadline reaches it before the thread's alarm, but by the time that an acquire may wait longer than a lease lasts |
| `IdleClean` | a runtime that can be handed out carries no fault |
| `SessionCovered`, `SessionNotRevoked` | if every session limit plus grace is within the TTL, leases cover their sessions, and only a drain revokes one within its limit |
| `PoolImplementsLease` | `Spec => EL!Spec`, the refinement |

Assumptions: those of `LeasePool` (capacity and TTL are positive, names are distinct,
`Records` is finite) and, for the two theorems on sessions, what
`SimulatorConfig.validate_lease_deadline` enforces when session and pool share a
configuration.

The argument. Exclusiveness is not inductive by itself: it needs that a record in use
is leased by somebody (so that an available one is leased by nobody, unless it was
quarantined), that a fresh name is leased by nobody, and that the lock is held by the
one thread whose program counter says so. `LeaseInv` is the conjunction of these. What
a lock holder still has to quarantine must be described too, because it was computed in
an earlier step: stale leases stay stale, and idle records stay idle, while the lock is
held (`TodoInv`). `CapacityInv` adds that a thread about to provision has seen room
and nobody else can have taken it. `CleanInv` follows a fault from injection to the
step that may release the record. `SleepersWoken` rests on `FullInv` (who has looked for capacity and
found none sees a full pool without an idle record) and `AlarmInv` (an alarm is never set beyond a
deadline that is ahead; deadlines only move away from it, but a lease past its deadline can be refreshed
to one as near as the TTL, which is where a wait longer than that may be late). `SessionInv` relates the deadline to what is left of
the session at each program counter. The step of every invariant is proved action by
action; the refinement uses `LeaseInv` to show that `holderMap` changes as the abstract
actions say.

`IncidentProofs` (TLAPS), for any number of threads, sessions and tool calls:

| theorem | says |
|---|---|
| `IncidentTypeCorrect` | `Spec => []TypeOK` |
| `ToolLockHeld`, `ToolsExclusive` | `_tool_lock` is held exactly while a tool is dispatched or runs, so two tools never overlap |
| `CleanupInvariant` | the inductive invariant `CleanupInv` holds |
| `CleanedUpOnce` | one recovery, one release or quarantine, one `on_close` |
| `LeaseEndsWithCleanup` | a reported cleanup means the lease has ended |
| `LeaseEndsExactlyOnce` | the two together: `LeaseEndsOnce`, as the run checks it |
| `ToolsStartLeased` | a tool starts on a leased runtime |

The argument. `ClosedOnce` counts, so it needs to know who may still count: `OneAtWork`
says that a single thread prepares or finishes the backend, `StateInv` that nothing was
counted before `closing`, and `WorkInv` that a thread that finishes holds
`_close_lock` and finds everything still to be done. `ToolsStartLeased` rests on
`delegate => leased`: the backend forgets its delegate before it gives the runtime back,
so a late tool raises instead of starting. Assumption: `MaxToolCalls` is a natural number.

`ScenarioDispatchProofs` (TLAPS), for any number of workers, any shares of scenarios, any
timeout and any number of dispatches:

| theorem | says |
|---|---|
| `DispatchInvariant` | the inductive invariant `IInv` holds |
| `DispatchTypeCorrect` | `Spec => []TypeOK`, with the bound on attempts |
| `ScenariosStartClean` | no scenario starts on what an earlier one left |
| `SuccessIsClean` | a cleanup that reports success left nothing |
| `StatusIsTruthful` | that, and the two timeouts are told apart rightly |
| `WarmIsClean` | a runtime that stays warm is clean, unless a dispatch raised |

The argument. The loop of the cleanup carries `convergence_pending` and the recovery
results from one attempt to the next, so a status is decided by what an earlier attempt
saw: `AttemptsAgree` says that between attempts the flag is set exactly when nothing is
tracked any more, and `AttemptsBounded` that each attempt but the first was paid for with
time. `TrackedWhere` follows the tracker over the whole run of a worker, up to `dirty` or
`raised` when it ends with a fault, and `BetweenDispatches` turns that into a clean warm
runtime. A step of one worker leaves the others alone (`StepIsLocal`), so the invariant is
proved for the worker that moves, action by action. Assumptions: the shares and the bound
on dispatches are natural numbers, the timeout a positive one.

`SimulatorServiceProofs` (TLAPS), for any finite set of environments, any number of workers,
pools, runtimes and tombstones:

| theorem | says |
|---|---|
| `ServiceInvariant` | the inductive invariant `ServiceInv` holds |
| `ServiceTyped` | `Spec => []TypeOK` |
| `RuntimesKept` | `NoRuntimeLost`: an environment that holds a runtime is live in the table, or a thread is at work on it |
| `PruningExact` | `PruneIsExact`: pruning takes only tombstones past their TTL or older than those the limit keeps, and leaves no more |

The argument. `NoRuntimeLost` speaks of leases, and who will give one back is known to a
thread only. `ThreadsInv` says for each thread where it is and on what (`PlaceOK`), which locks
it therefore holds (`HoldsOK`), and that an environment under creation is known to its
creator alone (`CreatorOK`). `EnvsInv` says the same from the side of an environment: its
incident, cleanup and `_close_lock` belong together (`IncidentOK`), its slot is a tombstone or
live (`SlotOK`), a live slot that was taken out of the table is in the hands of the
thread that deletes or sweeps it (`SlotHeld`), and a lease belongs to a live slot, a creator or an
incident being finished (`LeaseHeld`). A step of one thread leaves what the others hold alone
because it cannot have their locks. The number of tombstones in the table is bounded only up to
those being retired, which nobody has pruned for yet: `TombstonesBounded` counts the others. For
`PruningExact` a step may prune twice, before and after it adds a tombstone, with stamps set by other
threads around it: `LargestStamp` and what follows it are facts about finite sets ordered by stamps,
those without a stamp being the newest (`AsNew`), `PruneTwice` composes two prunings, and
`OutdatedByMaximum` counts why a tombstone had to go. Assumptions: those of the module.

`RuntimeLifecycleProofs` (TLAPS), for any number of runtimes, labs, subnets, failures and
crashes:

| theorem | says |
|---|---|
| `RuntimeTypeCorrect` | `Spec => []TypeOK` |
| `SubnetsStayDisjoint` | no two labs of the host share a management subnet |
| `GoneRuntimesAreClean` | `GoneMeansClean`: a runtime that cannot be attached has left no lab, bucket, record or collector but its `orphans` |
| `WarmRuntimesAreComplete` | `WarmMeansComplete`: a runtime recorded as warm has every lab whole, with its bucket, sidecar and collector, until a teardown begins or a namesake takes something |

The argument. Subnets are planned for all labs before the first is deployed, and in between
other runtimes undo and remove theirs: `PlanFree` says that what is still to be used of a plan is
free and in no other lab's place. It holds when the plan is made (`PlansAreFree`) and survives the steps of
the others because only the holder of the file lock takes subnets (`LockHeld`), while undoing and
removing labs frees them. That a gone runtime is clean needs to know what each file and each process
would clean up: `CleanInv` says, for each runtime by itself, that all it has on the host and has not
lost sight of is among its labs and its recorded buckets (`Listed`), what `runtime.json` says to a
successor of a process that dies here (`OnDisk`), that the process remembers as much as the record
(`InMemory`), and that what is behind it in the cleanup is gone (`Undone`). The steps of one runtime
can only take things from another one (`OthersClean`).

`WarmInv` says of a runtime that is not `torn` how far each lab is built and equipped at each place of
the process that provisions, whatever fails on the way (`BuiltOf`). That nobody else touches it is the
hard part, because others may have its names: a process that deploys found the slots free, so
its labs are nobody's who is past the deployment (`ClearOf`, `ElsewhereBuilt`), and a process that has not
begun to deploy has nothing to clean up (`BegunOf`); every other way of touching it makes it `torn`.

Assumptions: those of the module. Nothing is assumed of the names of labs, of crashes or of
lost answers.

The same module, about `WorkerReadiness`, for any devices, clients, addresses and limits:

| theorem | says |
|---|---|
| `WorkerTypeCorrect` | `WorkerSpec => []WorkerTypeOK`, with the limits of attempts and polls |
| `ReadyWorkersAreActivated` | ready means addresses, telemetry and agents of this bring-up |
| `AgentsStartOnConvergedNetwork` | no agent starts before every device was seen converged |
| `AgentsStartTogether` | `AgentsAllOrNone`: a failed start leaves only agents its cleanup reports, those of a shell that timed out and, when docker listed no container, those of before |
| `BringUpsAreTruthful` | the first of these and the last together, as the run checks them |

The argument. `WorkerInv` says how far each device must be for its activation to be where it
is (`Activated`), that a phase after the first is entered with all of them done (`Applied`),
that a device the health check has crossed off was seen converged and has flapped
if it is not any more (`Network`), and how far the start of each agent is in each phase
(`Agents`): who is not `scheduled` runs nothing, unless nobody is. Assumptions: those of the module.

`WorkerServiceProofs` (TLAPS), about `TrafficControl`, for any clients, flows, matrices, polls and losses:

| theorem | says |
|---|---|
| `MatricesNeverMix` | clients never send by the plans of two matrices |
| `StoppedIsSilent` | a stop that returns without an error has left no scheduler running |

The argument. A request that was given up may still be carried out, so the invariant
has to bound what can be under way: in the rounds that clear or stop, nothing but that
(`LateIsSilencing`), and otherwise only requests of the generation in use (`Generations`). A
client that is through with such a round runs nothing (`Silenced`), so when the plans of
the next generation are loaded every scheduler that may still start is of that generation
(`OneGeneration`). Flows come and go without a part in the argument. Assumptions: those of
the module.

The same module, about `Pingmesh`, for any targets, port batches, thresholds and sizes of queue
and batch:

| theorem | says |
|---|---|
| `PingInvHolds` | the inductive invariant `PingInv` holds |
| `LossesAreReal` | `LossIsReal`: every row counts as lost exactly the probes of its own cycle that were sent and had no reply |
| `SuspicionsAreConfirmed` | `SuspicionConfirmed`: a path is suspected only if more than `Confirm` large probes went unanswered on one batch of ports on which no small one did |
| `CoverageIsTrue` | `CoverageMeansProbes`: a complete window was probed from every port, one that passes the gate was answered, and one of the length the scenario waits for is complete if no tick was skipped and no probe failed on this host |
| `BaselinesHideOnlyTheirOwn` | `BaselineHidesOnlyItsOwn`: relative to a baseline that passes the gate everything unreachable is reported, loss is left out only as far as the baseline had it, and what lasts is called persistent |

The argument. All four speak of what rows say, and rows are written from counters, so the proof
follows a probe from its sequence number to the sums of the detector. `LogInv` says that
sequence numbers of a cycle are its own and that the pending probes are those sent and not
answered, so that an answer is counted for one probe and a late one for none. `BookInv` equates
each counter of the cycle with a number of probes of that kind in the log, `StepInv` adds that
from the draining on every scheduled probe was tried, and `RowsInv` that every row in the queue,
a batch or the database is truthful in this sense. `RowTruth` is the step from one to the other
when the cycle ends. For `CoverageIsTrue` windows also have to be complete: `TickInv` says which
tick was probed by which cycle, and `RotationCovers`, that as many cycles as there are port batches
visit every batch. What the detector computes are sums over sets of rows (`MapThenSumSet`,
recursive): instead of an induction principle, which the prover cannot instantiate, `UpTo`
takes the set of numbers for which a claim holds and its least counterexample, and
`SumsExist` and `TotalFacts` give the sums their laws. For `BaselinesHideOnlyTheirOwn`, `MaskedFacts` says
from the detector's thresholds what a path must have lost before to be left out now (`SameLoss`, `BelowThreshold`), and
`LargeOnlyHidden` the same of large packets. Assumptions: those of the module.

The same module, about `BgpTelemetry`, for any devices, sizes of spool and segments, and any
number of deaths of the collector:

| theorem | says |
|---|---|
| `BgpInvHolds` | the inductive invariant `BgpInv` of the spool and of what is stored holds |
| `UnreadLinesStay` | `UnreadLinesKept`: a line stays in the spool until Telegraf has stored it |
| `EventsAreTold` | `EventsTellTruth`: both ways of the query tell what the stored polls saw, in either scope and of either kind of collector, but for what the property names |

The argument. A segment may only be deleted if its marker says that all of it is stored. Markers
carry names, so names must not come back: `PendingInv` says that no poll under way has the time of
anything written, and `SealedInv` that a sealed segment bears the time of one of its batches,
which the active one has none of; hence the next name is new (`NextSegmentIs`), nothing is
overwritten, and the sequence number is always 0. A marker is the last line of its file, and
Telegraf reads in order, so a stored marker has its file stored (`SealedInv`). A collector that dies
between the marker and the renaming leaves a marker in the active segment, which Telegraf may
store: `ActiveInv` says that such a segment is full, so that the next batch seals it under
the same name, and `StoredInv` that it is stored as a whole then.

`EventsAreTold` rests on a second invariant, `HistoryInv`: polls of one device end in the order of
their times (`PollOrder`), rows say what was polled (`RowsTold`), and a sample's event is its step from
the sample before, which is what the tracker remembers (`Tells`), as long as no poll of the
device was lost. The query's fast way sees the first sample of the window, the last one before it
and the transitions, the reference every step from sample to sample; the steps left out are those
between equal states (`TransitionsTell`, `EventTypeSame`). Assumptions: those of the module.

`FaultProofs` (TLAPS), about `LinkFaults`, for any kinds of links, faults, rounds of flapping and
recoveries, and about `DeviceFaults`, for any set of kinds and any number of faults:

| theorem | says |
|---|---|
| `LinkInvHolds` | the inductive invariant `LinkInv` holds |
| `UntrackedIsClean` | `UntrackedMeansClean`: a link without a tracked fault is up with its routes, and a flapping thread is tracked |
| `DeviceInvHolds` | the inductive invariant `DeviceInv` holds |
| `UntrackedIsOriginal` | `UntrackedMeansOriginal`: a device without a tracked fault is as it was |
| `InjectedIsInEffect` | `InjectedInEffect`: what is reported as injected is in effect, or marked as a residual |

The argument, for links. The tracker's list is being replaced while a recovery runs, so `Tracked`
is what is still answered for: the list, or what is left of its copy and what could not
be recovered. `JobsInv` says who is in `_set_physical_link` and for what, `ThreadInv` that the flapping
thread belongs to such a fault. `UpInv` says that with nothing tracked an end is down only where
an injection under way will undo it or has noted that it could not, and `RoutesInv` that who
took a client's routes away still has them in its snapshots. The two threads interleave at
every command, which is where the parts need each other. For devices a handler is one step:
`Accounted` says that each kind of change has been undone or has a tracked fault of a kind that
undoes it (`Alike`), and the lemma for each group of handlers shows it of their injection,
compensation and recovery. `remove_faults` is a recursion over the list; `WithoutUnfolds` and `WithoutFacts`
give its laws, by way of `UpTo` again.

Assumptions: those of the modules; for links `NoAccessFlapping`, that no link_flapping is injected where the flap takes
a client's routes with it, without which the claim is false (the finding
`LinkFaults_access_flapping`); for devices `Prepared`, which excludes the switches `OwnRoute` and
`UnreadableMtu` for the kinds they concern (section 3), and a second MTU or policy fault on one device
before the first is recovered, which would save a faulty state as the original.

`SessionRunProofs` (TLAPS), for any number of calls, workers and scenarios, any directories and
any failures and crashes:

| theorem | says |
|---|---|
| `SessionInvariant` | the inductive invariant `SessionInv` holds |
| `RecordsAreTruthful` | `RecordsTruthful`: files tell the truth about runtimes, and a call that is over and wrote both files left two that agree with its answer |
| `WorkersInvariant` | the inductive invariant `WorkersInv` of the workers' lists, traces and rows |
| `RowsPointToTheirTraces` | `RowsOwnTrace`: a result row names the trace of its own diagnosis where there is one, and never that of another scenario |
| `ReportsInvariant`, `ReportsAccount` | `ReportAccounts`: a report of a dispatch that ended lists every scenario once, and is "completed" exactly if all of them were |
| `SessionTyped` | `Spec => []TypeOK` |

The argument. What a file says of a runtime stays true because of where the call that wrote it
is: `FileInv` says that nothing is called torn down or left behind before the call was done with
its runtime (`Labelled`), and that only a runtime of a call with `keep_runtime` is called
preserved; `RunInv` says what the runtime is at each place. That a call finds its own files, and no one
else's, is `DirInv`: the directory of a call is its own from the reservation on. `AgreeInv`
carries the status from one write to the next. A step is one call's, so the rest of the
invariant is kept for the others by `OneMoves`, `QuietSteps` (steps that write nothing) and
`WriteKeepsOthers`.

A row finds its trace by searching an index to which every worker appends, so `WorkersInv`
describes the lists: what a worker has listed is the beginning of its share, in turn
(`ListInv`), the trace of the scenario under way is the only one ahead of that list
(`AheadInv`), and each row has the trace found when it was added, which no later append
changes (`RowInv`). A worker that has returned has listed its whole share; the shares are a
partition of the suite, because they are the residues modulo `Size`, and that is what the count
in `ReportAccounts` needs (`AccountInv`). `CleanInv` carries a failed cleanup from a
worker's list to the status. Assumptions: those of the module, among them that a suite is a sequence
and that a call has at least one worker.

Only model-checked: liveness (`CallsReturn`, `CloseFreesRuntime`, `BothThreadsEnd`, `DispatchReturns`,
`RecoveryConverges`, `EventuallyGone`, `BringUpEnds`, and those of the configurations run by hand). The prover
handles neither fairness nor `ENABLED`.

## 6. Findings

The code does something else than a docstring, a message, a validation or a test says;
`PROJECT.json` quotes both sides. Each is a configuration run by hand (section 4).

* **A full spool stays full** (`Bgp_full`). The collector deletes ingested segments only
  after the round's batches were written. When the spool is at its limit the first write
  raises `BufferError`, the deletion is skipped, and so it is in every later round,
  although Telegraf has stored every line.
* **Teardown after a refused deployment destroys the lab that was there**
  (`RuntimeLifecycle_foreign_lab`). `assert_worker_slot_available` refuses the deployment, but
  the stage has a result then, and `teardown` removes the labs of the runtime by name.
* **stop_traffic leaves a client sending** (`TrafficControl_leak`). A start that failed and
  whose undo was lost for one client leaves no active matrix; `stop_all` disables nobody.
* **A tool call can shorten a session's lease** (`LeasePool_long_session`). `open_session`
  accepts its own configuration and refreshes the lease for its `max_agent_seconds`,
  but each tool call refreshes again without it and *replaces* the deadline by the
  pool's own TTL. With a session configured for longer than the pool was validated
  for, the runtime can be reaped under an agent that is within its limit.
* **close does not wait for a running tool** (`Incident_tool_in_flight`). They use
  different locks, so a tool may still execute when its runtime has been released and
  leased to another incident.
* **The residual of a failed link_flapping lacks its route snapshots**
  (`LinkFaults_access_flapping`), so its recovery is reported although the client's routes
  are lost.
* **A close that overlaps a create forgets the pool** (`SimulatorService_forgotten_pool`).
  `SimulatorManager.close` drains the pool, then drops it; a create that got its engine
  before may provision into it in between, and a later close no longer knows of it.
* **An exception of one worker loses the quarantine** (`ScenarioDispatch_lost_quarantine`).
  A result that cannot be written, an evaluator that raises or traffic that cannot be
  stopped ends the dispatch before the failed cleanups are looked at. The runtime stays
  warm with the fault on it, and the next dispatch takes it with an empty tracker.

## 7. Not modelled

Components without a module are listed with their reason in `PROJECT.json`
("components"): topology generation and the scenario generator (pure construction), the
evaluator (a pure score over finished results), CLI, SDK facade and agents (delegation and presentation). None of them
keeps state that another one reads while it changes; a model would repeat the code.
Of the modelled components the parts named in section 3 are left out, and of the reports the
contents of trajectories, their export and the printed form. The contents of observations,
diagnoses and health messages are left out: no property depends on them.
