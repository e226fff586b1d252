# Scala: TLA+ models, checks and proofs

Scala is a local inference server. It acquires models and runtimes, starts one native backend process per
Model Profile, routes OpenAI-style requests to it or to a linked machine, benchmarks it, and is operated
from a CLI and a terminal UI. This directory models the parts where several tasks or processes share
state, where something can be cut off half-way, or where a stream is translated piece by piece.

| File | What it is |
|---|---|
| `DownloadManager.tla` | model downloads: job table, scheduler, attempt tasks, partial files, acquisition locks |
| `Supervisor.tla`, `RuntimeManager.tla` | process table; backend table and every task that changes it |
| `RuntimeStore.tla` | installed runtimes on disk: install, remove, select, pin, load, clean, prune, killed anywhere |
| `Benchmark.tla`, `BenchmarkHistory.tla` | the benchmark service in detail; what its history promises |
| `Link.tla` | federation: observing peers, resolving an alias, forwarding an operation over a connection |
| `Stream.tla` | a streamed answer from a backend's frames through decoder, lease and public encoder to the client |
| `Ownership.tla` | processes of one installation: sessions, servers and their records, the waiting client, update, prune |
| `ProfileStore.tla` | the stored Model Profiles under overlapping edits from the terminal UI and the CLI |
| `MC*.tla`, `*.cfg` | instances for TLC |
| `DownloadManagerProofs.tla`, `RuntimeManagerProofs.tla`, `RuntimeStoreProofs.tla`, `BenchmarkProofs.tla`, `LinkProofs.tla`, `StreamProofs.tla`, `OwnershipProofs.tla`, `ProfileStoreProofs.tla` | theorems, for every value of the constants |
| `PROJECT.json` | components, runs, the map from definitions to source lines, mutants, hazards, theorems |

Run a check with `tlc -config MCBackends.cfg MCRuntimeManager`, the proofs with
`tlapm RuntimeManagerProofs.tla`.

## Inventory

Paths are below `src/crates/`. *State* is what the component keeps between operations.

**Download manager** (`scala-model-library/src/download_manager.rs`, `lib.rs`) - `DownloadManager`.
State: job records, FIFO queue, set of active slots, parallel limit, bounded history; on disk partial
files, stages and installed acquisitions; one file lock per acquisition. Operations: admit, pause,
resume, cancel, progress updates, end of an attempt, acknowledgement of a clean-up, change of the limit,
removal of a model. Each attempt and each deletion is its own tokio task. Hard: a stopped attempt ends
later than the request that stopped it, by which time the job may have been resumed, cancelled or
pruned; two references can name one package. Correct when a job has one attempt at a time, the queue is
served, and deletions do not meet somebody else's transfer.

**Runtime manager** (`scala-engine/src/manager.rs`) - `RuntimeManager`. State: one entry per profile
(lifecycle, generation, processes, runtime lease, cancellation flag, activity counter), sessions with
their primary, `next_generation`, the operation mutex, the shutdown flag. Operations: manual load,
inference request (fast path, or admission with eviction, reclaim, JIT load), Decision request, unload,
idle reaping, shutdown, exit monitoring, profile edits. Hard: callers are futures that can be dropped at
every await; drains and loads take minutes while other tasks change the table; cancellations race with
commits; guards run in spawned tasks after the fact. Correct when a load never acts on another load's
entry, no process is terminated below a request, a cancelled load does not come up, nothing is left
behind by a disconnect or a shutdown, and everything that was begun ends.

**Process supervisor** (`scala-engine/src/supervisor.rs`) - `Supervisor`. State: tracked processes, one
actor per child with a termination channel and a published exit. Operations: spawn, terminate, shutdown.
Hard: terminate can time out or find that the entry was pruned.

**Runtime store, packs, installer, prune** (`scala-engine/src/store.rs`, `packs.rs`, `installer.rs`,
`prune.rs`, `scala-core/src/prune.rs`) - `RuntimeStore`. State: directories with manifest and pending
marker, the persisted selection, profile pins, the store transaction, shared and exclusive runtime
leases, installation leases, the Python acquisition lock, package helpers that inherit it. Hard: only
advisory locks between processes; a kill between any two steps; helpers that outlive their parent;
checks made before a lock is taken. Correct when nothing in use disappears, a runtime appears only
whole, one process works in the Python caches, and nobody waits in a circle.

**Benchmark service** (`scala-engine/src/benchmark/`) - `Benchmark`. State: the `.owner` claim, active
checkpoints, terminal records, summaries, the reservation, quarantine; store operations on blocking
threads that outlive their caller. Hard: the reservation against requests, loads, unloads and the
reaper; timed-out requests that may yet arrive; a second server that recovers a live run; crashes
between record, summary and checkpoint. Correct when a measurement is undisturbed and the history never
changes a conclusion.

**Link and Wayfinder** (`scala-api/src/link.rs`, `wayfinder.rs`, `scala-engine/src/link.rs`) - `Link`.
State: peers with their last inventory and how it was obtained, slots, one connection per operation.
Hard: an answer may be lost after the owner acted; connections break anywhere; inventories are stale;
membership changes. Correct when an operation runs at most once and where it was addressed, a success
was one, a name does not move to another host unnoticed, and both ends let go.

**Public API and adapters** (`scala-api/src/`, `scala-engine-llama-cpp`, `-q27`, `-ninfer`, `-vllm`) -
`Stream` for streaming. State: a decoder per adapter (partial lines, tool calls, reasoning filter,
constraint checks), the lease, an encoder per public format. Hard: frames cut at any place, markers
split over chunks, endings without their conditions, a client that leaves. Correct when what is announced
as completed is what the backend said and completed, the stream ends once, and the ending arrives.

**Sessions, server records, update** (`scala/src/main.rs`, `composition.rs`, `update.rs`,
`scala-core/src/runtime.rs`, `scala-update/src/lib.rs`, `scala-engine/src/control.rs`) - `Ownership`.
State: lock files of executable, receipt, prefix, storage, server start and `.owner`; server records with
their failure evidence; executable and receipt. Hard: records survive crashes, live servers miss probes,
ports are reused, the executable has hard links, decisions are made before locks are taken. Correct when
one server answers for a state directory, an executable is replaced alone and never downgraded, the
blocking load tells the truth, and starts end.

**Terminal UI** (`scala-tui/src/app.rs`, `lib.rs`, `federation.rs`) - its edits of profiles in
`ProfileStore`. State: the last status, remote rows, profiles and jobs it was told of, and one task per lane
(settings, runtime, control, linked operation, downloads, removal). Hard: what a task read is used later,
and results are applied in the order they come. Correct when no edit acts on something else than what it
was checked against.

**Model Profiles** (`scala-core/src/model_profile.rs`, `scala-engine/src/packs.rs`,
`packs/profile_runtime.rs`, `scala-tui/src/lib.rs`, `scala/src/main.rs`) - `ProfileStore`. State: the
profiles file, what the terminal UI shows of it, the edit in each of its two lanes and on the command line,
the engine change under review. Hard: the file lock covers the last update only; what was checked before
it was checked on another read. Correct when edits do not undo each other unseen and a pin keeps fitting.

**Not modelled**: see the last section. The server's settings, keys and configuration; application state and model
discovery; engine contract types; start at login; provenance and runtime identity data.

### How the parts interact

The API and the CLI call the runtime manager; the manager asks the packs for a runtime, takes a lease in
the store, spawns and terminates through the supervisor, and hands requests an `InferenceLease` on the
activity counter of one generation. Exits come back through a monitor task per process. A benchmark closes
the manager's admissions and drives a load of its own. Link forwards to another node's manager what the
local one does not own. `RuntimeManager` extends `Supervisor`; `Benchmark` composes the run, the store of
records, a reduced manager and its gate; `RuntimeStore` composes packs, installer, prune and the manager's
leases; `ProfileStore` composes three editors of one file; `Ownership` composes the processes around one
manager's load table; `Stream` composes decoder, lease and encoder.

## DownloadManager

| Variable | Code |
|---|---|
| `maximum_parallel`, `jobs`, `order`, `queue`, `active` | fields of `State` behind the manager's mutex |
| `issued` | identifiers handed out so far |
| `worker` | the attempt task of each generation of a job: where it is, its stop signal, its acquisition |
| `lock` | holder of each acquisition's file lock |
| `part`, `installed` | partial files and installed acquisitions on disk |
| `tidy`, `cleanup` | pending deletion tasks of installed and of cancelled jobs |

Each method of `DownloadManager` is one action, since it runs under one mutex, and ends like the method
with the same pruning (`prune_locked`) and filling of slots (`schedule_locked`). An attempt goes through
resolve, lock, transfer, verify, validate and install; it can fail at each, and it ends when the biased
select sees its stop signal. A rename that the blocking pool has begun by then goes on in the code after the
lock is dropped; `AttemptStops` has both in one step, so what another attempt might do between them is left out.
Bytes, rates and messages are left out; so is the synchronous CLI download.

## RuntimeManager and Supervisor

| Variable | Code |
|---|---|
| `process` (Supervisor) | status of each child, whether it is tracked and was told to terminate |
| `version` | the saved profile's content hash |
| `backend`, `session`, `next_generation` | `ManagerState` |
| `operation` | holder of the operation mutex |
| `retirement` | the task detached by `stop_backend_with_operation_held` |
| `task` | program counter and locals of each caller (loaders, requests, reaper, shutdown) |
| `todo`, `snapshot`, `uncancelled` | the lists a holder of the lock, or shutdown, works through |
| `job` | spawned tasks: unloads, dropped JIT admissions, cancelled Decisions |
| `cancelled` | generations whose Decision was cancelled |
| `monitor` | exit monitors |
| `shutting_down` | the flag |

The `state` lock is never held across an await that matters, so an action is one critical section of it,
and everything between two of them interleaves. The operation mutex is held across awaits and is a
variable. A caller whose future may be dropped is in `Droppable`; `DropRequest`, `DropOperation` and
`DropLoader` drop it at any await, with what its guards do. A stop that has begun continues in
`retirement` and takes the mutex along. `cancellation_epoch` is advanced by shutdown only, after the
flag, so both are `shutting_down`. The clock is a free choice: any session may expire, any idle JIT
backend may be beyond its time or in excess. A load may fail wherever the code has an error return. The
benchmark gate is in `Benchmark`; it only removes behaviours of the other tasks.

## RuntimeStore

| Variable | Code |
|---|---|
| `dir` | the directory at an identity path: manifest, pending marker, content (`scan_blocking`, `find_removal_runtime_blocking` and recovery tell seven cases apart) |
| `selection`, `pin` | the persisted format selection; a profile's exact runtime |
| `session` | `StorageLease`, shared by sessions, exclusive for prune |
| `op`, `load` | the mutation under a process's operation mutex; the runtime its backend uses |
| `txn`, `excl`, `shared`, `inst` | `runtime-store.lock`, runtime leases in both modes, installation leases |
| `inode`, `cache`, `helpers` | the acquisition lock by file, not by name; children that inherited it |

`Install...` follows an acquisition from the lease through staging (private for archives and source
builds, in place and marked for Python), provisioning, both activations and every clean-up; `Remove...`,
`Select...`, `Pin...`, `Load...`, `Clean...` and `Prune...` follow their operations lock by lock. `Crash`
drops what a process holds in memory and its locks, not those a helper inherited (`OrphanExits` ends it).
What compilers, package tools and archives do is a nondeterministic result.

## Benchmark and BenchmarkHistory

| Variable | Code |
|---|---|
| `active`, `terminal`, `summary` | the three files of a run |
| `jobs` | `Store` operations in `spawn_blocking`: they go on after their caller is cancelled |
| `owner`, `server` | the `.owner` lock; how far each process is |
| `used`, `run` | identities handed out; the run with the reservation, its deadlines and requests |
| `pc`, `stopper`, `operation`, `packs`, `load`, `backend` | the manager's other users and what they hold |
| `orphan`, `quarantined` | a request the run gave up, as the backend sees it; the server's quarantine |

`BenchmarkHistory` has, per run, a phase and a record, and six actions. `History` in `Benchmark` maps the
phase to `used` and `run`, the record to the terminal file or else the checkpoint; `KeepsHistory` is the
refinement: every step of the store, of recovery and of the run is a step of the promise or a stutter.

## Link

| Variable | Code |
|---|---|
| `hosts` | what a node's own stores say of each profile |
| `members`, `ident` | the chain in Wayfinder; whether a node knows its own identifier |
| `peers`, `probe` | last observation of each peer; the running sweep's requests |
| `call` | both ends of an operation: caller, owner, what is on the wire |
| `ran`, `answer` | where the operation was executed; what its client was told |

Wayfinder is external: an ordered byte connection that may be cut at any point (`Cut`) and then closes
both sockets. `Sweep...`, `Probe...` and `Ages` observe; `Infer` and `Control` resolve and call; `Opened`,
`Write`, `ReadHead`, `ReadEnd` and their failures are the caller, `Accept`, `Dispatch`, `WriteHead`, `Generated`,
`WriteEnd`, `GivesUp`, `HangsUp` the owner; `Edit`, `Join`, `Depart`, `Restart` surround them.

## Stream

| Variable | Code |
|---|---|
| `request`, `sent` | adapter, public format, structured output, reasoning; the backend's frames so far |
| `dec`, `checked` | the adapter's decoder with its queue; the text seen by the structured-output check |
| `lease` | `InferenceLease`, released when the ending passes the manager |
| `pub`, `client`, `got` | the public encoder; how far the client is; what it has read |

`Receive` is one read of one or several frames. The decoders and encoders are operators over sequences;
text is a sequence over a few letters, so that markers and braces can be cut anywhere. Reasoning filter,
tool-call tracking and the checks of an ending are translated step by step; JSON escaping is not. Between the
finish chunk and [DONE], Chat and Completions send a usage chunk if `stream_options.include_usage` asked for it
and the backend stated one (`Succeeding`); whether it was stated is kept, its numbers are not. vLLM's text
deltas are forwarded even when empty (`Passes`), the other adapters' are not.

## Ownership

| Variable | Code |
|---|---|
| `proc` | the command of a process, how far it is, its ports, what it observed, its load entry or what it waits for |
| `held` | file locks with their mode, gone when the process is |
| `file`, `receipt` | the version of the executable at each hard link; the version in the receipt |
| `record` | server records (`runtime/servers/*.json`) |
| `started` | the start lock's file exists, which decides whether prune takes it |
| `next` | instances so far |

A command takes its locks one at a time and gives up at the first that is not granted; only the start
lock is retried until a deadline. `Observe` probes, `Conclude` applies what was seen later: it clears stale
records and decides. How many failures over how much time make a record stale is left open, so any
failed probe may be the one that removes it; this has every removal of the code. `Manage` is the rest of
the manager as a client sees it. The installer is a program of its own and `Replace` its whole run: one killed
after it changed the executable and before it wrote the receipt is not represented. The receipt then names the
older release, an update approved before by a process of that release still passes its check, and
`NeverDowngrades` says nothing of what it installs.

## ProfileStore

| Variable | Code |
|---|---|
| `profiles` | the profiles file |
| `shown` | `model_profiles` on the screen |
| `task` | the edit in the settings lane, in the runtime lane and on the command line: what it was called with, what it read (`base`) and computed (`keep`) |
| `review` | the engine change on the screen, with the overrides each engine would keep |
| `edits` | edits begun, bounded |

`Check...` is everything an edit does before it takes the store's lock, `Commit...` the update under it;
edits without a check are one action. Hash comparisons are comparisons of the contents. Which runtimes
serve a model and accept a setting is a constant relation, of which the assumption says only that a
runtime belongs to one engine and serves what its engine may serve. `Fails` stands for every error return.

## Runs

All bounds are constants named in the modules.

| Run | Instance | Shows |
|---|---|---|
| `downloads` | 2 jobs, a moving and a fixed reference, 2 acquisitions, limit 0 or 2, history 1, 2 attempts each | the queue is served, one attempt per job, exclusive clean-up and staging |
| `download_live` | 2 jobs, one slot, one reference that never resolves, 2 attempts, 2 files | a queued job is served; a waiting resume and a clean-up end |
| `backends` | 1 profile, 1 loader, 1 request, text or Decision, both droppable, edits, reaper, shutdown, timeouts, 2 generations, 2 processes (2.6 million states) | loads own their entry, drain before terminate, clean shutdown and owned processes but for the two disconnects listed below, guards spare later loads |
| `sharing` | 2 profiles, 2 sessions, 2 requests, reaper | reclaims and evictions spare what a session uses |
| `runtime_live` | a droppable request, unload, reaper, shutdown, 2 generations, 1 process | unloads and shutdown end |
| `loads_live` | a manual load, a droppable request, unload, crash, timeouts, 2 generations, 1 process (0.1 million) | entries settle when loads fail, crash, lose their request or are unloaded; cancelled loads never run |
| `store` | 2 processes, a release and a Python runtime, one prune of the caches, kills anywhere (1.9 million states) | what is in use stays installed, one user of the caches, no lock cycle, pins name installed runtimes, runtimes appear whole |
| `benchmark` | 2 possible servers, 1 run of a warm-up and a task, 1 client, reaper (0.6 million) | exclusive reservation, sound measurement, summary follows record, the history's promise |
| `link` | a gateway that may own the profile, a peer, 1 operation, 2 slots (0.4 million) | runs once where addressed, true answers, no silent change of target, both ends let go |
| `stream` | 8 pairs of adapter and public format, 5 frames, reads of 1 or 2 (1.3 million) | completed answers are faithful, one ending, ordered items, the ending arrives |
| `ownership` | 2 processes at a time in 8 roles, 2 hard links, 2 state directories, 2 releases, 2 server instances, 2 generations (0.4 million) | one server answers, lonely and monotone replacement, true loads, starts end |
| `profiles` | 2 names, 2 models, 2 engines, 3 runtimes, 2 values of a setting, 3 edits (0.9 million) | pins fit, no override is lost unseen |

*Why the bounds are enough.* Stale references in this code are to a generation, an attempt, an instance or a
version, and the code only compares them for equality (versions for order); two of each, one stale and one
current, make the comparisons come out both ways. In `RuntimeManager`, two callers, a load
and a request or two requests, are the least that contend for a lock while a third party (unload, reaper, guard,
shutdown) acts, and every caller may come again; in `runtime_live` and `loads_live` the second generation finds no
process to spawn and fails, which the code may do at that point anyway. A history of one record and two jobs
make the pruning happen; the limit 0 exercises the clamp to one. In `store` two processes suffice because
every lock excludes in pairs, and a kill in each role meets every step of the other. A benchmark has one run at
a time, and the second server is there to recover or to be refused. One Link operation has two ends and shares
the slots with a sweep; profiles do not interact but by name, and one name with two owners is the ambiguous
case. Five frames hold a marker cut twice, text around it, a finish and an end; two tool calls interleave. In
`ownership` two processes race for each lock, and one that was killed and started anew is the third party. In
`ProfileStore` an edit's check and commit are separated by at most what the two other editors do, so three
edits, one in each lane or two in a row in one, meet every pair of check and commit; the three runtimes differ
in engine, model and schema.

*Symmetry* is used only in runs without liveness: jobs, requests, servers, and profiles and sessions in
`sharing`, are interchangeable because Init, Next and the checked formulas quantify over the whole set and never
choose a member.

*Deadlock* is checked in `link`, `stream` and `ownership`. The other systems may come to rest when all jobs are
settled, identifiers, generations, prunes and edits are used up, or shutdown is done.

Every property of a passing run has a mutant, an operator `MUT_...` beside the definition it replaces,
that TLC must catch under the same configuration.

### Fairness

*DownloadManager, RuntimeManager.* Weak fairness for every spawned task and every caller that is not
dropped: tokio polls what is ready. Waiting for the operation mutex gets strong fairness, since
`tokio::sync::Mutex` queues its waiters; a request, an unload and shutdown that wait therefore get it
although others take it in between. Children that were told to terminate exit, because the actor kills
them after the grace period. Requests end and a resolution is answered, by a result or an error. Nothing
is assumed of users, crashes, the reaper's timer or disconnects.

*Link.* Weak fairness for the caller of an operation and for the owner's reaction to a closed socket:
every wait of the caller has a deadline, and a closed socket wakes its reader. Nothing is assumed of
Wayfinder, of the peer or of generation.

*Stream.* Weak fairness for taking a decoded event, delivering an encoded one and ending the body.
Nothing is assumed of the backend.

*Ownership.* Weak fairness for a process's own next step and for the two deadlines it waits with, the
start lock's and readiness. Granting the start lock is not assumed, nor that a probe succeeds.

`RuntimeStore`, `Benchmark` and `ProfileStore` are checked for safety only.

### Disagreements met while modelling

Where the code departs from what its documents or comments say. The model takes the step where it covers
the code; none has a run of its own.

* A JIT caller that goes away between `supervisor.spawn` and the registration of the process
  (`manager.rs:1726`) leaves a live process that no entry names; its guard terminates only what the entry
  names, although line 1740 says that even a cancelled process is registered until its termination.
  `ProcessHasOwner` excepts exactly this step (`Forsaken`), which `backends` reaches.
* `docs/python-engines.md:251` takes the compatibility of an engine from the bound artifact. The review
  (`scala-tui/src/lib.rs:1314`) takes the artifact the screen showed when the key was pressed and the
  profile as it is by then, and does not compare the two: when a command has bound another artifact in
  between, an engine may be confirmed that cannot serve it. `ProfileStore` has the steps; `PinFits` is about
  the pinned runtime, which an engine change removes.
* `README.md:739` of the repository has the console poll fast while a model loads and return to its slow
  cadence afterwards. The watch channel keeps `Accepted` after the load (`scala-tui/src/lib.rs:192`): once
  that backend is gone no status matches it and the idle console polls every 200 ms until the next
  operation; while it is resident, another profile's load is polled slowly.
* `README.md:302` of the repository has a removal refused while an affected model is active; the status is
  asked once (`scala-tui/src/lib.rs:626`), and a load admitted between that and the deletion loses its files.
* A caller of `start_load_with_settings` that goes away during the status snapshot between the reservation
  and the spawn of the load task leaves an entry that stays Loading until it is unloaded
  (`manager.rs:1262`); the method's doc (line 1168) says the load remains owned by the manager.
  `DropLoader` has the step, which `backends` reaches, and `ShutdownClean` excepts its entry (`Abandoned`).
* The partial files of an installed job are deleted without the acquisition lock (`TidyPartial`), although
  `docs/architecture.md:134` describes the lock as covering them; a model removed and requested again in
  between loses the new attempt's file.
* A failed backend keeps its process for a later clean-up (`manager.rs:2775`), but the next spawn of any
  backend prunes an exited process from the supervisor, after which every terminate finds it untracked.
* `docs/benchmarks.md:365` describes the reservation as exclusive; the stop task of an unload whose caller
  left may still be under way when a run is admitted.
* `prune --all` deletes a runtime that a profile is pinned to and leaves the pin; prune also deletes the
  Python acquisition lock's file while an orphaned helper may hold the lock on it, so the next acquisition
  locks another file. `PinIsInstalled` and `OneCacheUser` except exactly these.
* A model refresh that joins a scan already running returns without what was installed after that scan
  read the directory (`scala-core/src/state.rs:184`).

## Proofs

The proof modules prove safety for any finite or infinite sets of jobs, references, profiles, sessions,
callers, processes, runtimes, runs, nodes and files, and for any bounds. The assumptions are the ones named
beside the constants of each module, and TLC evaluates them in every run. They say that bounds are naturals,
that names of different kinds are different, and that constant tables have the type their use in the code
gives them; `Link` adds that a network has finitely many nodes, `Stream` that the indexes of tool calls are
finitely many numbers (`u32` in the code) and what a decoded frame is (`FrameAssumption`: only a delta says
anything, perhaps an empty text, and the tool calls of one server-sent event are as many frames). One theorem
has a hypothesis of its own (`SuccessIsWhole`, below).

Most properties are not inductive. Each module therefore states an inductive invariant, the conjunction of what
each piece of state and each point of each operation promises, and proves one lemma per action; TLC checked these
invariants, where it can evaluate them, on the instances of the runs before they were proved. The type invariants
are part of them.

**DownloadManager.** `AttemptsAreCurrent` (`OneAttempt`) and `CleanupMeetsNoAttempt`
(`CleanupExclusive`). Neither is inductive. `IndInv` adds that a working attempt's job is not settled,
that a cancelled job is pending exactly as long as its control is set, that two unsettled jobs have
different references, and that an identifier not yet issued has an empty record. It is stated over a job
table and a task table rather than over the variables, so that the lemmas about starting and pruning
apply to the intermediate tables that `schedule_locked` is given; every operation is then its own change
followed by these lemmas. `StagesAlone`
(`ExclusiveStaging`) rests on `StagingInv`: whoever waits for or has an acquisition's lock knows which
acquisition it is, and whoever stages has the lock. An attempt that had to wait looks again, so what it stages
was not installed in between; the one step that installs is a staging step, and so the lock holder's.
`NoSlotIsWasted` (`QueueIsServed`) rests on `QueueInv`: the queue is the `Queued` jobs, each once
(`WaitingInv`), and none waits while a slot is free (`SlotsInv`). What `retain` leaves of a queue (`Retaining`, a
recursion over its entries) and what starting pops of it are lemmas, proved by induction over the natural
numbers; `schedule_locked` is then shown to restore both parts from any queue that an operation leaves it.

**RuntimeManager.** `LoadsOwnTheirEntry` (`LoadOwnsGeneration`), `ReclaimsSpareSessions`
(`ReclaimSparesSessions`) and `CancelledLoadsNeverRun` (`CancelledNeverRuns`). All three rest on the
discipline of the operation lock, `LockInv`: a task at a point where the code holds the guard is the
holder; a retirement that is under way is either the holder itself or its caller is waiting for it; a
load in progress finds its generation in its entry, Loading or Stopping; what a holder still has to stop
is JIT and no session's primary. Two lemmas carry the argument: a step of the holder leaves the claims of
all other tasks alone because none of them is at a holding point (`HolderSound`), and a step of a task
that does not hold the lock may change entries only in ways the holder's claims tolerate
(`OutsideSound`). Then there is one lemma per action. `CancelledNeverRuns` is an action property: the
only step that sets Running is the commit, whose guard wants Loading.

**RuntimeManager, stops** (the second part of the module). `StopsDrainFirst` (`DrainBeforeTerminate`),
`GuardsSpareLaterLoads` (`GuardSparesLaterLoads`), `ProcessesAreOwned` (`ProcessHasOwner`) and
`ShutdownLeavesNothing` (`ShutdownClean`); any caller may disconnect at any await in all of them.
A process is told to terminate at five places and each has a reason of its own why no request is on it:
a retirement has drained its generation; a load kills its own process before it was ever Running; a task
of an unload or guard, and shutdown, kill a process whose entry they found Loading and made Stopping, so that
its commit is refused; the supervisor's shutdown comes when every backend that served has been stopped.
`CoreInv` says what each of them knows while it waits, on top of `LockInv`. `CloserInv` adds what shutdown
knows as it works through its lists: from the flag on, no entry becomes Running any more.
`GuardsSpareLaterLoads` (an action property) is about the tasks that request guards spawn: `GuardInv`, a guard
that may still cancel a load names a generation, because zero would mean whatever is loading; it holds since a
guard is created from a load that owns its entry.

`ProcessesAreOwned` is an action property too, since an owner once lost stays lost. `KeptInv` says that a process
a load carries is in its entry from the registration on; then each process is followed to where a step leaves it
(`KeptComes`, `OneLoad`, `LoadsMoveThemselves`, `KeptKept`), and only `Forsaken` leaves it nowhere (`OwnerKept`).
`ShutdownLeavesNothing` rests on `LoadingInv`: an entry that is Loading is driven by a load in progress, or it is
`Abandoned`, waiting for the guard of the request that left or without a load because its caller left before the
hand-over (`Driven`). Where no request may disconnect, every process therefore keeps its owner, and where no
caller may, nothing is Loading when shutdown has returned: both exceptions name a droppable caller.

**RuntimeStore.** `InUse` (`InUseIsInstalled`), `OneUser` (`OneCacheUser`), `PinKept` (`PinIsInstalled`) and
`WholeOrNot` (`AppearsWhole`), with a kill possible between any two steps. The argument is one of rely and
guarantee: for each point of each operation, `Holds` and `Knows` say which locks its process has and what it
has seen that is still so; `Guarantee` is what a step of one process leaves to the others, and `Rely` the
lemma that it suffices. The key facts: a runtime disappears only by a process that has the store transaction
and its exclusive lease, and appears only by the holder of its installation lease; a process that serves keeps
a shared lease from before its last look; the selection is written only in the transaction that looked; and
the acquisition lock is held on a file and not on a name, so that who works in the caches is the process that
locked the present file or a helper that inherited it.

**Benchmark.** `RunsAlone` (`ReservationExclusive`), `MeasuresSoundly` (`SoundMeasurement`), `SummaryIsTrue`
(`SummaryFollowsRecord`) and the refinement `HistoryIsKept` (`KeepsHistory`). On the store's side, `StoreInv`:
at most one job is past the directory lock and what it found there stays so until it lets go; a job that
writes a final record is of a run that has stopped working, because the run submits it from its clean-up, and
because a run's identity is used once; recovery exists only while its owner does not serve yet (`ServerInv`),
so the runs it concludes are over. In memory, `OperationInv`: the load that is under way holds the operation
mutex, a drain too and never both, and while the start of a run holds both mutexes and the gate nobody is
admitted; `BackendInv` and `RequestInv` follow the run's own load to its end and a request from its
submission until it is known to be gone, or the server is quarantined. For the refinement every step of a run
is classified by what it does to the run's phase (`RunMoves`), every step of a job by what it does to the
record (`RecordStep`); no step does both.

**Link.** `RunsOnce` (`RunsOnceWhereAddressed`), `AnswersTrue` (`AnswersAreTrue`) and `NameReserved`
(`NoSilentRetarget`). `CallsInv` relates the two ends of each operation: the envelope is on the wire only
after the caller is past its opening, the owner works only on an envelope, leaves that point when it runs the
operation, and writes its head and end afterwards; what the caller reads was written. The name of a profile
is reserved by the last observation of every peer, which the resolution of an operation consults.

**Stream.** `EndingIsUnique` (`EndsOnce`), `ItemsAreInOrder` (`ItemsAreOrdered`) and `SuccessIsWhole`
(`CompletedIsFaithful`, except in q27's raw completions), for any engines, frames, characters, cuts into reads and
indexes of calls. The first assumes nothing of what a decoder makes of the frames: `EndInv` says that what the
client has read together with what is queued for it has no ending while the encoder is not terminal, and when it
is, exactly one with at most a usage that was asked for and [DONE] behind it. Each encoder is shown to answer any
event with one or the other (`ResponsesSound`, `ChatSound`, `CompletionsSound`), and the events that release the
lease make it terminal.

The other two rest on `Chain`. No variable keeps the events that went from the decoder to the encoder, so the
invariant says that some history `h` of them exists for which both sides kept their promise. `Decoded`: a
decoder that runs has passed on or queued exactly the text, the tool-call deltas and the reason of the frames;
one that failed, a first part of them and its error; one that completed, all of them, after the checks its end
asks for. `Passed`: what is read or queued for the client says `h` (`Speaks`), or says it and reports no success
(`Apologised`), or is a whole success (`Succeeded`), and its items are in order as long as headers come first.
Each stage of each decoder and each encoder is shown to keep its half (`FrameDecodes`, `EncodePasses`), and the
client's events follow from the two (`SuccessIsFaithful`, `ItemsOrdered`). The recursion in these operators, over the
frames of a read (`DecodeAll`) and the concatenations (`FlattenSeq`), is followed with `SetInduction`: a set of
numbers with 0 that is closed under the successor is `Nat`, from the library's theorem that the naturals are
well-founded, which takes no operator as a parameter.

**Ownership.** `Serving` (`ServesItself`), `Replacing` (`ReplacedAlone`), `Upgrades` (`NeverDowngrades`) and
`Loading` (`LoadedIsTrue`). `ProcInv` has for each point of a process its shape, the locks it holds and what it
knows; `Rely`, `Sound`, `Local` and `Onward` reduce each step to the process that makes it. What is exclusive with
what follows from the order in which each command takes its locks. `ReplacedAlone` speaks of the processes that
share the executable, a hard link of it or its storage: a prune of another state directory takes no lock of the
executable and may run beside an update, and so may short commands that take no lock at all (`doctor`, `update
--check`, an attempt to start at login), which are not modelled. `NeverDowngrades` holds since the second look at
the receipt happens under the receipt's lock, which is kept until the file is replaced. `LoadedIsTrue` rests on
the generation that the waiting client compares at each poll, and on the server: a request goes with the control
token of the record it was discovered by, and another server refuses it. In the model that is a comparison of
instances, which has the same effect.

**ProfileStore.** `PinsFit` (`PinFits`) and `OverridesKept` (`NoLostOverride`). `TaskInv`: the new model or pin of
a task that is ready fits the profile it has read (`base`), and each such commit compares the stored profile with
that one. Every step that removes an override is then one of the few that may (`StepRemoves`). An engine change in
the terminal UI removes what its review showed; `--confirm` on the command line computes the review again, from
the profile that it then reads, so what it drops need not be what an earlier call without it listed.

*Only model-checked:*

* Liveness under fairness (`QueuedIsServed`, `StopsAreCompleted`, `UnloadEnds`, `BackendSettles`,
  `ShutdownEnds`, `StreamsEnd`, `EndReachesClient`, `StartupEnds`): the prover has no rule for it. `NoLockCycle`
  speaks of what processes wait for, in terms of `ENABLED`, which it cannot reason about either.
* `CompletedIsFaithful` in q27's raw completions: that the filter, fed in pieces, lets through the public part
  of the whole text (`Public`) depends on where markers may overlap, which is not attempted for arbitrary
  markers. What the other properties say of these streams, `EndsOnce` among them, is proved.

## Not modelled

* *Settings, keys, configuration* (`scala-core/src/settings.rs`, `auth.rs`, `config.rs`): files rewritten
  whole under one lock, and a resolver that is a function of its layers. The edits of profiles that others
  react to are also actions of `RuntimeManager` (EditProfile) and `RuntimeStore` (pins).
* *Application state and model discovery, package formats, provenance, engine contract, media,
  embeddings, decisions*: computations over file contents or one request.
* *Adapters* beyond streaming, *request translation*, *catalogs*: flags, probes, launch arguments, JSON
  bodies, rankings. *Benchmark* workloads, scoring and reports. *Installer* back ends: compilers, package
  tools and archives are one nondeterministic step each.
* *Terminal UI*: rendering, navigation, text input, notices, the status observer, the lanes of loads, linked
  nodes and removals, and what the screens keep beside the edits they send: it is all one process's view,
  and the server checks what it is sent. An inspection of a profile reads and is dropped when the selection
  has moved on; it is `Refresh` in `ProfileStore`. *Start at login*, *doctor*: registration with the operating
  system, a read-only report.
* Windows rename recovery of the updater; log rings, resource samples and orphan journals of the
  supervisor; the status snapshot and load progress.

Most of the repository's 119,000 lines are of these kinds, or unit tests inside the source files, so the
map covers about a tenth of them: nearly all code that shares state between tasks or processes.
