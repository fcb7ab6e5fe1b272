# imago: TLA+ models, model checking and proofs

imago deploys WebAssembly components to devices. The daemon `imagod` runs on the
device; the `imago` CLI talks to it over QUIC, uploads an artifact and sends
commands. This directory holds TLA+ models of the daemon, of the runner processes it
starts and of the parts of the CLI that hold a dialogue with it, the TLC
configurations that check them on small instances, and TLAPS proofs.

All paths below are under `src/crates/` unless they say otherwise.

## 1. Inventory

### The parts and how they interact

| Part | Source | State it keeps | Operations |
|---|---|---|---|
| Command operations | `imagod-control/src/operation_state.rs`, `imagod-server/src/protocol_handler/router.rs` | map request id -> state, phase, cancel flag | `command.start`, `command.cancel`, `state.request` |
| Session loop | `imagod-server/src/protocol_handler/session_loop.rs` | one `JoinSet` of stream tasks per session | accept a stream, dispatch, abort all on an error |
| Artifact store | `imagod-control/src/artifact_store.rs`, `artifact_store/` | upload sessions, idempotency keys, pins, `sessions/*.artifact` files | `prepare`, `push`, `commit`, lookups, pin, purge, expiry, eviction |
| Orchestrator | `imagod-control/src/orchestrator.rs` | command gates; release directories, `active_release`, `restart_policy`, staging | `deploy` with rollback, `run`, `stop`, boot restore |
| Service supervisor | `imagod-control/src/service_supervisor.rs`, `runner_spawn.rs` | `inner`, `runner_index`, `pending_ready`, `starting_services`; one child process per service | `start`, `stop`, `replace`, `stop_all`, `reap_finished` |
| Manager control server | `service_supervisor/manager_control.rs` | works on the supervisor's maps | `RegisterRunner`, `RunnerReady`, `Heartbeat`, invocation targets, remote RPC |
| Remote RPC | `service_supervisor/remote_rpc.rs` | connections by id, owned by runners | connect, invoke, disconnect |
| Logs | `service_supervisor/log_buffer.rs`, `retained_file_store.rs`, `protocol_handler/logs_forwarder.rs` | bounded buffers, retained files with a byte budget, forwarding streams | append, snapshot, subscribe, retain, evict |
| Runner process | `imagod-runtime*/` | component instance, HTTP queues | bootstrap, register, ready, heartbeat, invoke, shut down |
| Daemon lifecycle | `imagod/src/manager_runtime.rs`, `shutdown.rs` | shutdown flag, session semaphore | serve, maintenance tick, drain, `stop_all` twice |
| Plugin cache | `orchestrator/plugin_cache.rs` | content-addressed files | fill, collect garbage at boot |
| CLI | `imago-cli/` | - | build, deploy (upload loop with retries), run, stop, logs, compose |

The control flow of a deploy crosses most of them. The CLI calls `prepare`,
pushes chunks on several streams, and commits (artifact store); `command.start`
registers an operation (command operations), acquires the command gate of the
service, unpacks and promotes the artifact (orchestrator), replaces the running
process (supervisor), which then registers and announces itself ready over the
control socket (manager control server). Every stream is a tokio task; an error
on one stream of a session aborts the others at whatever await point they are.
A maintenance task reaps exited runners, and SIGINT drains sessions and stops
everything.

### What is hard here, and what makes each part correct

- **Concurrency between await points.** No part holds a lock across I/O. The
  artifact store decides under a lock, writes outside it and comes back; the
  supervisor uses four separate locks and never two at once; a stop owns a
  `Child` that no map knows. Correctness is a relation between what a task
  remembers and what the maps say when it comes back.
- **Aborted tasks.** `abort_all` drops a task at an await point. Only what has a
  `Drop` guard (command gate, deploy pin) is undone. Writes on the blocking pool
  go on without their task.
- **Cancel against spawn.** A client that was told `cancellable: true` must not
  see its command run.
- **Late and stale control messages.** A ready of a former runner must not be
  credited to its successor; a ready may race a timeout.
- **Failures midway.** A deploy that stops the old release and fails to start the
  new one must find the old one on disk. Renames, writes and kills fail.
- **Crashes.** `active_release` and `restart_policy` are written in place, a
  release is swapped by two renames.
- **Lost, repeated and late calls.** The CLI retries streams and whole uploads; a
  request it has given up on may still be executed, out of order.
- **Everyone waiting.** Guests block in calls without a time-out, followers wait
  for a channel to close, a shutdown waits for sessions that are not told of it.
  What must end has to end whatever clients, guests and runners do.
- **Limits and edges.** In-flight chunks, committed sessions, merged byte ranges,
  log buffers, broadcast lag, connection and handler slots.

`PROJECT.json` lists these hazards one by one, each at its line, with the
properties that would catch it.

## 2. The modules

| Module | Models | How its state corresponds to the code |
|---|---|---|
| `CommandLifecycle` | `operation_state.rs`, the command handlers of `router.rs`, the abort of `session_loop.rs` | `operations` is `OperationManager::inner`; `pc[h]` is the await point of the handler of one `command.start` stream |
| `ArtifactStore` | `artifact_store.rs`, `session_index.rs`, `chunk_pipeline.rs`, `commit.rs` | `sessions`, `idempotency` are `StoreState`; `files`, `content` the disk; `task` the requests between two critical sections |
| `ByteRanges` | the range arithmetic of `commit.rs` | `received_ranges` is the session's list; `received`, a set of bytes, is the reference |
| `ServiceSupervisor` | `service_supervisor.rs`, `manager_control.rs` (register, ready, heartbeat), the shutdown of `manager_runtime.rs` | one variable per map; `process` is the operating system's view; `task` the callers, `request` the control connections |
| `ServiceContract` | what the supervisor promises its callers | `running` maps a service to its process; calls are open or answered |
| `Orchestrator` | `orchestrator.rs` | one variable per kind of file; `running` is what the supervisor runs; `desired` is history |
| `PluginCache` | `plugin_cache.rs`, the load in `plugin_resolver.rs` | `cache` is the directory of components, `launch` the launches under way |
| `UploadClient` | the upload phase of `imago-cli/src/commands/deploy/mod.rs`, which extends `ArtifactStore` | `client` is the command, `call` the streams, including those the client has given up on |
| `ServiceLogs` | drains and `open_logs`, `logs_forwarder.rs`, the reader of `imago-cli/src/commands/logs/mod.rs` | one buffer and channel per run, `reader` the handler, `client` the terminal |
| `LogBuffer` | `BoundedLogEventBuffer` in bytes | `events` is the ring; `newest`, the last bytes written, is the reference |
| `RetainedStore` | `retained_file_store.rs` | `entries` is the index, `disk` the directory |
| `RunnerProcess` | `runner_process.rs`, `imagod-runtime-control`, `imagod-runtime-ingress`, `runtime_entry.rs`, `http_supervisor.rs` | one variable per task of the process, `shutdown` is the watch channel |
| `Invocation` | `rpc_bridge.rs`, `ResolveInvocationTarget`, remote calls and `invoke` | `call` is a blocked guest with what it holds; `inner`, `is_ready` are the supervisor's |
| `DaemonSessions` | the accept loop of `manager_runtime.rs`, `shutdown.rs`, `run_session_loop` | `session` and `stream` are the tasks, `aborted` the ones told to end |
| `*Proofs` | theorems about `CommandLifecycle`, `ServiceSupervisor`, `DaemonSessions`; `ArtifactStore` and `ByteRanges` (`ArtifactStoreProofs`); `UploadClient` on top of them; `Orchestrator` and `PluginCache` (`OrchestratorProofs`); `ServiceLogs`, `RetainedStore` and `LogBuffer` (`ServiceLogsProofs`); `RunnerProcess` and `Invocation` (`RunnerProofs`) | each extends its module, or the `MC` module that has its parts side by side, and `TLAPS`; section 4 |
| `MC*` | model values, symmetry, the small functions the configurations name, and the choice of a subject | |

Parts that do not share state are checked in one run: the first state chooses the
*subject* of the behaviour (for instance the releases or the plugin cache), and the
other part does not move. A run then has the properties of both, and a
counterexample is a behaviour of one of them.

Conventions. One action is what happens between two await points, or between two
file operations where a crash could tell them apart. An action named after a
function models that function, or the part of it its comment names. Operators in
`snake_case` keep the source's name. An operator called a *fault* ("Fault:",
"Seeded fault:") is a wrong version of the definition that follows it; it is used
to show that a property can fail, and never by a specification.

### CommandLifecycle

A handler goes `admitted` (admission checks and `OperationManager::start`),
`accepting` (write of the accepted event), `announced` (`set_state(Running)`),
`starting` (progress event), `marking` (`mark_spawned_if_not_canceled`),
`executing` (the orchestrator runs, to an outcome ok, retryable or fatal),
`reporting`, `closing` (the terminal event), `finishing`, `removing`, `purging`.
Any write may fail (at most `MaxWriteFailures` times), which breaks the session;
`AbortSession` then drops its other handlers. `ending` is what the session's `JoinSet`
gets to know of a task: the write whose error the handler returned, or that it was
dropped while it had an entry. `granted` is history: the handlers whose client was told
that the cancel takes effect.

### ArtifactStore and ByteRanges

The artifact is a set of chunks, and a file maps each chunk to `empty`, `good` or
`bad`; `digest_file` succeeds iff all are good. `ByteRanges` relates that set to
the list of ranges the code keeps. Time is a clock that ticks up to `MaxTime`;
`now` is read at the start of an operation and written back after its I/O, as in
the code. `collect_expired_sessions` and `collect_orphan_committed_sessions` are
translated with their exceptions (busy, pinned, just committed) and the eviction
order. A refused request still performs the map cleanup (`Refuse`), and drops the
plan that would delete the files. `Abort` drops a request; a chunk write on the
blocking pool goes on as `DetachedWrite`.

### ServiceSupervisor

`start` is reap, reserve, reap again, check, spawn, insert, index, bootstrap,
wait for ready, take the sender back, and on failure cleanup (take, unindex and
kill, wait), then release. `stop` is take, unindex, graceful call, grace period,
kill, wait, and on failure put back and reindex, or kill what was displaced.
`replace` is stop, then start unless the stop failed. The orchestrator's gate admits
one command per service (`gate_free`).

`ServiceContract` is the abstract specification: a service has at most one process,
a process is launched only on behalf of an open start or replace and only where there
is none, it may end at any time, and a stop is answered "ok" or "not found" only when
the service has no process. The refinement mapping (`running_of`, `call_of` in
`ServiceSupervisor`) takes a service to the process that is alive for it, wherever the
`Child` is at the moment: in `inner`, in the hands of a stop, or in a failed start.
The property `ImplementsContract` is the contract's specification under this mapping.

### Orchestrator

`deploy` is clean, extract, unpack, rebind (the gate moves from the upload's
service name to the manifest's), read and check the current release, promote
(plain rename, or a swap through a backup that is undone if it fails), clean up
old releases, build the launch, replace the running service, write
`active_release` and `restart_policy`. A failed start goes to the rollback: write
both files back, load and start the previous release, with one forced stop if the
service is busy. `fs::write` is two steps, since it truncates first, and
`remove_dir_all` is two steps for each directory, since it removes entry by entry and
may fail or be cut off midway. The
supervisor appears as the set of outcomes its calls can have (`StartOutcomes`,
`StopOutcomes`, `ReplaceOutcomes`), which are the answers `ServiceSupervisor` gives.

### PluginCache

Every launch (deploy, run, rollback, boot) first sees that the components its
release names are in the shared cache: it computes the digest of the cached file and
copies the component when that differs. `fs::copy` is two steps, the first of which
empties the file; a crash or an error in between leaves it torn. The runner loads the
file without a check. `upset` is history: components that another launch began to
copy after this one had been satisfied with them.

### UploadClient

An upload attempt is prepare, pushes of the missing chunks, commit; an error of one
retries the stream, then the attempt with a new prepare. An answer is retried this way
when it is Busy or marked retryable, as the failed file operations of the store are
(`map_internal`). A command that failed is run again with the same idempotency key. A call that is given up on becomes late: the
server executes it at any time, drops it, or drops it midway (`Abort` of
`ArtifactStore`). Late deploys of an earlier run end with a purge.

### ServiceLogs, LogBuffer, RetainedStore

A drain appends a line to the run's buffer, lets go of the lock and broadcasts it; a
reader subscribes, takes the snapshot, then forwards through a queue; when the
channel has overwritten events the forwarder skips as many sequence numbers, from
which the client concludes that lines are missing. The end of a run drops the
senders one by one, and writes the buffer to disk. `LogBuffer` does the same in bytes
and adds `--tail`; `RetainedStore` has each file operation as a step, a crash between
any two, and the rebuild of the index from what it finds.

### RunnerProcess and Invocation

`RunnerProcess` is one process of each app type: `main` goes from registration
through the start-up windows, readiness and the run to `shutdown_runner_tasks`; the
other tasks listen to the `shutdown` channel. A receiver made late has seen the
current value, so a signal is not lost only if it is sent again. A guest may hang
(`wedged`) in a request, in an invocation or, in a cli app, in a call of another
service, which blocks the thread that would see the shutdown. `Invocation` follows calls: ask the manager, resolve (or call away to
another daemon, holding a control handler), connect, wait for an inbound slot, verify
the token, run, answer. Nested calls hold the slots of their parents.

### DaemonSessions

The accept loop takes a permit or refuses, and waits for the refusal to be written.
A session accepts streams until its client goes or a stream fails, which aborts the
others. A stream handles one request, follows a log, waits for a guest that was invoked,
or waits for a client that does not read. After a signal sessions are drained, then aborted; the streams of an
aborted session are told to end and nobody waits for them.

## 3. The runs

| Run | Instance | Checks |
|---|---|---|
| `command_faults` | 3 handlers in 2 sessions, 2 request ids, 1 upload, 1 failed write | granted cancels are honoured and nobody is canceled without one; an id has one owner, which finds its entry; an entry is left behind only by a write before the terminal one that failed, or by an abort |
| `command_progress` | commands: 2 handlers, no failed write; sessions: 2 clients, 1 permit, 2 streams at a time; weak fairness | a granted cancel is confirmed and every request id is freed; a session ends with a failed stream, and with its client unless a guest does not return; a signal ends the daemon; when services are stopped no session is left |
| `artifact_upload` | 2 requests, 2 deploy ids, 2 keys, 2 fingerprints, 1 chunk, limits of 1, 1 abort; ranges: 10 bytes, chunks of 1 to 4 | what is committed was verified; keys and sessions are one to one; what is staged is the verified artifact; a request at work keeps its session and is counted; a commit keeps `max_committed_sessions`; the range list denotes the bytes received and the missing ranges are the rest |
| `upload_client` | 1 artifact of 2 chunks, 2 server tasks, 2 attempts of 2 streams, 1 fault, 1 dropped handler, weak fairness | a deploy is sent for a committed upload; retries never cause a failure; a run ends; a healthy upload gets through |
| `supervisor_daemon` | 1 service, 2 commands, 3 runners, 1 control connection, 2 failed kills | the supervisor implements `ServiceContract`; no process is lost; reservations and ready senders follow their start; ready is true; the shutdown leaves nothing behind |
| `supervisor_progress` | replace (a stop and a start) by 1 caller, 2 runners that send only ready, 1 failed kill, 1 aborted caller, weak fairness | calls return; a shutdown ends |
| `orchestrator_deploy` | releases: 2 commands, 2 uploads, 2 service names (one upload is rebound), 2 interchangeable policies; cache: 2 services, 2 components, 2 faults | what runs is active; files follow deploys; the release to roll back to is on disk; `expected_current_release` is a compare-and-swap; what a runner is told to load is whole |
| `orchestrator_faults` | 2 commands, 2 uploads of one service, 1 failed file operation, 1 crash | the active release is on disk; nothing that is loaded is half unpacked or half removed |
| `service_logs` | pipeline: 3 lines on 2 streams, buffer of 2, channel and queue of 1; buffer: 5 bytes, reads of up to 6; store: 2 services, 3 logs, 2 faults; weak fairness | a warning is the truth; snapshot and follow join without a hole; a follower's stream ends; `--tail` cuts the newest lines; retained logs are the latest, whole, and counted |
| `runner` | process: 2 requests, 1 invocation, 1 permit, 2 faults; calls: 2 services, 2 runners, 2 calls, 1 slot each; weak fairness | a shutdown or the loss of the daemon ends the process; ready means serving; connections end; calls return; a call reaches only what it was resolved to |
| `artifact_leak`, `supervisor_abort` | as above | violated: see section 6 |

### Bounds, and why they are enough

The hazards are races of two actors over one object, with a third actor that
interferes (maintenance task, control connection, clock, crash). Two requests or
commands, and three where a session needs a sibling stream, give every such race;
objects come in pairs where the code compares two (keys, fingerprints, releases,
request ids). Limits (`MaxInflight`, `MaxCommitted`) are 1, so they are reached at
once. The time-outs are 1 and 2 and the clock stops at 2, so both kinds of session
expire. Three runners let a stopped, a running and a displaced one coexist. Ten
bytes hold three separate ranges with gaps. `MaxKillFailures = 2` lets both
`stop_all` passes fail, and `ShutdownIsClean` says that one failure is survived.
One write failure, one abort, one failed file operation and one crash are one
fault anywhere; the proofs hold for any number.

Two calls are a nested pair, or two rivals for one slot. One permit and two clients
make the accept loop refuse. Three lines overrun a buffer of two and a channel of one.

Deadlock is checked in the `supervisor_*` and `orchestrator_*` runs. In the others
handlers, deploy ids, clients, lines and the clock are used up, and the model stops
where the program would go on with fresh ones.

Symmetry is used over tasks, requests, runners, keys and the like, in runs of
safety properties only, and over policies where no boot tells them apart.

### Fairness

`CommandLifecycle`: weak fairness of each handler's steps. A tokio task that is
not dropped is polled until it ends, and every await in the handler ends (the
orchestrator's call returns, a write succeeds or fails). No fairness is assumed
for clients: nobody has to send or cancel anything.

`ServiceSupervisor`: weak fairness of each call's steps, of the tasks `stop_all`
spawns and of the shutdown sequence, for the same reason and because the waits
have timers; and of the exit of a process that was sent SIGKILL. Nothing is
assumed of a runner that was not killed: it may ignore the shutdown request, never
get ready and never exit. Fairness of failing kills is not assumed.

`UploadClient`: the server's handlers and the client's own steps; a call ends by an
answer or by the stream time-out; a user runs the command again after a failure.
`ServiceLogs`: drains, reaper and handlers, and the exit of a process being stopped;
nobody has to write, to open a log or to stop the service. A client is assumed to read
or to go away, since one that stays and never reads blocks the write of its forwarder
(other readers do not depend on it). `RunnerProcess`: its
tasks, timers and time-outs, and a guest's return unless it is wedged. `Invocation`:
the steps of each call, as accept queues and semaphores are first come, first served.
`DaemonSessions`: the daemon's and the sessions' tasks, reads (they have a time-out)
and handlers other than `rpc.invoke`, of whose guest nothing is assumed. A write ends for certain only when its client has gone, and a follower
only then: clients may stay, and never read.

## 4. What is proved

The theorems hold for every value of the constants: any number of services,
commands, runners, clients and streams, any limits, and any number of faults of the
kinds the models have. Each rests on an inductive invariant; the proof has one step per
action. Every invariant and every action property of the passing runs is stated by a
theorem, some with the condition spelled out that the run's constants meet (`aborts = 0`,
`NamesAgree`), so that a run shows on a small instance what its theorem shows in general;
only liveness is left to TLC alone (section 5).

| Module | Theorem | Property of the runs |
|---|---|---|
| `CommandLifecycleProofs` | `TypeCorrect` | |
| | `CancelIsHonoured`, `CancelIsNeverInherited` | `CancelHonoured`, `CanceledOnlyOnGrant` |
| | `EntryFollowsItsHandler`, `OnlyMidwayFailuresAbandon` | `EntryFollowsHandler`, `AbandonedOnlyMidway` |
| `ArtifactStoreProofs` | `TypeCorrect` | |
| | `CommittedStaysVerified`, `KeysAndSessionsMatch` | `CommittedIsVerified`, `KeyHasOneSession` |
| | `StagingIsSafe`, `WorkIsCounted` | `StagedIsVerified`, `WorkKeepsSession` |
| | `CommitsKeepLimit`, `RangesStayExact` | `CommitKeepsLimit`, `RangesAreExact` |
| `UploadClientProofs` | `UploadImplementsStore`, `UploadTypeCorrect` | |
| | `UploadedStaysCommitted`, `FailuresHaveCauses` | `UploadedIsCommitted`, `FailureHasCause` |
| `ServiceSupervisorProofs` | `TypeCorrect`, `OneRunnerPerService` | |
| | `ReadyClaimsAreTrue`, `ReservationHolds` | `ReadyIsTrue`, `ReservationIsExact` |
| | `NothingIsOrphaned`, `ShutdownLeavesNothing` | `NoOrphan`, `ShutdownIsClean` |
| | `SupervisorKeepsContract` | `ImplementsContract` |
| `OrchestratorProofs` | `TypeCorrect`, `GateExcludes` | |
| | `DeployIsAtomic` | `DeployIsCompareAndSwap` |
| | `RunsWhatIsActive`, `FailedDeploysLeaveNoTrace` | `RunningIsActive`, `FilesFollowDeploys` |
| | `ActiveStaysOnDisk`, `RollbackFindsRelease` | `ActiveIsOnDisk`, `RollbackHasRelease` |
| | `LoadedReleasesAreWhole` | `LoadedIsWhole` |
| | `RunnersLoadWhole` | `LaunchedIsWhole` |
| `ServiceLogsProofs` | `WarningIsTrue`, `FollowersMissNothing` | `WarnedIffLost`, `NoHole` |
| | `RetainedServesLatest`, `TailsAreNewest` | `RetainedIsLatest`, `TailIsNewestLines` |
| `RunnerProofs` | `ReadyMeansServing`, `InvokedAsResolved` | `ReadyIsServing`, `InvokedIsResolved` |
| `DaemonSessionsProofs` | `ServicesStopLast` | `StopIsLast` |

### Assumptions

The named `ASSUME`s of the models. They say that a bound is a natural number, that a
limit that the configuration refuses to be zero is not zero, that the value for
"none" is not a member of the set it stands outside of (`NamesAssumption` and the
like), that `SessionOf` maps handlers to sessions, and that the daemon serves a finite
number of requests at a time (`TasksAssumption` of `ArtifactStore`, which counts
them). `RangesAssumption` says that an artifact is not empty (`prepare` refuses
an `artifact_size` of 0); `BufferAssumption` that a log buffer has at least one byte
(`max_bytes.max(1)` in `BoundedLogEventBuffer::new`); `ArtifactAssumption` that there is
an artifact to upload, with a key, a fingerprint and a chunk; `CallsAssumption` that
there is a service. TLC evaluates them in every run of
their module.

### CommandLifecycle

`CancelHonoured` is not inductive: it does not speak of the flag in the entry, which is
what `mark_spawned_if_not_canceled` reads. `CommandInv` adds that an id has one owner
(`OneOwner`), that the owner finds its entry in the phase it left it in
(`EntryPresent`), that until the decision the flag is the promise (`FlagIsPromise`),
that promises are made to owners only (`PromiseHasOwner`) and what the outcome can be
at each await point (`OutcomeAtPc`). `OnlyMidwayFailuresAbandon` says whose work an
entry without a handler is: a handler that failed to write the accepted, the starting
or the report event, or one that was dropped for the failed write of another stream of
its session. It needs that only handlers that have ended are recorded so
(`EndingAtEnd`), hence a session is never aborted for a handler that is still at work,
and the two streams are different.

### ArtifactStore

A session is trusted across two critical sections with file I/O between them, so the
invariant `Inv` relates three things: the session, the tasks between their sections,
and the chunk writes on the blocking pool that nobody awaits any more. `Counts` says
that `inflight_writes` is exactly the number of tasks that write plus those that were
dropped, and that a detached write is still counted; hence a commit, which begins only
at zero, has no writer beside it, and the digest it computed is still that of the file
when it sets `committed`. `Ids` and `Plans` say that ids are used once and that no
cleanup plan names a file of a session that exists or is being made. `Work` says that
a task at work has its session, unless the session was purged. The count is
`Cardinality` of a set of tasks, for which the proofs cite `FiniteSetTheorems`.

`CommitKeepsLimit` is about the step that commits. The eviction removes the sessions
whose place in its order, the number of sessions before them, is below the excess. The
places are the numbers from 0 up, each taken once: the map from a session to its place
is injective because the order is total, and its range is what a finite set of that
size has. So exactly the excess is removed, or every session that may be.

### ByteRanges

The list is computed by folds over sequences of any length. The library's induction
theorems cannot be used here, as the provers do not instantiate an operator that is a
parameter; the proofs argue instead from the least step at which a claim would fail
(`CountUp`), after showing that the recursive function a fold is defined by exists
(`FoldExists`). `MergeKeeps`: inserting a range into a canonical list (in order, with
gaps between ranges, `Canonical`) and absorbing neighbours gives a canonical list with
the bytes of both. `LookFinds` and `ScanFinds` say the same of the two passes that look
for gaps, and `CompleteIsAll` of the gate of a commit. `RangesInv` is then inductive in
one step. The proof found one thing: the model had sorted with an operator that leaves
the order of equal offsets open, where `sort_by_key` is stable; it now says which.

### UploadClient

`UploadImplementsStore` is the composition: whatever the client, the network and the
sweeper do, the store takes steps of `ArtifactStore`, so that all its theorems hold
here. `UploadInv` adds two parts. `StoreInv` is about a store that serves the uploads of
one artifact: its sessions have one key (`OneKey`), what a session has received is in
its file (`GoodData`), and before any time to live is over a session that was opened is
there or was purged (`Stays`). The other part is about calls: what a call that is on
its way, or an answer nobody has read yet, says of a session stays true of it
(`Tells`): a chunk that was acknowledged is still received, an upload that is complete
stays complete, a commit that succeeded is not undone. `Fresh` says that a session the
client still pushes to has no commit on its way from an earlier attempt, which is why
the answers that mean a wrong upload never come. The proof goes over each handler step
twice: what it does to the sessions (`Evolves`), for which late and awaited calls are
the same, and what its answer says.

### ServiceSupervisor

What holds whatever happens (`Base`: types, `RunnerKnown`, what a call carries at each
label, where a control request comes from, and how "ok" travels from `RunnerReady`
through `is_ready` and the channel to the answer) is kept apart from what holds until a
caller is aborted (`Calm`: one call per service by the gate, a call and `inner` never
hold the same process, every live process is held by one of them, a reservation
belongs to a call). `ReadyClaimsAreTrue` follows from `Base`. The others are stated
under `aborts = 0`, as the run `supervisor_abort` shows that one abort breaks
`OneRunner`: this is the condition under which the code keeps its promise, and the
invariant is `aborts = 0 => Calm`, so it is inductive over all steps.
`SupervisorKeepsContract` is the refinement: the initial states map to initial states
of `ServiceContract`, and each action maps to a step of it or leaves the mapped state
as it is.

### Orchestrator

`DeployIsCompareAndSwap` needs to know that nobody writes the file between the check
and the write. `GateInv` says that a command at work holds the gate of some service
(`WorkHoldsGate`), that no other command holds it (`GateIsExclusive`), although
`rebind` exchanges gates midway, and that from the check on the file is what the client
expected (`CheckStillHolds`).

Other properties are true between commands only. For them `ReleaseInv`
has two halves: what a service at rest satisfies (`Rest`), and what a deploy that has
begun to change it knows of the files, the process and the directories at each label
(`Works`), which is enough to come to rest again from there, by success or by rollback.
Two attempts to prove more failed for a reason: with a second failed file operation
*while the first is being undone* the swap of directories stays half done, and with an
upload whose manifest names another service a deploy may have its staging directory
cleaned by another one in the middle of a swap. `SwapsUndone` and `NamesAgree` state the
conditions under which the active release stays on disk; section 6 has what the code
does outside them.

### PluginCache

`LaunchedIsWhole` looks at a launch when it starts its runner. `CacheInv` carries it
there: what a launch is done with is whole or was disturbed since (`Settled`), launches
that copy to the same file have marked each other (`Shared`), and a file is left with a
hole only by launches that were (`Holes`).

### ServiceLogs

`LogsInv` follows lines and losses to the client. `Counted`: a loss is in the message
the forwarding task holds, in the queue, in the difference between the forwarder's and
the client's sequence numbers, or the client was warned; when the stream ends only the
last is left. `Joined`: what a reader got, taken together with all that is on its way
(the rest of the snapshot, the queue, the unreceived part of the channel, and the lines
that drains hold between buffer and channel), has with a line every later one of its
stream. This needs the order of lines in the buffer and the channel (`Numbered`,
`Buffered`, `Sent`), that a drain holds the last line of its stream (`InHand`), and that
the receiver was made no later than the snapshot (`Placed`).

### RetainedStore and LogBuffer

`RetainedIsLatest` speaks of a store at rest. `RetainedInv` says what holds in the
middle of an upsert, after a crash and while the index is rebuilt: the newest file that
was renamed into place is the only whole one of its service (`Written`, `OneFile`), an
entry leads to a file except between the rename and the index (`Indexed`), and the
counter is the size of the files of the index (`Measured`). A size is the number of
bytes, so that adding and removing files is arithmetic on `Cardinality`.

`TailIsNewestLines` is about three passes over the ring, each a fold, with the method
of `ByteRanges`. `EvictionCuts`: evicting `n` bytes cuts the first `n` bytes off what
the events have together, wherever events begin. With it `BufferInv`, that the events
together are the newest bytes and are counted right, holds after every read, also of
one larger than the buffer. `SliceCuts` says the same of the pass that copies the tail
out, and `TailStartsAtLine` that the place it starts from is the `n`-th last beginning
of a line: the queue of recent line starts holds the last ones in order, and their
number is what the reference counts.

### RunnerProcess and Invocation

A process marks itself ready some steps after its run came up and its ingress was
bound. `ProcessInv` says that until a shutdown is asked for nothing ends either of them
(`RunStands`, `IngressStands`), although all other tasks go on.

A call is resolved at the manager, connects, waits for a slot and is executed. Nothing
on the way asks whether the target is still what it was. `CallsInv` says why it is: a
runner id is not used again, a runner that is alive keeps its service and stays ready,
one that has died has closed the connections of its callers (`Current`), and the token
of a call never expires later than its life from now. The proof refused the first form
of `Exit`, the end of a runner, whose cases overlapped for a runner's call to itself;
they are in order now.

### DaemonSessions

`SessionsInv` adds to `StopIsLast` that a session that has ended has only streams that
were told to end (`Leftovers`) and that one which has not begun has none (`Unserved`).

## 5. What is only model-checked

- Liveness, which TLAPS does not do: `CommandsEnd`, `SessionsEnd`, `RunEnds`, `UploadGetsThrough`, `EverythingEnds`, `FollowEnds`,
  `ProcessExits`, `ConnectionsEnd`, `InvocationsReturn`.
- The two violations of section 6, which are counterexamples, and the conditions of
  the theorems that rest on them (`aborts = 0`).
- That the definitions of the models compute what the code computes: the map in
  `PROJECT.json` is what there is to compare.

## 6. Disagreements between the code and what it says

Two are runs, each with a finding in `PROJECT.json`:

- `artifact_leak`: a refused `push` or `commit` has removed expired sessions from
  the map, and returns (`artifact_store.rs:410` and below) before the arm that
  would delete their files (`:461`, `:562`) is reached. The files stay.
- `supervisor_abort`: a session abort drops a `stop` that owns the `Child`. The
  process runs on untracked, and the next start gives the service a second one
  (`service_supervisor.rs:653`; the module promises one runner per service).

The models show some more, which the passing properties state as their
preconditions:

- A failed write of the accepted, starting or report event returns with `?`
  (`router.rs:451`, `:462`, `:476`, `:557`): the entry stays, is reported as
  running for ever by `snapshot_running` (`operation_state.rs:126`) and its
  request id cannot be used again. Theorem `OnlyMidwayFailuresAbandon` says when this
  happens.
- `push` and `commit` write back a `now` read before their I/O
  (`artifact_store.rs:490`, `:580`): a session may expire before the
  `session_expires_at` that a `prepare` answered meanwhile
  (`session_index.rs:36`).
- A dropped `push` or `commit` leaves `inflight_writes` or `commit_in_progress`
  set: the session can neither be committed nor collected, and since the idempotency
  key is a hash of the artifact, every later run of the same deploy is answered Busy
  until the daemon restarts. `UploadGetsThrough` excepts it. The purge at the end of
  an earlier run's late deploy may also take the upload a new run has just resumed.
- A digest mismatch leaves the upload complete (`artifact_store.rs:583`): a client
  that resumes it is told that nothing is missing, and cannot repair it before it
  expires. Its own retries never cause one (`FailureHasCause`).
- A dropped start keeps its reservation (`service_supervisor.rs:582`); every later
  start is refused with "service is already running" (`:1663`). `ReservationIsExact`
  is checked without aborts.
- In `wait_for_runner_ready` a ready and an exit may both be there; `select!`
  takes either, and may report "exited before ready" of a runner that was ready
  (`service_supervisor.rs:1132`, `:1135`).
- `promote_staging_release` is described as atomic (`orchestrator.rs:1195`). A
  crash between its two renames (`:1223`, `:1227`) leaves the active release in a
  backup that the next deploy deletes; so does a failure of the second rename followed
  by one of the rename that undoes the first. `ActiveIsOnDisk` and `RollbackHasRelease`
  are stated under `SwapsUndone`, which excludes both.
- A crash inside `fs::write` leaves `restart_policy` empty (`orchestrator.rs:869`),
  which `read_restart_policy` (`:1036`) refuses: every later deploy fails.
- A failed write of `active_release` after the replacement (`orchestrator.rs:333`)
  leaves the new release running while the old one is the active one.
  `RunningIsActive` is stated without failed file operations.
- `rebind_deploy_service_command_guard` (`orchestrator.rs:1284`) lets go of the gate of
  the upload's name. Two deploys of one upload whose manifest has another service name
  then share a staging directory without a common gate, and the second may clean it
  while the first unpacks or promotes it. `LoadedIsWhole` is checked without a rebind.
- A removal of an old release that fails or is cut off by a crash (`orchestrator.rs:920`)
  leaves part of a directory under a release's name. Nothing loads it
  (`LoadedIsWhole`): only an active release or the one before it is loaded, and a later
  deploy of the same artifact replaces the directory. A failed removal fails the deploy
  before the running service is touched.
- Launches of two services that share a component may both copy it
  (`plugin_cache.rs:192`): the later copy empties the file that the first one's runner
  is about to load, and that start fails. `LaunchedIsWhole` excepts it.
- A service leaves `inner` before its log is retained (`service_supervisor.rs:1340`):
  a reader in between is served the log of the run before, and a late reap may
  replace a newer log. Lines of stdout and stderr may change places between buffer and
  broadcast, and a line may come both in the snapshot and in the follow.
- Guests block in local calls without a time-out (`rpc_bridge.rs:210`). Services that
  call each other in a circle can hold each other's slots for ever;
  `InvocationsReturn` is stated for bindings without a circle. Remote calls hold one
  of the manager's 32 control handlers each for up to 15 seconds, while a heartbeat
  times out after 2; three failures end a healthy runner.
- `rpc.invoke` waits for its runner without a time-out (`service_supervisor.rs:1016`),
  and a session whose client has gone awaits its streams without aborting them
  (`session_loop.rs:176`): a guest that never returns keeps the session and its permit
  until its runner ends or a signal ends the daemon. `SessionsEnd` excepts it.
- The session tasks are not told of a shutdown: one idle client makes the drain take
  its whole time-out. The streams of an aborted session end at their next await,
  perhaps after `stop_all` has listed the services; a runner that is started then
  ends by its own heartbeats (`ProcessExits`).

## 7. What is not modelled

Most of the repository's lines are not in the daemon's concurrent core. They are the
CLI's build, update, lock file and plugin sources, the native plugins for cameras,
USB, GPIO and I2C, manifest and configuration parsing, protocol messages and their
validation, TLS set-up, wasmtime linking and value conversion, install and
self-update, the release tool. That code is sequential, without shared state or
protocol: what can be wrong in it is in formats, in the wording of a schema, in a
device's ioctl; a model would transliterate it, and its tests reach what a model
checker would. `PROJECT.json` has the reason for each part. This is why the modules
stand for a small share of all lines and for nearly all state that is shared.

Inside the modelled parts: aborted commands in `Orchestrator`, where `extract_tar`
goes on in the blocking pool while a retry cleans the same staging directory
(`orchestrator.rs:732`); a failed `start_kill` in `cleanup_start_failure`
(`service_supervisor.rs:1256`); the datagram path of the log forwarder and the merge
of the logs of all services; remote connection ids; updates of `known_public_keys`,
which are not locked (`imagod-config/src/lib.rs:437`); failed allocations and clock
steps backwards; a rename that has returned and is undone by a power failure, as nothing
syncs the directory (`retained_file_store.rs:143`). That an upload is purged only after a
deploy that succeeded or failed for good (`router.rs:782`) is in `CommandLifecycle` as
the guard of one action, and no property repeats it.

## 8. Plan

The modules of the plan are written, and every safety property of the runs is proved.
What would come next, in this order:

1. `SupervisorKeepsContract` shows the contract as long as no caller is aborted. With a
   change of the code that hands an aborted stop's process to a task of its own, the
   condition `Undisturbed` could go, and the run `supervisor_abort` would pass.
2. Aborted commands in `Orchestrator` (`orchestrator.rs:732`): the unpacking that goes
   on in the blocking pool as an actor of its own, beside the retry.
3. The datagram path of the log forwarder.

One run answers one question; a new module brings one or two, and runs that ask
what another one asks are merged into it.
