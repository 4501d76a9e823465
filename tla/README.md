# A TLA+ model of pyroduct

pyroduct runs *playbooks*: wasm modules that turn rows into rows, with capabilities
(native services) at hand, conversations (sessions) over several steps, and a daemon that
keeps playbooks running. Everything a playbook reads, writes and logs is stored: rows go
through a write-ahead log to Arrow and then to Parquet files, execution logs to a
segmented log. This directory models the parts of that in which several tasks, processes,
files, formats and restarts have to agree, checks the models with TLC on small instances,
and proves some of their properties with TLAPS for every instance.

Paths are relative to `src/lib/`: `pyroduct/src/...` is the library, `pyro-daemon/src/...` the
daemon, `pyro-artifacts/src/...` the builds, `pyro-macro/src/...` the macros of a module.

## 1. The system

| Part | State | Operations | Talks to |
|---|---|---|---|
| Write-ahead log, `format/wal.rs` | current channel sender, one background loop and one `.pyrowal` file per channel, `wal_path`, join handle, shutdown sender, `total_len` | `send`, `rotate`, `interrupt`, the loop; framing and recovery | used by the row log |
| Row log, `format/value/arrow/wal.rs` | pre-batch of rows in memory, map from index to row, a `WalManager` | `append`, `rotate`, `interrupt`, recovery | used by the data manager and by sessions |
| Data manager, `pipeline/data.rs` | WAL, Arrow and Parquet files with their counters, SQLite tables `wal_index` and `wal_to_parquet`, readers and deferred deletions | `push_record`, `flush_wal`, `rollout_to_parquet`, `sql_provider` and its guards, `restore`, the reads | input and output manager of each pipeline; the daemon's queries restore managers of their own over the same directory |
| Execution log, `format/log_wal.rs` | segments `N.pyrolog` with indexes, buffered writers, counters | `append_batch`, `rotate`, `flush`, `delete_older_than`, `open`, `get`, sequential read | one per pipeline, one per active session |
| Session and session diff pipelines, `pipeline/session.rs`, `session_diff.rs` | table `session_status`, WAL and log per session, active sessions and their LRU, history in the module instance | `next_session_id`, open, eviction, `call`, rollup, `get` | entered through `PipelineServer`; roll up into the data manager and the log |
| Normal pipeline, `pipeline/normal.rs` | shards, input and output manager, log, callbacks | `call`, `process`, `get_record` | data manager, log, streams |
| Pipeline server, `pipeline/server.rs` | the pipeline behind a read-write lock | calls, callbacks, `get_record`, `restart` | transports, interconnect |
| Playbooks manager, `pyro-daemon/src/playbook/`, `state.rs` | map of workers under one lock, tables `playbooks` and `playbook_callbacks`, a directory per playbook, socket paths, HTTP addresses | start, stop, resume, delete, set address, callbacks, lists, interconnect, update loop, resumption at start | control connections, one task per request |
| Capability processes, `pyro-daemon/src/capability/`, `transport/socket/capability/` | child processes, their socket files, a router with client data, a client per module instance | start, restart, stop, register, call | workers, module host |
| Multiplexed socket, `transport/socket/socket.rs` | pending requests and streams by id, queue, read task and write task per end | `request`, `request_stream`, `recv`, `send`, drop | every connection |
| Data service, `pyro-daemon/src/data/` | streams and replays | queries, replay, stream | data managers, pipelines, sockets |
| Artifact cache and builds, `pyro-artifacts/src/` | directories of versions, build slots, cargo's output file | compile, load, ship, purge | CLI, daemon, cache server |
| Wasm host and FFI, `pyroduct/src/module/`, `pyroduct/src/wasm/` | registries of the guest behind mutexes, session histories on both sides, log buffers | instantiate, call, step, close, capability and playbook calls from the guest | pipelines, capabilities |
| Formats and values, `pyroduct/src/format/value/`, `pyro-spec/`, `pyro-macro/` | none | repair, coercion, schema inference, JSON, archives, Arrow columns, what the macros generate | every other part |
| SQL over the data; GUI and CLI | none of their own | queries; commands | data manager; daemon |

What is hard in it:

- **Tasks and locks.** Every request is a tokio task; a lock is often given up between a
  check and the act it was for (`next_session_id`, opening a session, `start_playbook`, replays).
- **Files that move.** A row is in memory, in a WAL, in an Arrow file or in a Parquet file,
  and readers run while it moves; a version of a package is three files.
- **Background writers.** `send` returns before the record is on disk; `rotate` must wait for
  every record that may still come.
- **Ends of the process.** WALs, logs, sessions and playbooks are recovered from files and
  SQLite tables written in several steps; the last append may be torn, and what is left of it is
  never cut off.
- **Calls that go away.** A client that disconnects drops the future of its call wherever it waits.
- **Requests that run requests.** Starting a playbook may delete it first, or start the
  playbook it calls; an update stops and starts.
- **Shared connections.** Answers and rows of many calls come in any order over one socket.
- **Values in many forms.** A row is JSON, a value, an archive, a Rust struct, an Arrow
  column; each conversion has its own idea of what may be lost.

What makes each part correct: a WAL file holds what its channel took, in order, and a rotated
file is complete and sealed; a data manager shows each row once, in push order, whatever
files it is in, and never touches a file somebody reads; the log answers an index with the
entry appended there; a session's module sees exactly the rows of that session, and a closed
session is archived once; a playbook that was started runs again after a restart, one that
was stopped or deleted does not, and worker, database, socket and callbacks agree; a caller
gets its own answer; a status is true; a child process has an owner; a binary belongs to its
source; a row that was taken reads the same wherever it is stored.

`PROJECT.json` lists the components with their status and the hazards, each at its line with
the properties that would catch it going wrong.

## 2. Plan and composition

In order of importance; all of it exists.

1. `WalManager` and its proofs: the channel, loop and rotation everything else rests on.
2. `DataManager` and its proofs: where the rows are, and who reads them. `LogWal` and its
   proofs: segments, indexes, deletion.
3. `SessionPipeline` and its proofs: conversations of both kinds. `Pipeline` and its proofs:
   calls without sessions.
4. `PlaybooksManager` and its proofs: the daemon. `Capability` and its proofs: its children.
5. `RemoteCalls`, `PyroSocket` and its proofs: the connection, and what it implements.
6. `Replay`, `ArtifactCache` and their proofs; `ModuleHost` and its proofs.
7. `RowValues`, `ModuleTypes`, `WalFrames`, `RowBuffer`: the conversions, and the buffer that
   rows of every kind go through.

How the modules compose. `DataManager` contains the background writer in the form that the
theorems about `WalManager` justify: a FIFO that a rotation drains (`RotationIsLossless`) into
a file that is not written again (`RotatedFileIsSealed`). `SessionPipeline` and `Pipeline` use the
data manager as the rows it was given and the log as a sequence. `Pipeline` composes the
normal pipeline with streams, reads and the stop of its worker; `Capability` composes workers,
children and routers, and takes from `PyroSocket` that a request is answered by the peer or
fails. `RowBuffer` composes values (`RowValues`), module types (`ModuleTypes`) and the frames
of the log (`WalFrames`) with the pre-batch. Theorems about modules that do not meet share a
module: those about `Replay` and `ArtifactCache` are in `ReplayCacheProofs`. The theorems about `WalManager` and `LogWal`, the two
logs a pipeline writes, are in `PipelineProofs` beside those about `Pipeline`; since it extends
all three, specification and invariants of the logs have names of their own (`WalSpec`,
`WalTypeOK`, `LogSpec`, `LogTypeOK`), as have those of the cache (`CacheSpec`, `CacheTypeOK`).

What is left, in order: `WalManager` as an implementation of a set of append-only files of
which all but the last are sealed; of `SessionPipeline`, that transcripts are whole; of
`ArtifactCache`, that a compile returns the program of its source.

## 3. Modules and the code

`PROJECT.json` maps each definition to the lines it models. Definitions whose comment begins
with "Mutant" are plausible bugs, used to show that each property can fail; no specification
refers to them.

**`WalManager`** (`format/wal.rs`). Channel `c`, its loop and its file are indexed by the number
of the rotation that made them. A call of `send` is the actions `SendClone` (the sender is cloned
under a read lock), `SendEnqueue` or `SendError` (the bounded channel), `SendCount`. A loop takes
and appends (`LoopAppend`, or `LoopAppendFails`), leaves its `select!` when all senders are gone or
it is signalled (`LoopBreak`), drains with `try_recv` (`LoopDrained`) and drops its receiver
(`LoopEnd`). `rotate` is `RotateSwap`, `RotateSpawn` (after the join) or `RotateFails`, and `RotateStore`;
`interrupt` is `Interrupt` and `InterruptJoined`; both hold the `inner` mutex, which is `op`. Whether
a sender clone is alive is a function of where the tasks are (`Referenced`). Records are pairs
of a task and a number; bytes, schema and record indexes are left out.

**`DataManager`** (`pipeline/data.rs`, `format/value/arrow/wal.rs`). Files are functions from ids to
rows or `None`. The state lock is `op`: a flush is `FlushWal`, `OpenNext`, `Rotate`, `WriteArrowIpc`,
`IndexRows`, `DeleteWal`, `Track`, a rollout `RolloutToParquet`, `RollFile` for each file, `WriteParquet`.
Errors leave at each place what the code leaves there: a step of a flush or a rollout returns
(`Fail`); the WAL that is opened first may not open, which skips its id (`EnsureFails`); the
background writer ends in an append and tells nobody (`WriterFails`, kept in `writer`), after which
a push has put its row into the pre-batch when its send fails (`PushFails`), and the next rotation
has taken the batch when it meets the error and leaves a channel without a loop
(`RotateFails`). The process may end (`Halt`) and a new manager start with or without
`restore` (`StartRestored`, `StartFresh`: `PipelineServer` builds managers without it). Query
providers take and drop guards without the state lock (`SqlProvider`, `DropGuard`). The reads are
operators over the state (`VisibleRows`, `ManagerLen`, `GetBatchSlice`, `GetRecord`); what a manager
restored from the directory at that moment would show is in `RestoreSeesRows`. File names are
ordered as text (`PathKey`).

**`LogWal`** (`format/log_wal.rs`). A segment is a sequence of entries, its index a sequence of
offsets counted in entries; the buffered writers are `logBuf` and `idxBuf`, and the log's writer
may write early (`SpillLog`). An append is one step per entry, with a rotation in between when a
segment is full; a deletion is one step per file; `stage` is the step reached. `Crash(cut)` falls
between any two writes or, with `cut`, inside a frame, which is written in three pieces through a
buffer: `torn` says behind how many entries of a segment the first frame cut short lies. Nothing cuts
it off: a reader takes the next frames for its rest (`BehindTear`), and what `open` counts behind it
depends on its length (`Counts`, `Open(counted)`). Entries handed in while such a frame is in the
log are remembered (`hidden`), and so is that `open` counted behind one (`miscounted`). `Open` repairs
indexes as `ensure_index_file` does. The sequential reader goes over `Places`, which counts what
lies before an entry (`ReadBefore`) instead of walking there.

**`SessionPipeline`** (`pipeline/session.rs`, `session_diff.rs`, `factory.rs`, the session parts of
`server.rs` and of the module). `kind` is fixed by `Init`, as is whether the schema of the output
manager has room for a closed session's rows (`rollups`: `PipelineServer` and the factory differ).
Each client has at most one request, whose program counter is in `job`: open the session (used
several times in a call), append the input, run the step (continue, end, terminate or error),
persist the status, append output and log, collect the reply, roll up. `PersistRow` is the
output manager's writer. `Crash` falls between two steps; `CrashInAppend` ends the process inside an
append to a session's WAL, with the packet whole or not, and the next process appends behind
what is left: `torn` keeps where, and `RecoveredRows` gives what `recover` may then find (the rows before
the cut, or none). `GetRecord` is what `get` shows of a session, open or closed, and
`ResultOf` what `into_result` makes of it. Reads of tables and directories are one step;
failures of files and of the database are left out.

**`Pipeline`** (`pipeline/normal.rs`, `server.rs`, `pyro-daemon/src/data/stream.rs`, `historic.rs`). A
call takes an index, pushes its input, waits for a shard, runs, feeds the callbacks one after
the other, pushes its output and appends its log. A stream adds a callback through the lock of
`workers`, forwards rows from its channel, and takes the lock again to clean up. Reads keep that
lock while they read, and `Stop` takes it. Locks are queues: tokio's are fair.

**`PlaybooksManager`** (`pyro-daemon/src/playbook/*.rs`, `state.rs`, `server.rs`). Each task has a stack of
calls, since `start_playbook` calls `delete_playbook`, `build_interconnect` calls `start_playbook` and the
updater calls both. A step ends where the task awaits the lock of `workers`, the database, a
directory, a module or a listener; what runs under the lock without letting others see it
(`stop_playbook`, `set_http_address`) is one step, and `delete_playbook`, which removes the
directory under the lock, is two. The updater lists the rows once (`ListUpdates`, kept in `listed`) and
then goes by that list, whatever became of the playbooks since (`FindUpdate`). `wanted` is a history
of how the last start, stop or delete of each playbook ended, whoever made it. `Crash` ends the daemon and starts `resume_active_playbooks`
(`BootResume`, `BootResumed`, `BootPass`). `ListPlaybooks` and `ListCallbacks` are what the lists
answer. A package has two versions. Loading, starting and listening may fail.

**`Capability`** (`capability/process.rs`, `playbook/worker.rs`, `serve.rs`,
`transport/socket/capability/`). A child unlinks and binds its path, the worker looks for the file
(`LookForFile`, `GiveUp`), every instance connects to whatever listens there (`Connect`), a
restart connects new instances to the same child, a stop kills the child and removes the file.
A call registers its client data (`TakeId`, `InsertClient`: a counter, then a map) and runs a
method by position. Children and the daemon may die at any moment; the daemon's death leaves its
children (`orphaned`), and `shared` remembers that a path was used by two workers at once.

**`PyroSocket`** (`transport/socket/socket.rs`, `pyro-daemon/src/server.rs`). Each end has a queue, a
write task, a read task and the channel of `recv`; a call registers itself and enqueues its
frame in two steps, the daemon spawns a task per request. A call is unary, a stream, one the
daemon cannot decode, or one whose answer is too long. `Cut` loses what is on the wire.
**`RemoteCalls`** is what its users rely on: one reliable ordered channel per call.

**`Replay`** (`pyro-daemon/src/data/replay.rs`). A request checks, parses the folder and stores its
handle in three steps; its task goes row by row, or keeps `Concurrency` calls in flight, reads
the cancel signal before each row, and reports. The timer that clears the handle is
`ClearHandle`.

**`ArtifactCache`** (`pyro-artifacts/src/cache.rs`, `build.rs`, `artifacts.rs`, `environment.rs`). A
compile resolves its version, takes a slot, builds, reads cargo's file and writes the version's
files one at a time, truncating each first; a load reads them one at a time; `ship` and the
purges do their own writes and deletions. All slots build into one file (`target`). A process may
crash in any of it. Histories remember which builds were replaced before they were read
(`overtaken`, and `crossed` once they were), and which versions two compiles wrote (`mixed`).

**`ModuleHost`** (`pyroduct/src/module/*.rs`, `pyroduct/src/wasm/*.rs`). The guest's registries and
mutexes are variables, an operation of the instance runs from the entry of the host to its
answer with every effect of the user function in between, and log lines of a capability arrive
on a task of their own. `DropCall` is a call whose HTTP client goes away while it waits for a
capability or a playbook. `Instantiate` only decides which instances there are: what it checks is
what a module needs to be called at all. `owed` counts the inputs of a session that were not
answered by a row, `dropped` keeps the lines that dropped calls left in the store.

**`RowValues`** (`format/value/repair.rs`, `coerce.rs`, `value.rs`, `schema.rs`): values, types, repair,
coercion, inference. **`ModuleTypes`** (`pyro-macro`, `format/value/value/`, the payload code of the
playbook manager): Rust types, the spec read from the source and the one read at run time, JSON,
archives, arguments, answers, sessions. **`WalFrames`** (`format/wal.rs`): the words of a frame and
what a reader makes of what is left of one. **`RowBuffer`** (`format/value/arrow/`,
`wal_to_parquet.rs`): `PushRow`, `Rotate` into an Arrow batch, `Restart` from the log, and export.
Numbers are small integers with scaled widths, floats are counted in halves, texts are words,
numerals and dates.

## 4. Runs

All runs pass. A run's module is `MC<Module>` where its constants need definitions, and the
`.cfg` has the name of the module.

| Run | Instance | Properties, and what they say |
|---|---|---|
| `wal_manager` | 3 tasks, capacity 1, 1 send each, 2 rotations | `RotationDrains`: a loop that ended by itself has written everything it accepted. `AliveKeepsAll`: a live channel has lost nothing. `SealedStaysSealed`: a rotated file never grows. `AcceptedIsWritten` (liveness): a file catches up with everything its channel accepted, unless its loop is told to stop or fails. `JoinReturns` (liveness). `WalTypeOK`, and with it that `total_len`, which is unsigned, never falls below zero |
| `data_manager` | 4 rows, WALs of 2 rows, rollouts of 2 files, 2 providers, 2 ends of the process or 1 and an error | `ReadsSeePushes`: all ways to read agree with the pushes; a restore at any moment, in the middle of a flush or a rollout too, misses and repeats exactly what it names (section 6). `RowsOnDisk`: a row that left the queue is in some file, at every step of a flush and between rollouts. `NoRowTwice`. `GuardedFileStays`: a file a query guards is left alone |
| `log_wal` | segments of 2, batches of 1 and 3, 7 entries, 6 segments, 2 crashes, anywhere in a frame | `IndexFindsEntries`: index, bounds and segments agree, in a log whose process never ended in an append. `AckedEntriesKept`: no acknowledged entry leaves its segment, and a reader finds it in order, unless it was handed in behind a frame cut short |
| `sessions` | both kinds, 2 clients, 3 turns, 2 ids, 1 or 2 active sessions, 1 crash | `StepSeesHistory`: a step runs on exactly the session's rows. `TranscriptsAreWhole`: replies, reads and archive hold what was said. `AckedTurnsKept`: an answered turn is found after any crash but two named ones, of which one is an end inside an append to the session's WAL; after that one the turns are still in the file |
| `playbooks` | 2 clients and the daemon, a playbook and the one it calls, 3 requests or updates, 1 failure, 1 end of the daemon | `AnswersHold`: a playbook is as its last start, stop or delete ended, whoever made it. `CallbacksAgree`: a worker calls each listed callback once. `RunningDirStays`. No deadlock |
| `socket` | 2 calls of any kind, 2 rows, channels of 1, ids to 3 | `OwnFrames`: a caller receives only its own frames. `ImplementsRemoteCalls`: the refinement. `AnswerArrives` (liveness), while the connection stands. `TypeOK`, and with it that no stream's channel holds more than its capacity |
| `replay` | 2 requests, 3 rows, 2 calls in flight | `ReportIsFinal`: the last status is final and true. `StopStartsAtMostOne`. `RunningKeepsHandle`. `HandleGoes` (liveness). `TypeOK` |
| `pipeline` | 2 calls, 2 shards, 1 stream with a channel of 1, 1 read, a stop | `SerialRecordsMatch`: input, log and output of an index belong together. `StreamSeesEveryRow`. `CallReturns` (liveness) |
| `capability` | 2 starts on 1 path, 1 instance, 2 client data, 2 calls | `CallsAreRouted`: a call reaches the process and data it was meant for. `ChildrenHaveOwners`: unless the daemon was killed, also where workers share the path. `StartEnds` (liveness) |
| `artifacts` | 2 compiles and 1 load, 2 slots, 1 ship, purge, crash or failure | `ArtifactsMatch`: what a compile returns is the program of its source, and nobody pairs a spec with an older program. Left out by name are builds another slot replaced before they were read, versions two compiles wrote, and programs cut short |
| `rows` | 24 schemas of one column, 28 rows, 38 Rust types, 3 rows taken, 1 torn append | `AcceptedRowsFlush`: a batch cannot be built exactly if the schema is not `Buildable` or a row `Blocks`; all else that is accepted can be rolled out, and recovered. `StoredRowsReadBack`. `ConversionsAgree`: no way from a request to a stored row changes a value, but that lists of numbers lose their nulls and wrap their integers. `ExportKeepsRows` |
| `module_host` | 3 kinds of module, 2 sessions, 3 calls, dropped ones too, 2 effects | `AnswersAreOwn`: an answer is what its own call did, after the lines of dropped calls. `GuestStateAgrees`: between calls the registries are empty, and the rows of the client, those of the guest and the counts of the host agree |

### Bounds, and why they are enough

- `WalManager`: three tasks give one that holds the old sender, one that waits for room and one
  that sends to the new channel; two rotations give a channel whose predecessor is also
  rotated. Capacity 1 makes every second send wait. One send per task suffices since tasks only
  meet in the channels.
- `DataManager`: two rows per WAL and two Arrow files per rollout are the least that make "first
  of several" differ from "only"; four rows reach a rollout, two providers make the last reader
  differ from the first. With two ends of the process a manager that was not restored may be
  followed by one that is. An error counts against `MaxHalts` too: beside it
  the process ends once. The bounds are shared by all properties: those that
  only hold without an end or a failure say so.
- `LogWal`: batches of three over segments of two rotate inside a batch; seven entries make four
  segments, so that a deletion leaves some in the middle.
- `SessionPipeline`: with one active session every other session's request evicts; with two, two
  requests run side by side. Three turns let a conversation go on after an eviction or a crash,
  and end. `MaxDisturbed = 0` ends the exploration where an id is given to two clients or a
  session in use is evicted: what happens then is in section 6.
- `PlaybooksManager`: three requests or updates are the least for races of two requests about a
  third one's playbook; the caller and the called playbook are the least interconnect. A name
  that two tasks worked on at once is remembered (`raced`) and left out of the invariants about
  settled names; `RunningDirStays` holds for all. Starts give no HTTP address of their own
  (`StartAddrs`) and a socket path (`StartPaths`); the starts of an interconnect give neither.
- `PyroSocket`: calls meet only in the queues and in the maps of ids, so two of any kind show
  every pair; a third id is one that no call has. `Replay`: with two requests one can be checked
  before and stored after the other; three rows are more than the calls in flight.
- `Pipeline`: two calls on two instances overlap everywhere; the channel of one row is full after
  the first. `Capability`: the second start on the path finds what the first left. `MaxTries = 0`
  lets the start give up at its first look; what the other 99 looks would change is when. The one path
  of the run is shared when the starts overlap, and is not when the second comes after the first.
- `ArtifactCache`: two slots let two builds run side by side into the one file they share; a load
  and one event more meet any step of them. Two sources are anonymous, two are shipped under one
  version by a named author.
- `RowBuffer`: one column of each type with values at, inside and beyond the scaled limits (a timestamp
  beyond 64 bits among them);
  three rows give a batch, rows in memory and a restart between them. Torn appends are explored
  for one schema only (`CutSchemas`): frames do not depend on the type. Archives have three sizes,
  and a reader that takes payload for a header finds one of four lengths (`Guesses`).
- `ModuleHost`: a third call runs on what an earlier call and a failed or dropped one left behind.

Symmetry is used for clients, sessions, builders, row indexes and providers, and only in runs
without liveness properties. `CHECK_DEADLOCK FALSE` stands where the bounds let the system stop;
in `playbooks` the only step without work is `Idle`, which needs every task to have none, so a
task that waits for ever is a deadlock TLC reports.

### Fairness

Tokio polls every ready task, so each task's own steps are weakly fair where a run has a
liveness property: a `send` in progress, a loop with a record, a join (`WalManager`); both
background tasks, request tasks and stream tasks (`PyroSocket`); the replay's task, its timer,
and the calls it waits for, which return (`Replay`); the steps of calls, streams and reads
(`Pipeline`); the steps of a worker that starts (`Capability`). Taking a lock is strongly fair in
`Pipeline`: tokio's mutexes serve waiters in order, so a lock that is given up again and again is
got. Nothing promises that anyone calls, sends, stops, disconnects or fails, and those actions
have no fairness. A module that never returns, or a client of a stream that never reads, is
outside these assumptions.

## 5. Refinement and proofs

`PyroSocket` implements `RemoteCalls` (`ImplementsRemoteCalls`): a call is "unasked" until it is
registered, "open" until its caller has its answer, its end of stream or an error, and then
"closed"; what the service issued for it is a history variable of the daemon's tasks, what it
got is what its caller's end holds. Every step of the connection is a step of one call, or
none: queues, ids, drains and cuts are stutters, or close calls.

| Module | Theorem | Property | For every |
|---|---|---|---|
| `PipelineProofs`, on `WalManager` | `WalTypeCorrect` | `WalTypeOK` | set of tasks, capacity, number of sends and rotations |
| | `RotationIsLossless` | `RotationDrains` (and `WrittenInOrder`) | |
| | `AliveChannelLosesNothing` | `AliveKeepsAll` | |
| | `PathHasOneWriter` | `OneWriterPerPath` | |
| | `RotatedFileIsSealed` | `SealedStaysSealed` | |
| `PipelineProofs`, on `LogWal` | `IndexReads` | `IndexFindsEntries` | capacity of a segment, sizes of batches and deletions, number of entries, segments and crashes |
| | `LogEntriesStay` | `AckedEntriesKept` | |
| `ReplayCacheProofs`, on `ArtifactCache` | `NothingOlder` | `NeverOlderProgram`, `CacheTypeOK` | set of compiles, loads, slots and sources, number of calls, loads and events |
| `ReplayCacheProofs`, on `Replay` | `TypeCorrect` | `TypeOK` | set of requests, number of rows and of calls in flight |
| | `StopIsPrompt` | `StopStartsAtMostOne` | |
| | `ReportIsTrue` | `ReportIsFinal` | |
| | `HandleIsKept` | `RunningKeepsHandle` | |
| `PyroSocketProofs` | `TypeCorrect` | `TypeOK` | set of calls of any kind, numbers of rows and ids, capacity |
| | `FramesReachTheirCall` | `OwnFrames` | |
| | `ChannelPerCall` | `ImplementsRemoteCalls` | |
| `DataManagerProofs` | `Guarded` | its `GInv` | set of indices and providers, capacity, number of rows, files, halts and failures |
| | `GuardsHold` | `GuardedFileStays` | |
| | `DiskHasRows` | `RowsOnDisk` | |
| | `NoRowIsTwice` | `NoRowTwice` | |
| `PipelineProofs`, on `Pipeline` | `RecordsMatch` | `SerialRecordsMatch` | set of calls, streams and reads, number of shards, room in a channel |
| | `EveryRowSeen` | `StreamSeesEveryRow` | |
| `SessionPipelineProofs` | `TypeCorrect` | `TypeOK` | kind, schema, set of clients, number of sessions, active ones, turns, disturbances and crashes |
| | `StepsSeeHistory` | `StepSeesHistory` | |
| | `TurnsStay` | `AckedTurnsKept` | |
| `CapabilityProofs` | `CallsRouted` | `CallsAreRouted` | number of starts, paths, instances, client data, calls and looks |
| | `NoOrphans` | `ChildrenHaveOwners` | |
| `ModuleHostProofs` | `OwnAnswers` | `AnswersAreOwn` | set of sessions, number of calls and effects, room for log lines |
| | `GuestAgrees` | `GuestStateAgrees` | |
| `PlaybooksManagerProofs` | `TypeCorrect` | its type invariant | set of playbooks and clients, what calls what, callbacks, addresses, requests, failures and ends |
| | `DirStays` | `RunningDirStays` | |
| | `CallbacksMatch` | `CallbacksAgree` | |
| | `AnswersStand` | `AnswersHold` | |

They rest on the named assumptions about the constants in each module, which TLC evaluates
too, and on nothing else. What the assumptions ask beyond the range of the bounds: sets of
tasks, calls, playbooks and providers are finite; tasks of different kinds are different
(a stream is not a read, the daemon is not a client); `None` is none of the values it stands
beside, and no worker or row either (`NoneAssumption` of `PlaybooksManager`).

**`WalManager`.** `RotationDrains` speaks of a loop that has ended, and nothing in it says
that the queue was empty when the loop left. The inductive invariant `WalInv` adds `Leaving` (a loop
that leaves without a signal has an empty queue, is not the current channel and no task holds
its sender, so nothing can come any more), `Future` (a channel not made yet is untouched, and no
task holds a sender of a later channel) and `LiveLoops` (a live loop is the one whose handle is
kept, or the new one of the rotation under way). One lemma per group of actions shows that it
is preserved; the lemmas on sequences before them state what moving the head of a queue to the
end of a file does to their concatenation.

**`ReplayCacheProofs`.** That nobody pairs a spec with an older program needs to know what older means:
each build has a number, and a build that is still to save may yet be numbered, so the calls bound the
numbers (`Counted`, `Fits`, `Numbered`). A compile writes the program before the spec (`SaverOrdered`);
so in each version the program is not older than the spec, unless it is cut short or gone, and who has
read a spec finds a program that is not older than it, whoever saves or purges meanwhile
(`ReaderOrdered`). A version two compiles wrote is out of this, and so is a program cut short.

Each replay's task has a record, and a step changes one of them. `IInv` is
`TypeOK` and, for each record, `Good`: `Dispatched` (the rows started are those before the next,
each once), `Accounted` (each is counted, in flight, or finished and not counted yet), `Settled`
(why the loop was left, and that nothing is in flight when the status is final) and `StopSeen`
(the one row that may start after a stop had its turn before).

**`PyroSocketProofs`.** Frames carry an id, `OwnFrames` speaks of calls: `IInv` has `IdsDiffer` (two
calls have different ids, all below the next), `Registered` (a map entry is that of the call with
that id), `InFlight` (a frame in any queue or on the wire has the id of the call it is of, or
none), `Handlers` (the daemon's tasks keep the id of their call) and `Received`.

That it implements `RemoteCalls` needs two more: `Waits` (a call is in a map exactly as long as
it is open for its caller) and `InOrder` (what a call received, followed by its frames on the
wire and in the queue, is a beginning of what the daemon sent for it). Each step then maps to one step of `RemoteCalls` or to a
stutter; a cut, and the drain of a read task that ends, close calls.

**`DataManagerProofs`.** That a guarded file stays rests on counting: `active_readers` of a file
is the number of providers that hold a guard on it (`Counted`), so a rollout finds it above
zero, and the reader that takes the file along is the last. A flush writes the file of the
current id, and what is guarded is older (`Older`), after a restart too, since there is always a
WAL newer than every Arrow file (`WalAhead`). For `RowsOnDisk` a row is followed from file to
file (`DInv`): before a WAL is deleted its rows are in the batch in flight and the batch is in
the Arrow file (`WalInFlight`, `FlightInArrow`); an Arrow file waits for a rollout, or is marked
and its rows are already in a Parquet file (`ArrowsListed`, `MarkedAreRead`); and a rollout
writes over no Parquet file, for which the ids must only grow across restarts (`NameIsFree`,
`ParquetsAreLater`). It says nothing after an error, an unclean end, or a manager that was
opened over the directory without `restore`: there rows do get lost (section 6).

`NoRowTwice` holds after errors and unclean ends too, since they only lose rows. What is shown, and
what a flush and a rollout hold in between, are `Places`, and no row is at two of them or
twice at one (`Apart`); a push adds a new row to one place, a step moves the rows of one place to
another (`ApartMoved`), or loses some (`ApartLess`). The lists name files that are there, each
once (`ArrowPaths`, `ParquetPaths`). `restore` lists what it finds in the directory, so after a clean
end the directory must be what its manager knew (`KnownDirectory`). That a concatenation of such files
has each row once is an induction over their number (`AllNumbers`, from the library's theorem on
well-founded relations, which takes a relation and no operator). Left out are managers restored after
an error, and managers restored after one that was opened without `restore`: the run with two
ends of the process showed that one of those may roll out into a Parquet file that is listed already.

**`LogWal`.** Both properties speak of a log between operations; `LogInv` says what holds inside
them and after a crash. *Files*: all segments before the active one are full (`Disk`), the
active one and its buffer have `current_entries` (`Writers`), and each index is that of its
segment or what its buffer still holds is missing (`IndexFiles`). *Deletions*: the segments that
stay have no gap (`Convex`, `Oldest`), what is marked for removal was to go (`Deletion`); a deletion
cut short leaves gaps, and then all entries before a gap were to go (`Gaps`). *Entries*: they are in
the order of their numbers across files, buffer and the rest of the batch (`Ordered`), and an
acknowledged one is in a file, one of the batch in a file or still to come (`Survive`). *Frames cut
short*: what is still to be written when there is one was handed in behind it, and so all that lies
behind one on disk is `hidden` (`Tears`). Where `open` counted behind such a frame its numbers
are not those of the entries; the invariant ties counters to segments only as long as it has not
(`miscounted`), and a deletion then removes what its numbers say. That `get(i)`
finds the entry the sequential reader counts as the i-th takes a lemma of counting
(`EntriesAfter`): without gaps, what lies before an entry is a number of full
segments and its offset.

**`SessionPipelineProofs`.** A step sees its session's history because the three copies of the
rows, on disk, in the active session and in the module, agree whenever no request is under
way (`Idle`), and in a request differ by what its place says (`InCall`). That needs one request per
session: `OneUser`. It holds for sessions that were not disturbed, that is, whose id was not
given to two clients, that were not evicted in use and whose WAL has no frame that an end of the
process cut short; there the code fails (section 6), and `Undisturbed` excludes that session and no
other. `Listed` says what the table knows, on which
the choice of a free id rests. For `AckedTurnsKept`, `CallKept` says where the rows the answer
will vouch for are at each place: in the call, then in the WAL, then in the archive, before the
WAL is removed.

**`Pipeline`.** `Rows` says which calls have a row in the inputs, the outputs and the log, one
each (`OneEach`), with their index (`Indexed`). `SInv` says of each stream what its channel and its
client hold while the callbacks of a call are half made: all rows since it was accepted, but
for the one its lock's holder has still to send (`Complete`), for which it must be listed once
and only from then on (`Listed`).

**`CapabilityProofs`.** `PInv` says that the file at a path is named after the path its child was
given (`FilesNamed`), that a living child has a worker that is not gone (`Lifetimes`), and that
such workers have different paths unless two were at one path at once (`PathsApart`); so what
listens at a worker's path is its own child, or else a child of that path. That a child that lives
has its worker needs no such condition: whatever other workers do at its path, only an end of the
daemon (`orphaned`) takes a worker away without its child. `Routing` says what a router and its clients agree on while a registration is under
way: a number that was taken has no data and no second taker, one in use has the data it was
cached for.

**`ModuleHostProofs`.** Both sides hold the same rows of each session, but for the one of a step
that has returned and is not read yet (`SessionsAgree`); a panic the guest kept belongs to the
call that is cut off, or a session's mutex is held for good (`Registries`, `Outcomes`); the log
lines of a call are those in the channel, the buffer and the answer, in order, and behind those that
dropped calls left (`ModuleLines`, `CapabilityLines`). The counts of the host, the inputs owed an
answer and a row that has been returned and not read add up to the rows of the guest
(`Counts`); for a conversation that is one list it is their sum that agrees.

**`PlaybooksManagerProofs`.** Tasks have stacks of calls of any depth, since what calls what may be
cyclic. `Base` says which places a frame may be at and that only the innermost runs (`Stacks`), that
a playbook nobody raced for has one task working on it (`Alone`), and that only
`delete_playbook` keeps the lock of `workers` over a wait, with its worker out of the map
(`Locked`): the last gives `RunningDirStays`. `Callbacks` follows a callback from the table to the
worker while either is behind.

`AnswersHold` speaks of playbooks nobody works on. What it claims depends on how the last start, stop
or delete of the playbook ended, and those made by a caller's start, by a resumption or by an
update from an old list count like those of a client. Its first claims, that a started playbook's row
says running, that its worker is what the row says and is heard at its path, and that what was
stopped or deleted stays so, come from `Sound`: at each place of a call, `Frames` says where its
playbook is in the map, the tables, the sockets and on disk. Calls of one playbook would disturb
each other, and one stack may hold two starts of it when what calls what is cyclic; `Chains`, that
each call is of the playbook the one under it needs, shows that such a start never gets to build a
worker (`Endless`), so that `Frames` may leave it out. The last claim, that a started playbook is listed
again once the daemon serves, is about the end of the daemon. `Lives` says that a row which says
running has a worker, one about to be put into the map, or its resumption to come. A resumption
might fail for two reasons, both excluded unless a step failed, requests raced, or a playbook
that is called was updated: the address is taken (`Apart`: rows that run have addresses of their
own; while the daemon serves each is that of a worker, and `Https` holds, and until then no row
comes to run or gets an address, by `BootRows` and `BootTop`), or the playbook that a module calls
does not start (`BootTop`, and `Vers`, without which a running one of another version would be a
conflict). The inductive invariant is the conjunction `Sound`, `Vers`, `Https`, `Apart` and `Life`,
the last of which is `Lives`, `BootRows` and `BootTop`.

Only model-checked:

- liveness and the absence of deadlock: the prover has no rules for fairness here, nor for
  ENABLED;
- of `DataManager`, `ReadsSeePushes`: it says what folds and sums over files compute, and it holds
  for fewer than ten files only, since names are ordered as text (section 6);
- of `SessionPipeline`, `TranscriptsAreWhole`;
- of `ArtifactCache`, `OwnProgram`;
- `RowBuffer`, and what the recursive definitions of `RowValues`, `ModuleTypes` and `WalFrames`
  compute.

## 6. Where the code disagrees with itself

Met while modelling, or while asking what a property leaves out. The modules do what the code does;
the properties leave the cases out by name, or are stated so that they hold with them.

- *Rows.* `get_record` after a rollout of several WALs returns a row of another (`data.rs:1108`). A
  restore while a flush is between the new WAL and the Arrow file misses a batch (`data.rs:762`). In a
  rollout the rows of the Arrow files it has read are in no file until the Parquet file is
  written (`data.rs:921`, `930`); a restore then misses them, and an end of the process loses them. A restore while
  the deletion of Arrow files waits for their readers shows their rows twice, from Arrow and from
  Parquet (`data.rs:237`). A rotation that meets an error of the writer has dropped the batch it took
  (`data.rs:765`, `arrow/wal.rs:325`); a push whose send fails returns an error and leaves its row in
  memory (`arrow/wal.rs:251`); a WAL that does not open costs its id (`data.rs:683`).
  `restore` sorts paths as text, so that from the tenth file on its reads are out of push order
  (`data.rs:237`). A pipeline that is resumed without `restore` writes over `wal_1`
  (`data.rs:683`); a manager restored after it may write over a Parquet file and list it twice
  (`data.rs:939`). The index of a row is `len()`, not reserved: two calls take the same
  (`normal.rs:79`).
- *Rows that block.* Some rows that a push accepts can not be built into a batch, and block every later
  flush: nulls in columns of a struct, or elements of a list, that are not nullable, and any list of
  numbers in a type that is not nullable (`record_batch.rs:271`); schemas with fixed lists or maps
  always (`record_batch.rs:520`). Nulls vanish from lists of numbers (`repair.rs:614`), and integers
  beyond the type of a list wrap where a scalar is refused (`repair.rs:536`). Timestamps of 128 bits are
  cut to 64 in a batch (`record_batch.rs:440`).
- *Sessions.* Two new conversations may get one id (`server.rs:433`). A session evicted in its
  step is refused as closed, its status stays, and it is never archived (`session.rs:667`). A late
  call of a session that has ended marks it failed, so that `list_sessions` and `get` show a
  failure (`session.rs:628`). A WAL that cannot be read is taken for an empty one (`session.rs:386`,
  `424`, `session_diff.rs:269`, `321`). An end of the process inside an append leaves a frame cut short,
  and the resumed session appends behind it (`wal.rs:158`): turns that were answered later are
  not found, or with them the whole session, and what the WAL does not give is not rolled up.
- *Roll-up.* `PipelineServer` opens the output manager of a session_diff with the schema of one
  output (`server.rs:209`). A struct of one field becomes its value (`session.rs:428`). Struct
  inputs of a session_diff have no field in the schema (`factory.rs:258`). A session of numbers
  reads back as a list that `unpack_session` drops (`session.rs:799`).
- *Modules.* A session whose output has a name and is a struct fails on its second turn. A slice
  parameter has the type Null (`struct_doc.rs:286`). `SchemaBuilder` and `Typeable` differ about
  `usize` and lists of options (`struct_doc.rs:228`). A list of Bools is archived as U8
  (`v_from.rs:452`). JSON lists and texts take the first type that fits (`value.rs:35`, `700`).
- *Log of rows.* A torn append is not truncated, and later frames are read as its payload
  (`wal.rs:158`); missing padding makes the reader panic (`wal.rs:558`).
- *Execution log.* An entry is written in three pieces through a buffer of 8 KB (`log_wal.rs:256`,
  `293`), so an end of the process may cut one short anywhere. `open` does not truncate
  (`log_wal.rs:122`, `182`): what is appended behind is read as the rest of the cut entry and ends the
  reader with a failed checksum, `open` counts wrong, and with it the index and later deletions.
- *Daemon.* A stopped playbook is deleted, with its data, and started anew by the start, or the
  resumption, of a playbook that calls it (`interconnect.rs:94`, `manager.rs:461`). When an update
  and its rollback both fail the playbook is forgotten (`manager.rs:1371`). An update goes by a list
  made once (`manager.rs:1250`), and starts playbooks that were stopped or deleted while others were
  updated (`manager.rs:1312`). A callback that is added or deleted while its playbook starts is
  missed, kept or registered twice (`manager.rs:569`). A `set_http_address` that cannot listen on the new address leaves the row with the old
  one, which the worker has given up (`worker.rs:135`). An update deletes directory, row and callbacks of the playbook before the new version
  runs (`manager.rs:462`, `1334`). Two replays of one playbook may run (`replay.rs:58`). A stream's
  clean-up waits for the lock of `workers` while a callback waits for its room (`stream.rs:78`). The
  read task of a socket ends without telling who waits (`socket.rs:160`).
- *Builds.* All slots build into one file (`build.rs:382`), of four by default (`build.rs:103`): a compile
  may read another's program. A version found free is not reserved (`build.rs:247`), and two compiles
  write it file by file; a save that fails on the way leaves a binary beside another source. A
  process that dies in the write of the program over an older version (`artifacts.rs:1042`) leaves
  a program cut short under a spec that is whole, which is returned as found (`build.rs:258`). The
  manifest saved with a binary has no dependencies (`artifacts.rs:1071`), so that a version
  of a source with some is not found again.
- *Host.* After a trap in a session's step every later operation of the instance fails
  (`wasm/mod.rs:461`). Logs of a failed step are lost (`sessions.rs:144`). A user error of
  `register` is taken for success (`wasm/mod.rs:760`). The assertions that the host's counts of a session are the guest's
  (`sessions.rs:256`, `300`) do not hold after a session with rows was prepared, for a conversation that
  keeps inputs and outputs in one list, or after a step that failed. A call whose HTTP client
  disconnects is dropped where it waits (`transport/http/server.rs:38`): its log lines go to the
  next answer, and a session's mutex stays held, after which every operation on sessions fails.

## 7. Not modelled

- SQL over the data: DataFusion does the work; the guards its table provider holds are in
  `DataManager`. The GUI and most commands of the CLI are clients without state.
- Layout of bytes: rkyv archives, `vec_buf`, messages of the socket, Parquet. `WalFrames` counts
  the words of a frame, since torn appends depend on them.
- In the formats: NaN, infinities, rounding, F16 in JSON, duplicate keys,
  order of columns, arrays of foreign files.
- `process()` with rows of the caller, `close_session`, `LogManager`, `PipelinePool`,
  `start_periodic_restart`, `CapabilityManager::start_capability` and tarballs: nothing in the
  daemon or the CLI calls them.
- Socket and playbook callbacks, bulk calls, the TCP variant of capabilities.
- Failures of files and of the database outside `DataManager`, `ArtifactCache` and `WalManager`;
  `LogWal` and `SessionPipeline` have ends of the process at any write, but no write that fails and
  returns.
- Dropped calls outside `ModuleHost`: that a pipeline keeps the input of such a call without output
  and log, and that a session keeps its turn. The daemon drops none of its own tasks.
- Pointers out of bounds and growth of buffers in the host.
- The wrap of message ids after 2^32 calls, `shutdown()` and split halves of a socket.
