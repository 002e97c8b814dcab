# TLA+ models of porla

porla is a BitTorrent daemon built on libtorrent. This directory holds TLA+
models of its control logic and the TLC configurations that check them.
Every definition is translated from the C++ under `src/`. `PROJECT.json` maps
each definition to the lines it models, lists the runs and their mutants, and
records the findings and hazards.

## The system

The parts and how they interact:

* **Session Supervisor** (`src/src/session.cpp`, `Session`) owns these:
  * the libtorrent session (the *engine*);
  * `m_torrents`, the map from info hash to torrent handle;
  * the one-shot callbacks of `Recheck`;
  * the database connection.

  It handles the user operations: `Load`, `AddTorrent`, `Pause`, `Resume`,
  `Recheck`, `Remove` and the settings calls. Its destructor
  saves the resume data of every torrent, in chunks.
* **Alert Dispatcher** (`Session::ReadAlerts`). The engine queues alerts and
  calls the notify callback. That callback *posts* `ReadAlerts` to the single
  `io_context` thread. `ReadAlerts` pops the whole queue and handles each alert
  in order.
* **Persistence Store** (the SQLite `torrents` table, through
  `AddTorrentParams`). The schema is versioned by `PRAGMA user_version`, which
  `src/src/data/migrate.cpp` maintains.
* **Media-info Prefetcher** (the prefetch part of `AddTorrent`, the
  `piece_finished` handler, and the staggered flag in `torrent_finished`).
* **Workflow Runner** (`src/src/workflows/workflow.cpp`). It runs the steps of
  a workflow in order. Each action reports completion through a callback.
* **Session params file** (`ReadSessionParams` and `WriteSessionParams`).
* **Timers** (`Session::Timer` and `m_timers`). The constructor starts up to
  three periodic timers that ask the engine for statistics; `~Session` clears
  them.

Everything in the daemon runs on one event-loop thread. The concurrency the
model has to cover comes from three sources:

* the engine, which works on its own threads and reports back through alerts;
* the posted `ReadAlerts` calls, which interleave with user operations;
* the destructor's synchronous `wait_for_alert` loop.

## Modules

### `Session.tla`: supervisor, dispatcher and torrents table

| Model | Code |
|---|---|
| `phase` | the daemon's lifetime: `created`, `running`, `saving` (inside `~Session`), `stopped`, `aborted` (an exception escaped `ReadAlerts` or the destructor), `crashed`, `startfailed` (`ReadSessionParams` threw at the next start) |
| `engine`, `gen`, `flags`, `meta`, `checking`, `ver`, `dirty` | the engine's torrents. `gen[h]` numbers the successive torrents added under info hash `h`, so a handle to a removed torrent stays distinguishable from a new one. `ver[h]` is the version of the torrent's resume state. |
| `queue` | the engine's alert queue. Alerts are `[kind, h, g, v]`. |
| `batch` | the alerts that `ReadAlerts` popped and has not yet handled. Each handler is its own action. A user operation can only run when `batch` is empty (`LoopIdle`), because `ReadAlerts` runs to completion on the event-loop thread. |
| `tmap` | `m_torrents`: info hash ↦ the generation of the stored handle |
| `db` | the torrents table: info hash ↦ the `[g, v]` of the stored resume data |
| `callbacks` | `m_oneshot_torrent_callbacks[(torrent_checked, h)]`: for each callback, the handle generation it was registered on and its captured `was_auto_managed` and `was_paused` |
| `order`, `chunks`, `chunk`, `outstanding` | the locals of `~Session` |
| `paramsFile` | `session_params.dat`: absent, complete, or `partial` (truncated by a crash or a failed write) |
| `requested`, `failedLog`, `seen` | history variables: saves that `~Session` requested, saves whose failure it logged, and the flags the first pending `Recheck` saw |

User operations are actions guarded by `LoopIdle`: `Load`, `AddTorrent(h)`,
`Recheck(h)`, `Remove(h)`, `Pause` and `Resume`.

The engine is the environment and is modelled as these actions:

* `EngineCheckDone` (a check finishes);
* `EngineMetadata`;
* `EngineProgress` (the resume state changes, and a `torrent_finished` may be queued);
* `EngineAnswerSave` (answers a save request with `save_resume_data`, or with `save_resume_data_failed` when nothing changed or on an I/O error);
* `EngineStorageMoved` (a `move_storage` a client asked for completes; the save path, and so the resume state, changes, bounded with the downloads by `MaxVer`).

`Recheck` of a paused torrent resumes it, and the callback's `pause()` pauses
it again: these post `torrent_resumed` and `torrent_paused` (`PostStatus`).
Those two are the only alerts modelled as droppable: libtorrent's alert
manager drops an alert that does not fit in `alert_queue_size`, and their
handlers only read the status. For every other alert the engine step waits
for room instead.

Each handler is an action: `OnTorrentChecked`, `OnSaveResumeData`,
`OnMetadataReceived`, `OnTorrentFinished`, `OnStorageMoved`,
`OnTorrentPaused`, `OnTorrentResumed`, `OnTorrentRemoved` and `OnIgnored`.
A handler that calls `status()`, `need_save_resume_data()` or
`save_resume_data()` on the handle of a torrent that is gone throws
(`Throw`); nothing catches it, and the process ends (`phase = "aborted"`).

The destructor is split into three actions:

* `ShutdownBegin`: pause the session, fix the iteration order and the chunk count;
* `ShutdownChunk`: request saves. It first calls `status()` on each handle, and aborts if a handle is dead;
* `ShutdownWait`: one `pop_alerts` of the wait loop.

`ShutdownBegin` also writes `session_params.dat` (`WriteSessionParams`): the
open may fail (the file stays as it was), the write may complete, or it may
fail and leave a truncated file. The process-level actions are `Crash`,
`CrashWritingParams` (killed during that write), `Restart` (the next start;
`ReadSessionParams` throws on a truncated file) and `Exited`.

### `MC_Session.tla`, `MC_Session*.cfg`

These give the constants their values: one info hash (`h1`), chunks of one
torrent, two torrent generations, two resume versions, an alert queue of two
and two stacked callbacks.

Why these bounds are enough:

* Two generations make every remove/re-add race reachable.
* Two versions make stale saves reachable.
* Queue and callback bounds of two allow a stale alert beside a current one, and stacked `Recheck`s.

A second info hash only multiplies the states: no code path relates two
torrents except `~Session`'s chunking, and chunks of one torrent already
exercise its chunk loop.

### `Workflow.tla`: one run of a workflow

This module covers `ShouldExecute`, `Execute` and `LoopingWorkflowRunner`.

* The condition is abstracted to its JSON type and whether it is zero. `Falsy` is the code's `false || nullptr || 0` test.
* `Execute` rejects an unknown action name before any step runs.
* `ActionBody` is the action of the innermost `Invoke` frame. It does one of the things the action contract allows:
  * complete synchronously (`sync`; the module also knows `sync_throw`, complete then throw, which the spec's contract rules out and no run uses);
  * keep the callback (`async`, later `Deliver(j)` from the event loop);
  * throw;
  * never call back.
* `CompleteBody` is `Complete`: it appends the output, advances `m_current_index`, and calls `Run`, which pushes a new frame. So synchronous steps nest on `stack`, just as they nest on the C++ stack.
* `Raise` is an exception. It is caught by the innermost frame's `Run`, or escapes to `Execute`'s caller when no frame is left.
* `MC_Workflow.tla` gives two events, conditions of every JSON type, and documents of one to three steps.
* `Abstract` instantiates `WorkflowSpec` with the refinement mapping: the stage is `status`, except that a run whose `Run` has logged an exception is `halted`; the cursor is `Len(outputs)`; a step is executing when more steps were invoked than completed. `WorkflowRefinesSpec` checks `Abstract!Spec`.

### `WorkflowSpec.tla`: what a workflow run promises

The run of spec 4.F without stacks, frames or callbacks: `Trigger` (run or skip), `Resolve` (reject, or invoke the first step), `CompleteStep` (append an output, invoke the next step unless the cursor is past the end) and `Halt` (the executing step threw). At most one step executes at a time, and nothing happens after the run is halted. It has no fairness: an action may never call back.

### `Migrate.tla`: schema migration at start-up

This module covers `porla::Data::Migrate` across repeated daemon starts.

* `Start(s)` starts a build that knows `s` migrations. `MigrationStep` runs one migration, which succeeds or fails. `Finish` writes `user_version`, and that write may fail, since its result is ignored. `Crash` dies between migrations, and `Stop` exits.
* `applied[k]` counts how many times migration `k` made its changes.
* `MC_Migrate_rerun.cfg` runs one build of three migrations; `daemon_core` checks the module's other properties inside `Daemon`.

### `Timers.tla`: the periodic timers

This module covers `Session::Timer` and the `std::vector` `m_timers` that holds them.

* A *wait* is a pending `async_wait`, recorded as a triple:
  * the deadline timer it is queued on, named by the `Timer` object that now owns it;
  * the object its handler's captured `this` names;
  * its state: `armed`, `ready` (expired, so its handler is queued with success) or `aborted` (cancelled).
* `EmplaceBack` is one `m_timers.emplace_back`. When the storage is full it doubles, as libstdc++ does. It relocates every element with the move constructor `MoveTimer` and destroys the old objects. `MoveTimer` takes over the deadline timer and its wait, whose handler still names the old object. It cancels that wait and arms one for itself.
* `Construct` is `Session::Session`: one emplace per timer whose interval is not 0. It is a single step, because the constructor runs on the event-loop thread and no handler can run in between.
* `Expire` is the environment: any armed wait's interval may pass. Intervals are abstracted.
* `OnExpired` runs a queued handler. An aborted handler returns at once. Otherwise it calls the callback and re-arms.
* `Destroy` is `m_timers.clear()`.

### `Daemon.tla`: start-up composed

This module composes `Migrate` and `Timers` through named `INSTANCE`s (`M`, `T`), in the order `main` runs them across starts:

1. migrations;
2. when they succeed, the `Session` with its timers;
3. `~Session`;
4. the process exit.

`main` is not under `src/`, so `SessionStart` and `Exit` are modelled from the spec. `MC_Daemon.tla` names the three timers. It runs builds of two and three migrations over four starts.

### `PrefetchSpec.tla`: what the prefetcher promises

The abstract specification of spec 4.D, for one torrent. `stage` is `init`,
`off` (no media file selected), `prefetch` or `done`. During the prefetch
only the leading pieces of the chosen media files (`Lead`, a `RECURSIVE`
operator) may be downloaded. A file is parsed once its leading pieces are on
disk, and the prefetch ends once all of them are. `Spec` is weakly fair on
setting up, ending and downloading, so every torrent is eventually downloaded
in full.

### `Prefetch.tla`: the media-info prefetcher

This module covers the prefetch part of `Session::AddTorrent`, the `piece_finished` handler, and the staggered flag of the `torrent_finished` handler.

* `Ask` is the code's `while` loop over pieces, as a `RECURSIVE` operator. `SpecAsk` is the spec's per-file selection, and `SelectionMatchesSpec` checks the code against it.
* `Abstract == INSTANCE PrefetchSpec WITH stage <- AbsStage, ...` maps the code's state to the abstract one: not added is `init`, `enabled` is `prefetch`, a posted media-info event is `done`, and otherwise `off`. `PrefetchRefinesSpec` (the abstract `Spec`, fairness included) is checked as a property.
* The engine is `Download(p)`. It downloads a piece whose priority is not `dont_download`, queues `piece_finished`, and queues `torrent_finished` when the last wanted piece arrives.
* `MC_Prefetch.tla` defines file layouts in unit-size pieces:
  * one media file;
  * a media file shorter than the wanted size;
  * two media files;
  * a long media file among other files.

## Runs

| Run | Expect | What it shows |
|---|---|---|
| `session_core` | pass | See below. 1.68M distinct states, about 2 min. |
| `stale_save` | violation | `~Session` counts a save answer that was requested *before* shutdown as the answer to its own request. It then returns with older resume data stored than the engine holds (`session.cpp:276`). |
| `remove_then_exit` | violation | A torrent is removed and the daemon stops before `torrent_removed` is handled. `~Session` calls `status()` on the dead handle before `is_valid()`, and throws out of the destructor (`session.cpp:224`). |
| `readd_race` | violation | `Remove(h)` is followed by `AddTorrent(h)` before `torrent_removed` is handled. The handler then erases the new torrent's row and handle (`session.cpp:731`). |
| `workflow_core` | pass | Documents of 1 to 3 steps, with actions that complete synchronously or asynchronously, throw, or never call back. Steps run once each and in order, no exception leaves the runner, a run whose actions all complete finishes, and the nested frames and asynchronous completions implement `WorkflowSpec` (`WorkflowRefinesSpec`: one step at a time, a throwing action halts the run). 25k states. |
| `workflow_empty` | violation | A document with no steps: `Run` calls `m_step_instances.at(0)` outside its `try`, and `std::out_of_range` reaches the event's publisher. |
| `daemon_core` | pass | Covers crashes, failed migrations, failed version writes, and older and newer builds, each start followed by a `Session` with any subset of the timers. `user_version` never claims a migration that was not made, and the daemon never runs on a partly migrated schema. No handler that can get past the `operation_aborted` test names a `Timer` destroyed by the vector's relocation (`NoCallbackOnDeadTimer`). Every started timer keeps firing while its `Session` lives (`TimersKeepFiring`). 39.5k states. |
| `migrate_rerun` | violation | `user_version` is written only after the last migration. After a crash or a failed migration, the next start runs the earlier migrations again. |
| `params_crash` | violation | The daemon is killed while `~Session` rewrites `session_params.dat` in place (`ios::trunc`). The next start's `ReadSessionParams` reads the truncated file and throws, and the daemon cannot start (`session.cpp:128`). |
| `prefetch_core` | pass | The torrent has one long media file, and some other pieces may already be on disk. The selection matches the spec's, and the code refines `PrefetchSpec`: it downloads only the leading pieces during the prefetch, parses before ending, and eventually downloads everything. |
| `prefetch_staggered` | violation | `mediainfo_enabled_staggered` is never cleared, so the `torrent_finished` of the full download is suppressed too. |
| `prefetch_two_media` | violation | With two media files, only the last one is tracked (the map is overwritten). The first finished piece of the other file ends the prefetch with nothing parsed. |

The `session_core` run checks these properties:

* `SessionMapTracksStore`: while running, `m_torrents` and the table hold the same hashes, and every dead handle still has its `torrent_removed` to come.
* `RecheckRestoresFlags`: `torrent_checked` restores the flags seen before the first stacked `Recheck`.
* `ResumeDataNeverRegresses`: stored resume data of one torrent never goes back to an older version.
* `ShutdownCompletes`: the destructor's wait loop terminates.

`remove_then_exit` checks `NeverTerminates`: no exception ends the process.
The same property is violated through the alert handlers (a `Remove` whose
`torrent_removed` is still queued behind a `metadata_received`), which the
hazard list records; TLC reports the shorter destructor trace.

Every property of a passing run has a mutant in `PROJECT.json` that breaks it. Each mutant is a plausible bug in the code it replaces, for example:

* a stale handle stored;
* alerts handled in reverse order;
* `Run` called before the cursor advances;
* an off-by-one in the `Done` check;
* a catch block that continues with the next step;
* a migration whose result is unchecked;
* the version recorded before the migrations run;
* the loop asking one piece past the wanted size;
* `completed` not cleared at the end.

### Bounds

* **Workflow.** Three steps give a synchronous chain nested two frames deep beside an asynchronous step.
* **Migrate.** Four starts give a crash, a re-run and a second build in one behaviour.
* **Timers.** All three timers make the vector grow twice (capacity 1, then 2, then 4). The second growth relocates two armed timers, one of them already relocated once. `MaxObj = 6` is exactly the number of objects this creates.
* **Prefetch.** Six pieces with `Preexisting` in `{{}, {2}, {4,5}}` put pieces on disk outside and at the media file. The violation configurations each use the smallest layout that exposes their case.

### Fairness

`Session`'s `Spec` assumes weak fairness on:

* the engine finishing a check and answering a save request, which libtorrent always does;
* the handling of alerts (`ReadAlerts` is posted by the notify callback for every non-empty queue);
* the destructor's steps;
* `Load`, which `main` calls right after construction.

Fairness is weak, not strong, because the environment is bounded the way the
code bounds it: storage moves share the resume-version bound with downloads,
and status alerts are dropped rather than waited for, so the bounded alert
queue cannot starve the engine's answers forever.

User operations, progress, moves, metadata, crashes and restarts are not fair: the daemon may sit idle forever.

`Workflow` assumes weak fairness on every step of the event-loop thread. It also assumes it on `Deliver`: the action contract requires an asynchronous action to call back exactly once. `AllStepsComplete` is stated only for actions that do complete.

`Daemon` assumes weak fairness on constructing the `Session` after a successful migration (`main` does so at once), on each timer's wait expiring (its interval passes), and on the io_context running each queued handler. `Migrate` alone has no fairness.

`Prefetch` assumes weak fairness on the engine downloading wanted pieces and on alert handling. `PrefetchSpec` is weakly fair on each step, and `PrefetchRefinesSpec` checks that the code's fairness implies it.

## Not modelled, and why

* **Expression Renderer**: `TextRenderer` is not under `src/`.
* **HTTP login handler** (`src/unnamed/part_000`): only a declaration.
* **CI** (`beta.yaml`): build configuration.
* **`Session::ApplySettings`, `Settings`, `Torrents`**: the first forwards a `settings_pack` to the engine, and no modelled state depends on settings; the other two are getters.
* **Dropped status alerts reaching subscribers**: `Session` lets `torrent_paused`/`torrent_resumed` be dropped when the alert queue is full, as libtorrent does, but the signals to subscribers are not modelled, so nothing states that every pause or resume is reported.
* **Statistics alerts**: the timers' requests come back as `session_stats`, `dht_stats` and `state_update` alerts, which only forward data to signal subscribers outside `src/`.
* **Handlers run after `~Session`**: a timer wait that had already expired when `m_timers.clear()` ran keeps its queued success handler. Whether the io_context runs it after the destructor is up to `main`, so this is a hazard without a property.
* **Reading a workflow file** (`Workflow::LoadFromFile`): the file is read into a buffer with no NUL terminator and handed to `LoadFromYaml` as a C string, and a missing file makes `resize(-1)` throw. Both are conversions of bytes, listed as hazards; `Workflow` starts from the parsed document.
* **libtorrent's asynchronous removal**: `Remove` takes the torrent out of the engine in the same step, so a handle that is still valid at `~Session`'s `status()` call (line 224) while its `torrent_removed` waits in the queue is not a state of the model; the hazard of the wait loop discarding that alert (line 256) has no property.
* **Calls on hashes not in `m_torrents`**: `Recheck` and `Remove` are enabled only for a valid handle; their callers, which could pass any hash to `m_torrents.at`, are not under `src/`.
* **The libtorrent queue manager**: it pauses and resumes auto-managed torrents according to limits and peers outside this code.
* **The prefetch setup in `Session`**: `AddTorrent`'s media-info branch is modelled in `Prefetch`; `Session` leaves it out, so the null `torrent_file()` of a magnet link (`session.cpp:347`) is a hazard without a run.
* `AddTorrentParams` is not under `src/`. Its `Update` (an UPDATE that does nothing when the row is absent) and `Remove` are modelled from the spec and marked `spec_modelled`.

Some disagreements are reachable in the models but are not checked by a run. `PROJECT.json` lists them as hazards with a note:

* a `Recheck` callback firing for a torrent re-added under the same hash;
* the prefetch loop bounded by the torrent's end rather than the file's;
* an older build writing a smaller `user_version`;
* a float `0.0` condition counting as false, where spec 4.E makes only the integer 0 falsy;

## Plan

1. **Done: Session core**, with the alert handlers that throw on dead handles.
2. **Done: Prefetch**, with its abstract specification and the refinement.
3. **Done: Workflow**, with its abstract specification `WorkflowSpec` and the refinement.
4. **Done: Migrate**, composed with the **Timers** in `Daemon`.
5. **Done: SessionParams.** The truncating write, a crash during it, and the next start.
6. **Refinement of the torrents table.** An abstract specification: a torrent is in the table iff it was added and not removed, and its data is its latest saved state. `Session` is shown to implement it, over the behaviours without the races found above.
7. **Workflow inside Session.** Compose `Workflow` with the session events that trigger it (torrent-added, torrent-finished, torrent-mediainfo), so that workflow runs interleave with alert handling.
