# Takanawa in TLA+

Specifications, model-checking runs and proofs for
[Takanawa](../src/README.md), a library that downloads a file by HTTP ranges in
parallel chunks and keeps what it has in a `.part` file, so that an interrupted
download resumes. The code is Rust (`src/crates`), with bindings for C, Node,
Tauri, Capacitor, Godot, Android, Swift and C#.

- [The system](#the-system): parts, state, operations, how they interact
- [The modules](#the-modules): what models what
- [The runs](#the-runs): what TLC checks, and within which bounds
- [The proofs](#the-proofs): what TLAPS proves, and along which argument
- [What the models found](#what-the-models-found)
- [Assumptions and limits](#assumptions-and-limits)
- [Not modelled](#not-modelled)

To check a run: `tlc -config Engine.cfg MCDownloadEngine.tla`. To check a proof:
`tlapm PartFileProofs.tla`.

## The system

```
 C ABI, Node, Tauri, Godot, ...      one handle per download, callbacks out
        |
 DownloadHandle   start_on, pause, cancel, drop   <- any thread
        |  spawns one background task; two atomic flags; a join handle
 run_download     probe -> open the part file -> loop -> verify -> finalize
        |    \__ chunk tasks (JoinSet): request a range, stream it, retry
        |          |  one IoLimiter and one bandwidth limiter for all
        |          v  bounded channel: Write, Commit
        |        writer thread
        v          v
 PartFile         content | slot 0 | slot 1, a lock file beside it
        
 SharedState      lifecycle phase, progress, speed; throttled callbacks
```

### Components

**Part file** (`takanawa-core/src/part_file.rs`, `metadata.rs`). State: the file
(content, then two metadata slots with a generation, a bitmap and a CRC each),
the open `PartFile` with its copy of the metadata, a lock file. Operations:
`open_or_create`, `write_chunk_bytes`, `commit_chunk`, `finalize`. Hard: a process
or the machine stops between any two system calls; two processes want the same
target. Right when a chunk marked complete is durable, an acknowledged commit
survives, a target appears only whole, and no two work on one part file.

**Chunk plan and bitmap** (`chunk.rs`, `bitmap.rs`). Pure arithmetic over lengths,
chunk sizes and bit positions. Right when the chunks tile the content (the short
last one and the empty resource included), marking one marks no other, and the
progress in bytes is what the bitmap says.

**Remote resource** (`downloader.rs` `probe_once`, `fetch_chunk_once`, the
`validate_*` functions, `content_range.rs`; `metadata.rs` `ensure_compatible`).
State: what the probe said, what the part file's metadata remembers. Hard: the
resource changes between runs and within one; servers send other ranges than
asked for, and short or broken bodies. Right when every byte lands at its offset
and content of two versions is not passed off as one where the code can tell.

**Download handle and lifecycle** (`downloader.rs` 233-406, `state.rs` 218-341).
State: phase, pause and cancel flags, the join handle behind a mutex. Operations:
`start_on`, `pause`, `cancel`, `Drop`, by any thread. Hard: each request is
several steps on several variables, and the task it is about reads the flags at
its own pace. Right when there is one task at a time, requests are neither lost
nor outlive their run, and the phase at rest says what happened.

**Download engine** (`downloader.rs` 419-658, 710-764, 860-942). State: a JoinSet of
chunk tasks, a bounded channel, a writer thread, the metadata shown as progress.
Hard: retries leave writes of the failed attempt in the queue; the writer fails
under tasks that only see a closed channel; every way out shuts tasks and writer
down. Right when a commit marks one whole attempt, the real failure is reported,
and every run ends with nothing left behind.

**I/O limiter** (`limiter.rs`). A count behind a mutex and a `tokio::sync::Notify`,
used one after the other. Hard: lost wakes, waiters that are dropped after they
were chosen, a limit that changes. Right when no permit exceeds the limit and
nobody waits for a wake that will not come.

**Bandwidth limiter** (`downloader.rs` 943-984). The next free moment behind a mutex. A
task reads the clock, reserves a stretch of time under the mutex, and sleeps until
it begins. Hard: the clock read is stale by the time of the reservation, a sleeper
is given up, a stretch is rounded. It sleeps with a permit of the I/O limiter in
hand. Right when the bytes let through keep the rate.

**Callbacks and speed** (`state.rs` 118-193, 345-396, 457-597, 600-770). Three mutexes
(callback, throttle, progress), each held for a step; one trailing timer per interval;
a queue of samples of the last second. Right when the last change reaches the
callback, and the speed is of the bytes of its window although the threads' clocks
are applied out of order.

**Hashes** (`hash.rs`, and the options of every binding). A `HashConfig` is parsed from
five forms of options, stored in the slot by whoever creates the part file, and
compared by everybody after; the two digests written here (SHA-1, MD5) buffer and pad
blocks. Right when a caller that is told "complete" has the content it asked for.

**C ABI** (`takanawa-ffi/src/lib.rs`). A global `Arc` of the runtime behind a mutex,
handles that clone it, callback contexts freed with the last clone of a callback, an
error kept in two places. Hard: callbacks run on workers and call back in; the last
`Arc` may be dropped under the mutex; a message is read in two calls. Right when
contexts are freed once and unused, calls return, and a message read is a whole one.

**JavaScript facade and Tauri** (`takanawa-js-core/src/index.ts`, `takanawa-tauri`). The
native task is created by the first call that needs it; close may come between any two
awaits. The plugin keeps a registry. Right when there is one native task and close
releases it.

**Godot node** (`takanawa-gdextension/src/lib.rs`). Workers push events into a bounded
channel, a frame drains it and emits signals, whose handlers call the node again. Right
when events of an earlier task never come through and the end of a task is signalled.

**Other bindings** (Node, Capacitor, Android, Swift, C#, the command line): thin callers
of the above; see [not modelled](#not-modelled).

`PROJECT.json` lists the hazards of all of these, each at its line with the
properties that would catch it.

### Interactions

The handle's task calls the part file through the writer thread while chunks are
fetched, and directly to open and to finalize. Chunk tasks pass the I/O limiter for
each request. Every change of phase, progress or activity calls `notify_progress`
and `notify_speed` in the changing thread. Callbacks may call back into the handle:
`start_on` reports `Starting` with its join mutex held.

## The modules

| Module | Models | Composed with |
|---|---|---|
| `ResumeStore` | abstract: a store of complete chunks that crashes take nothing from | implemented by `PartFile` |
| `PartFile` | one part file under system calls, writeback, kills and power losses | `MCPartFile`, `PartFileProofs` |
| `PartLock` | the lock file, the part and the target as names, among processes | `MCPartLock`, `Components`, `PartLockProofs` |
| `ChunkPlan` | chunks, bitmap, progress in bytes, slot sizes: operators only | `RemoteContent`, `RemoteContentProofs` |
| `RemoteContent` | which bytes of which version end up where | `MCRemoteContent`, `RemoteContentProofs` |
| `IoLimiter` | `acquire`, the permit's drop, `set_max`, over tokio's `Notify` | `MCIoLimiter`, `RequestLimits`, `RequestLimitsProofs` |
| `BandwidthLimiter` | `throttle`: clock, reservation, sleep | `RequestLimits`, `RequestLimitsProofs` |
| `RequestLimits` | a request through both limiters | `MCRequestLimits`, `RequestLimitsProofs` |
| `Lifecycle` | the phases and the eleven `request_*` and `mark_*` functions: operators only | `DownloadHandle` |
| `DownloadHandle` | caller threads and the task they control | `MCDownloadHandle`, `DownloadHandleProofs` |
| `DownloadEngine` | the loop, chunk tasks, channel and writer of one run after another | `MCDownloadEngine`, `DownloadEngineProofs` |
| `Callbacks` | throttle, timers, setters and calls | `Components`, `ComponentsProofs` |
| `SpeedWindow` | the samples behind the speed, and stamps that come late | `Components`, `ComponentsProofs` |
| `BlockHash` | buffering and padding of SHA-1 and MD5 | `Components`, `ComponentsProofs` |
| `HashOption` | the digest asked for, from options to verification | `Components`, `ComponentsProofs` |
| `LastError` | the error of a run and of a call, read in two calls | `Components`, `ComponentsProofs` |
| `JsFacade` | a `DownloadTask` over the Tauri plugin | `Components`, `ComponentsProofs` |
| `GodotNode` | the Godot node, its channel, frames and signals | `Components`, `ComponentsProofs` |
| `Ffi` | the C ABI: runtime, handles, contexts, nested calls | `MCFfi`, `FfiProofs` |
| `Components` | eight of these side by side, to be checked in one run | `MCComponents`, `ComponentsProofs` |

The same variable of the code may appear in two modules at different grain. The
part file is bytes and versions in `RemoteContent`, system calls and durability in
`PartFile`, committed chunks and the attempt that wrote each fragment in
`DownloadEngine`, and a count of missing chunks in `DownloadHandle`. The seams are
stated in each module's head comment.

**PartFile.** `cache` is the file a reader finds now, `disk` the one a power loss
would leave; `meta`, `cursor` and `chunk` are the process's memory. An operation of
the code is one action per system call that changes the file: `commit_chunk` is
`CommitSyncData` (fsync of the bytes), `CommitWriteSlot`, `CommitSyncAll`;
`finalize` is `FinalizeVerify`, `FinalizeSetLen`, `FinalizeSync`, `FinalizeRename`,
`FinalizeSyncDir`. `Writeback*` lets the kernel write any dirty page at any time,
a slot perhaps torn. `Interrupt` is an error return, a kill, or the drop of the
PartFile, and leaves a slot write in progress torn or whole; `PowerLoss` makes
`cache` what `disk` is. The substitution of `ResumeStore`'s variables is at the end:
stored chunks are those of the best slot on disk.

**PartLock.** Names lead to files by number; a process's open files are separate
from names, so that a name can be unlinked or renamed under it. Each step between
two looks at the directory is an action. The lock belongs to the opened file, as
`flock` has it.

**RemoteContent.** A byte is the pair of version and offset it was read from. The
server may answer a request with any range of the version it serves now (`Answers`);
`Accepted` is what the code accepts of it. `Change` and `ToggleETag` are the
server's, `OpenNew`, `OpenExisting` and `OpenRefused` the three ways out of
`open_or_create`, `Fragment` a write of the body through `write_chunk_bytes`, which
places chunks by the part file's own metadata while the request was placed by the
run's plan. `drift` and `blind` are history: what the code cannot know.

**IoLimiter.** `at` has a place for each gap between a use of the mutex and a use of
the `Notify`: a `Notified` is "made" before it is polled and registered. The actions
of `Notify` follow its documentation.

**DownloadHandle.** `task` is the task's place between two looks at shared state,
`at` the same for each thread's call. `Lifecycle`'s operators are the functions of
`DownloadLifecycle`. What the network and the disk answer is a choice.

**DownloadEngine.** `queue` holds `Write` and `Commit` commands; each chunk has a task
(`chunk`, `tries`, `sent`), an answer and the metadata it came with. `body` remembers
which attempt of which run wrote each fragment last. `Abort` lets aborted tasks end
in any order; their commands stay in the queue.

**Callbacks.** The state is a version number. Threads and timers run through the
places of `notify_progress`, `throttle_action` and `emit_progress_callback`, one
mutex at a time. `told` is history: the newest version each callback was called with.

**BandwidthLimiter, RequestLimits.** `Ask`, `Reserve` and `Wake` (or `GiveUp`) are the three
steps of `throttle`. `RequestLimits` has no variables of its own: a chunk task is a user of
the one limiter and a task of the other, and may throttle only while it holds a permit.

**SpeedWindow.** `stamp` is the time a thread has read and not used yet; `Delay` bounds how
long it may be held up. `record_body_bytes` and `speed_snapshot` both prune the queue.

**BlockHash.** A byte is its number, so that lost, repeated and misplaced bytes differ. The
hasher's record has the fields of the struct, and all that was given to the compression
function. `HashOption` starts where a binding has parsed its options into strings and ends
at `verify_hash`; a digest stands for the content it is of.

**LastError.** `last_error` prefers the error of the progress over the one of the handle, each
read under its own mutex; a reader asks for the length and then for the message.

**Ffi.** Every actor (host threads and the downloads' tasks) has a stack of calls, so a
callback can call the library again. `guard` and `join` are the mutexes that are held while
something waits. Contexts count how often they were released.

**JsFacade.** One step is the code between two awaits, or a command of the plugin. Promises are
numbered by the create they are of. **GodotNode.** `channel` and `sending` are per configuration;
a handler is a call of `Configure`, `StartNode` or `CloseNode` while `frame` says the node is draining.

**Components.** The parts have no state in common, so a behaviour is one of one part, chosen
in the initial state; nothing is composed that does not interact. It exists so that one run checks
them all.

`mutant` definitions (each under a comment that begins with "Mutant") are bugs like
those one could plant in the code. They are not part of any specification; for each
property of a passing run one of them, put in the place of the definition after it,
makes TLC find the property violated.

## The runs

Twelve runs. Seven must pass, five end in the violation they are there to show.

| Run | Module, cfg | Bounds | States |
|---|---|---|---|
| `part_file` | `MCPartFile`, `PartFile.cfg` | 3 chunks of 2 fragments, 3 faults | 216 k |
| `part_stranded` | `PartFileStranded.cfg` | 2 chunks, 1 fault | violation |
| `lock_three` | `MCPartLock`, `LockThree.cfg` | 3 processes, 3 files | violation |
| `limits` | `MCRequestLimits`, `Limits.cfg` | 3 tasks, limits 0 and 2, 4 acquires, 1 set, 2 throttles, rates 0 and 2 | 112 k |
| `limiter_idle_slot` | `MCIoLimiter`, `LimiterIdleSlot.cfg` | 4 users, limit 2 | violation |
| `handle` | `MCDownloadHandle`, `Handle.cfg` | 2 threads, 4 calls, 3 chunks, 2 of them in parallel | 101 k |
| `handle_pausing` | `HandlePausing.cfg` | 1 thread, 3 calls | violation |
| `engine` | `MCDownloadEngine`, `Engine.cfg` | 2 chunks of 2 fragments, 2 tasks, queue of 2, 2 attempts, 2 runs, 1 fault | 435 k |
| `engine_report` | `EngineReport.cfg` | 2 chunks, 1 run, no fault | violation |
| `remote_content` | `MCRemoteContent`, `RemoteContent.cfg` | lengths 0, 3, 5; chunk sizes 1, 2, 4; 2 versions | 476 k |
| `ffi` | `MCFfi`, `Ffi.cfg` | 2 host threads, 1 download, 2 runtimes, 2 contexts, 1 shutdown, 3 calls deep | 94 k |
| `components` | `MCComponents`, `Components.cfg` | see below | 150 k |

What they show:

- **part_file**: `SlotsSafe` (`CrashSafe` and `ResumeSafe`: no slot that a crash leaves, or that
  a restarted process reads, marks a chunk that is not on disk), `AckedSurvive`,
  `TargetIsContent`, `ImplementsStore` (refinement of `ResumeStore`), `EventuallyPromoted`.
  `docs/part-format.md` puts it as "a crash can cause a recently written chunk to be
  downloaded again, but cannot mark missing data as complete"; that is `CrashSafe`.
- **limits**: `NoLostWakeup`, `WithinRate`, `ServedThroughSleep` (a permit held through the
  bandwidth sleep is passed on).
- **handle**: `NoSecondTask`, `OnlyWholePartsVerified`, `NoOrphanedActivePhase`, `FlagsStick`,
  `DropStops`, `TaskEnds`.
- **engine**: `CommittedFromOneAttempt`, `WriterFailurePrevails`, `NothingLeftBehind`, `RunEnds`.
- **remote_content**: `ChunksInPlace`, `SlotsUntouched`, `ProgressExact`, `OneVersion`,
  `TargetIsExpected`.
- **ffi**: `ContextsReleasedOnce`, `ContextsReleased`, `OneEngine`, `RunsOnLiveRuntime`,
  `CallsReturn`.
- **components**: `OneAtATimeBeforeTarget`, `PromotesItsOwn` (`PartLock`); `NoLostReport`,
  `Reported` (`Callbacks`); `OneNativeTask`, `CloseReleases` (`JsFacade`); `OldTasksSilent`,
  `EndSignalled` (`GodotNode`); `SpeedIsOfWindow`; `BlocksOfMessage`; `AskedIsVerified`;
  `MessageIsWhole`.

Types are not checked by the runs where they are proved (below): `TypeOK` of `PartFile`,
`IoLimiter` and `PartLock`, `PaceTypeOK` of `BandwidthLimiter`, `ReportTypeOK` of `Callbacks`.
`DownloadHandle` states its `TypeOK` as documentation of the variables.

### Why the bounds are enough

- *PartFile*: the two slots alternate, so three commits reach the state in which a
  commit overwrites a slot that was once current; two fragments separate "some" from
  "all" bytes of a chunk; with three faults a crash can hit the creation, a commit and
  the promotion of one history.
- *PartLock*: the scenarios need a process that has finished, one that holds a stale
  lock file and one that makes a new one; three of each. `lock_three` takes the processes as
  symmetric and checks no liveness; `components` does not.
- *IoLimiter*: with a limit of 2, four users give two holders and two waiters, which is
  where one stored token differs from two wakes. The limit 0 is raised to 1 by the code;
  one `set_max` goes up or down.
- *RequestLimits*: of three tasks one sleeps with a permit while one waits for it and one is given
  up; a fragment of 3 bytes at 2 bytes a tick takes a stretch that has to be rounded; rate 0 is no
  limit.
- *DownloadHandle*: two threads are enough for every pairwise race of calls; four calls
  allow a start, a request, a second start and another request; three chunks with two tasks
  leave one to be spawned after a join.
- *DownloadEngine*: two chunks give two joins in either order; a queue of two is full while both
  tasks stream, and lets a commit wait behind a write that fails; two attempts and two runs separate a retry from a resumption; one failure
  of server or disk falls anywhere.
- *Callbacks*: two changes give one that emits and one that is left to a timer; two sets
  replace a callback or remove it; with two timers an old one and a new one coexist.
- *RemoteContent*: a byte of the bitmap has two bits there, so that five chunks need
  three bytes; length 5 with chunk sizes 1, 2 and 4 has exact and short last chunks; length
  0 has none; `MaxU64` is so small that the longest file does not fit with the smallest
  chunks. Two versions of equal and different length.
- *Ffi*: one download with its task is enough for every race of a caller with a callback, two
  runtimes for a shutdown followed by another init, two contexts for a replacement; a callback may
  set callbacks and pause (one that starts or cancels is described below).
- *SpeedWindow*: a window of one tick, stamps late by one, a clock to 4 and two samples put a sample
  on either side of the window's edge. *BlockHash*: blocks of 8 with a length field of 2, contents of
  0 to 35 bytes (four blocks and a bit) in slices of 3, 8 and 16: every remainder, aligned or not.
- *HashOption*: two callers, two algorithms, two contents and a text that is no digest, through every
  binding. *LastError*: messages of three lengths, four errors, one reader.
- *JsFacade*: two calls in progress, two creates, two listeners. *GodotNode*: a channel of two events,
  two configurations, two starts of each, one report besides the end.

Counters that would grow for ever are bounded by `MaxFaults`, `MaxFiles`, `MaxAcquires`,
`MaxSets`, `MaxCalls`, `MaxTime`, `MaxRuns`, `MaxAttempts` (a configuration value of the code),
`MaxChanges`, `MaxInstalls`, `MaxVersions`, `MaxDepth`, `MaxRuntimes`, `MaxContexts`, `MaxShutdowns`,
`MaxMoment`, `MaxReceived`, `MaxLen`, `MaxErrors`, `MaxCreates`, `MaxListeners`, `MaxConfigs`, `MaxStarts`
and `MaxReports`; the set `Timers` bounds the timers at one time. No other bound is hidden in a module.

Deadlock is checked in `part_file`, `part_stranded` and `remote_content`. In the others
the system may really stop, once the bounded calls are made; their cfgs say so.

### Fairness

Every fair specification asks that what is running goes on, and never that somebody
calls.

- `PartFile`: the caller reopens, fetches, commits and finalizes; faults are bounded and
  not fair. It is the caller of the documentation, which starts again after each interruption.
- `RequestLimits`: a polled task runs, time passes, and a request ends and drops its permit. The
  last needs a timeout when a server stalls, and the code has none by default.
- `DownloadHandle`, `DownloadEngine`: the runtime polls its tasks, the blocking pool and
  the writer thread run, aborts take effect, and requests end as above.
- `Callbacks`: threads and the clock go on, and the runtime that holds a timer outlives it.

- `Ffi`: a call or callback that is not blocked goes on, and the runtime drops an aborted task.
- `JsFacade`: a resumed call goes on and the plugin answers its commands. `GodotNode`: frames come
  and a worker sends the event it has; ready may never come.

The other modules have safety properties only.

## The proofs

| Theorem | For every | Says |
|---|---|---|
| `PartFileProofs!TypeCorrect`, `CrashInvariant` | set of chunks, number of fragments and of faults | types; `CrashInv` is invariant |
| `PartFileProofs!CrashSafety`, `ResumeSafety`, `SlotsAlwaysSafe` | the same | `CrashSafe`, `ResumeSafe`, `SlotsSafe` |
| `PartFileProofs!TargetInvariant`, `TargetAlwaysContent` | the same | `TargetIsContent` |
| `PartFileProofs!StoreInvariant`, `AckedAlwaysSurvive`, `PartFileImplementsStore` | the same | `AckedSurvive`; every step of the part file is a step or a stutter of `ResumeStore` |
| `PartLockProofs!LockTypeCorrect`, `LockInvariant`, `OneAtATimeUntilPromoted`, `AlwaysPromotesItsOwn` | set of processes, bound on files | `OneAtATimeBeforeTarget`, `PromotesItsOwn` |
| `RequestLimitsProofs!PaceTypeCorrect`, `PaceInvariant`, `RateKept` | set of tasks, rates, fragment lengths | `WithinRate` |
| `RequestLimitsProofs!LimitsImplementsBoth`, `LimitsWakeupsReach`, `LimitsRateKept` | the same, and set of limits | the composition implements both limiters; `NoLostWakeup`, `WithinRate` in it |
| `RequestLimitsProofs!TypeCorrect`, `WakeupsReach`, `HoldersCounted`, `WithinLimit` | finite set of users, set of limits | `NoLostWakeup`, `CountsHolders`, `GrantedWithinLimit` |
| `ComponentsProofs!TypeCorrect`, `ReportInvariant`, `NoReportLost` | threads and timers, while at most one thread sets callbacks | `NoLostReport` |
| `RemoteContentProofs!ChunkWithinContent`, `ChunksDisjoint`, `ChunksCover` | length and chunk size | the chunks tile the content, nothing overflows on the way |
| `RemoteContentProofs!MarkCompleteMarksOne` | bitmap | marking one chunk marks no other |
| `RemoteContentProofs!ChunksAlwaysInPlace`, `SlotsNeverTouched`, `TargetAlwaysExpected`, `TargetAlwaysInPlace`, `AlwaysOneVersion`, `ProgressAlwaysExact` | lengths, chunk sizes, versions | `ChunksInPlace`, `SlotsUntouched`, `TargetIsExpected`, `TargetInPlace`, `OneVersion`, `ProgressExact` |
| `DownloadHandleProofs!HandleInvariant`, `NeverASecondTask`, `AlwaysWholePartsVerified`, `NeverOrphanedActivePhase`, `FlagsAlwaysStick`, `DropAlwaysStops` | set of threads, numbers of chunks, tasks and calls | `NoSecondTask`, `OnlyWholePartsVerified`, `NoOrphanedActivePhase`, `FlagsStick`, `DropStops` |
| `DownloadEngineProofs!EngineInvariant`, `CommittedIsOneAttempt`, `RunLeavesNothing`, `WriterDecides` | set of chunks, numbers of fragments, tasks, attempts, runs and faults, capacity of the channel | `CommittedFromOneAttempt`, `NothingLeftBehind`, `WriterFailurePrevails` |
| `FfiProofs!FfiInvariant`, `ReleasedOnce`, `EngineIsShared`, `RuntimeOutlivesHandles` | sets of threads, downloads and callback slots, numbers of runtimes and contexts, depth of nesting | `ContextsReleasedOnce`, `OneEngine`, `RunsOnLiveRuntime` |
| `ComponentsProofs!ErrorInvariant`, `MessageAlwaysWhole` | errors with messages of any length, set of readers | `MessageIsWhole` |
| `ComponentsProofs!OptionInvariant`, `AskedAlwaysVerified` | algorithms, contents, set of callers | `AskedIsVerified` |
| `ComponentsProofs!BlockInvariant`, `MessageIsHashed` | sizes of blocks, length fields and slices, length of the content | `BlocksOfMessage` |
| `ComponentsProofs!JsInvariant`, `AtMostOneTask` | sets of calls and listeners, number of creates | `OneNativeTask` |
| `ComponentsProofs!GodotInvariant`, `OldTasksStaySilent` | numbers of configurations and starts, capacity of the channel | `OldTasksSilent` |
| `ComponentsProofs!SpeedInvariant`, `SpeedAlwaysOfWindow` | sets of threads, window, delay, fragment lengths | `SpeedIsOfWindow` |
| `ComponentsProofs!PartsBehave` | the parts' constants | a behaviour of `Components` is one of each part |

The theorems rest on the `ASSUME`s of the modules (sizes positive, sets finite, a name for
"nobody" that is no thread), which TLC evaluates for the instances it checks.

**PartFile.** `CrashSafe` speaks of the disk and of slots already there; a step that
writes back a slot can only keep it if the slot in the cache was safe too (`ResumeSafe`),
and a step that writes a slot only if what the process believes is on disk
(`Full(disk, meta.done)`, and `Full(disk, chunk)` between the fsync and the slot). An
attempt must have written what its cursor says, and the disk hold no bytes that the
cache lacks. That is `CrashInv`; a step needs one argument per system call, and each
crash follows from the conjunct that speaks of the image it leaves. `TargetInv` adds what
finalize knows at each of its steps: past the hash the content is whole, past the sync it is
whole on disk and cut. What has been acknowledged survives because of `StoreInv`: a slot's
place is its generation's parity and the newer slot marks no less (`SlotsInOrder`), what the
process believes is in the newest slot of the cache (`HoldsNewest`), and between two syncs one slot
at most, and in it one chunk at most, is ahead of the disk (`OneSlotDirty`, `OneChunkAhead`). The abstract store
then takes a chunk when its slot reaches the disk, by the commit's sync or by a writeback before it.

**IoLimiter.** `NoLostWakeup` needs that a stored token never lies beside a sleeping task
(`TokenMeansNobodyWaits`) and that `in_flight` counts the permits out: who goes to sleep
did so because the limit, which is not 0, was reached.

**PartLock.** `WorkersExclude` is the heart: until a target is there nothing unlinks the lock file,
so all that have one open have the same, and its owner is whoever stands between `Lock` and
`Rename`. After the first rename `FinalizeBegins` finds the target, so nobody is about to promote;
the violation of `OneAtATime` by a third process (run `lock_three`) begins only there.

**BandwidthLimiter.** `PaceInv`: `reserved * Second <= rate * next`, kept since a stretch is rounded up
(`StretchCovers`), and the same for each sleeper and its wake. Who passes without a sleep begins
its stretch no later than the clock it read, which is no later than now; then at most its own
fragment is ahead of the rate. **RequestLimits.** Every step is a step or a stutter of each part
(`LimitsStepIo`, `LimitsStepPace`), so the theorems of the parts carry over.

**Callbacks.** `ReportInv` says what stands in which place, that nothing is from the
future, and that `trailing` means a timer of this generation sleeps. Then whoever changes
the state either informs the callback itself or leaves it to that timer. Installing a
callback and resetting the throttle are two steps; with two setters another thread's reset
falls between and the invariant fails, as TLC shows.

**ChunkPlan, RemoteContent.** Tiling comes from `b * (a \div b) + (a % b) = a` and the two
bounds of the rounded-up quotient. `ContentInv` adds to the properties that an open run's
plan is the part file's, by `ensure_compatible`, and that what the current attempt has
written is at its offsets, in a chunk not yet complete. A fragment then leaves complete
chunks alone because chunks are disjoint, and stays before the slots because a chunk ends
within the content. That a promoted file lacks no byte uses that chunks cover the content.
`VersionInv` follows the version a run fetches: while no resume went without an ETag and the resource
stood still within each run, it is the version the slot names, and so is all that is in the file.
`ProgressExact` is kept by a commit, because the chunk it marks was not complete: its length, that of a whole
chunk or of the rest, is what the progress gains, and its bytes are in no other chunk.

**DownloadHandle.** `HandleInv` has three parts. `CallersInv`: a thread between the check of
`start_on` and its spawn holds the join mutex and finds no task; after the drop nobody calls.
`WorkInv`: only the loop has chunk tasks, and a task that leaves it with chunks missing does so
because of a flag that no call can clear while the task lives, and that it looks at again.
`PhaseInv`: a request starts and verifies nothing, so whatever falls between two reports, the next
report is heard, and the last one leaves no phase that claims work.

**DownloadEngine.** `LoopInv` says where no chunk task and no writer is left, that every chunk is
committed, pending or has a task, and that the writer outlives the loop. `CommittedFromOneAttempt`
needs to look ahead through the queue: `LastBy(c, f, by)` says that fragment f of c will be of attempt
`by` once the queue is written. While a task works on a body all it has sent is of its own attempt
(`AttemptIsLast`), since an attempt begins at the first fragment and no other task writes
there; a commit comes behind every write of its chunk (`CommitsAreWhole`), and then nothing
writes there again (`DoneAreWhole`). An older attempt's writes may still be in the queue when the next
begins, and it is the order of the channel that makes them harmless. `WriterFailurePrevails` is the one
step in which the run ends.

**Ffi.** `FfiIInv` is about every call on every stack, at any depth. A call that holds a clone of the
runtime's `Arc` names it (`RuntimeInv`); a shutdown that drops one is its only owner, so no live handle
can be of it. `BirthInv`: `create` holds `GLOBAL`'s runtime of its own time until its handle has it.
`UseInv`: a release has its download for itself, but for callbacks of its own task; `ContextInv`: a
context is of one download, in one slot at most. Then `ContextsReleasedOnce` follows, because the last of
slot and running calls that gives up a context finds nobody else who has it.

**LastError.** Whoever is between the two calls could have found each error that is recorded now, since
one is recorded or cleared only in steps that put it into `held`. **HashOption.** Each binding's parser
yields the digest its caller wants or refuses; the slot gives back what was encoded; and only one
caller at a time has the part file open, whose configuration is the slot's, by `ensure_compatible`.
**BlockHash.** One lemma says that `update` appends its bytes to the compressed blocks and the buffer,
whatever slices it copies (the loop's rounds in one), and keeps the blocks whole; another that the padding of
`update_padding_be` is the only number of zeros below a block that fills the last one.
**JsFacade.** All creates but the rejected are one, whose promise is the facade's until the close
(`JsInv`). **GodotNode.** Configure empties the channel of before and a callback of before sends only to
it (`GodotInv`).

**SpeedWindow.** `SpeedInv`: the queue is the end of what has arrived, what was popped is older than the
window of the latest stamp used, and a sample is stamped at most `Delay` later than one that is
recorded after it. A refresh stops at the first sample young enough (`RetainedIs`), so all that stays behind
that one is at most `Delay` older than the window. The rest is about sums: the fold's recursive
function is there and does not depend on the order of the choices (`SumExists`, `SumsAgree`, `BytesAdd`), a
subset sums to no more (`BytesMonotone`), and a shift of the indexes changes nothing (`BytesShift`).
The induction over the size of a set behind them goes by the least number that fails.

Only model-checked: all liveness (`EventuallyPromoted`, `ServedThroughSleep`, `TaskEnds`, `RunEnds`,
`Reported`, `ContextsReleased`, `CallsReturn`, `CloseReleases`, `EndSignalled`), which the prover
cannot show under fairness. Every safety invariant and every action property of the passing runs
is a theorem.

## What the models found

With a run each (`PROJECT.json`, "findings"):

- *part_stranded* (code bug). `open_or_create` makes the `.part` name visible before the
  file is sized and its first slot written, and `finalize` truncates the slots away before
  the rename. A process that dies in either window leaves a file that every later call
  refuses with `PartSizeMismatch` or `PartCorrupt`.
- *lock_three* (code bug). `finalize` unlinks the lock file after releasing it, so a process
  that locked it in between holds a lock that a third process does not meet.
- *limiter_idle_slot*. Two wakes in the gap before two `Notified`s are first polled are stored
  as one: a task may wait beside a free slot, until the next drop of a permit.
- *handle_pausing*. A pause after the task's last look at the flags and before
  `mark_verifying` leaves the handle at `Pausing`, with the target in place.
- *engine_report* (code bug). A completed download may show fewer than all chunks complete,
  when tasks are joined in another order than their commits were answered.

Seen while modelling, without a run of their own:

- A cancel that looks whether the task has finished just after the task's last report and
  before its end leaves `Cancelling` for good; `NoOrphanedActivePhase` leaves that phase out.
- A cancel that finds no task marks `Cancelled` after it has let go of the join mutex. A start of another
  thread may come between, and the mark then falls on the phase of the new run: that run goes on without a
  cancel flag, may put the target in place, and the handle says `Cancelled` all the while, for
  `mark_completed` leaves that phase alone. No property speaks of it.
- `Paused` is reported a moment before the task ends; a start in that moment is refused with
  `AlreadyStarted`.
- Two threads that set callbacks can lose the trailing report (see above), and a thread that
  is slow between its snapshot and its call delivers an older state after a newer one.
- An ETag above 512 bytes fails `open_or_create` after it has created and sized the file,
  which strands the part file as a crash there does.
- `start_on` reports `Starting` with its join mutex held. A callback that starts or cancels the
  same handle from there waits for the mutex of its own thread; so does one that releases it.
- `tknw_global_shutdown` drops the runtime under `GLOBAL` when no download is left: a callback still
  running on a worker that then calls a function that needs `GLOBAL` waits for the shutdown that waits
  for it. A release from within a callback may drop the runtime on one of its own workers.
- After a shutdown and another init, the downloads of before go on with their own runtime and
  limiter: two limits are in force until they are released.
- The total timeout of an attempt also counts the wait for a permit and the bandwidth sleeps.
- A snapshot between `start_on`'s clearing of the error and its change of phase shows `Failed` without an
  error; the JNI functions read snapshot and error code in two calls, and the JNI callback reads the code
  of a handle that Kotlin's `close` may have released meanwhile (its `withHandle` does not exclude it).
- `last_error` prefers an older error of the download over a newer one of a call, and the JNI function
  returns an empty string if the message has grown since it asked for its length.
- The JNI `downloadCreate` leaks the handle if it cannot write it to the caller's array.
- The reported speed may count samples older than the window by as long as a thread was held up.
- A speed listener whose registration is under way when `close` is called stays registered; a
  progress listener's does not (`CloseReleases`). An adapter whose `remove` rejects makes `close` end before it
  closes the task. Node's `close` does nothing.
- In Godot, an end dropped by the full channel is never signalled; nor is the end of a task started again
  after it failed or was cancelled; a handler that configures the node within a frame gets the rest of the old
  task's batch, perhaps its end; a node configured before it is ready runs no frames.
- Hexadecimal digests are parsed with `from_str_radix`, which takes a sign, and cut at byte positions,
  which panics inside a character of several bytes.
- Every create of the Tauri plugin, also one that is refused afterwards, sets the shared limit on I/O to its
  own `max_io`, 4 by default. A `backoff_max` of 0 selects the default even below a larger initial backoff.
- A resource that changes during a run is noticed only by a configured hash; `OneVersion`
  says which changes `ensure_compatible` does notice.

## Assumptions and limits

About what lies under the code: a CRC tells a torn slot from a whole one; `rename` and
`set_len` are atomic; the sync of a file makes its own directory entry durable too; pages
whose writeback failed stay dirty; hashes have no collisions; `flock` belongs to the open
file, and an unlinked file stays open. tokio's `Notify`, `JoinSet` and `mpsc`, and the
`abort` of a task, follow their documentation.

In the models: a strong ETag stands for ETag and Last-Modified; a server's answer is a true
range of one version; the layout of a slot, header syntax, URLs and error texts are left
out; `u64` values are naturals, with the code's overflow checks as bounds where it has
them; time is an event that comes at some moment. `DownloadEngine` takes its plan as it
is and `RemoteContent` has one request under way at a time, since chunks share no byte
(`ChunksDisjoint`).

In the bindings: callers release a handle once, while they make no other call on it and from
outside its callbacks (`Ffi`); the Tauri commands run one at a time on the main thread (`JsFacade`); the edge
of a monotonic clock younger than the window is left out (`SpeedWindow`).

## Not modelled

- *Capacitor* (Kotlin, Swift): registries of the same shape as Tauri's. *Node*: a class that forwards each
  call to the handle. *Android, Swift, C#*: they marshal arguments for the C ABI; the order in which they call
  it is the environment of `Ffi`. *The command line*: one call of `download_to_completion`; its arguments are
  in `HashOption`.
- `close_all` of the Tauri plugin, at its end; the read-only functions of the C ABI and their records.
- The compression functions, SHA-256, SHA-512 and CRC-32, and the binary layout of slots.
- Timeouts and backoffs as durations: they are events that come at some moment.
- `xtask` and the build scripts: no part of the running system.

What could still be added: `DownloadEngine` as an implementation of the chunk loop of `DownloadHandle`.
