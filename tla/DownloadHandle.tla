--------------------------- MODULE DownloadHandle ---------------------------
(***************************************************************************)
(* A DownloadHandle (takanawa-http downloader.rs): caller threads start,   *)
(* pause, cancel and drop it while its background task runs run_download.  *)
(* They share the lifecycle phase, the two control flags and the join      *)
(* handle behind its mutex.  Each atomic access and each critical section  *)
(* is one action, so a request can fall between any check of the task and  *)
(* what the task does next.                                                *)
(*                                                                         *)
(* The part file is seen from here as the number of chunks it still lacks  *)
(* and whether it has become the target.  What the network and the disk    *)
(* answer is nondeterministic.                                             *)
(***************************************************************************)
EXTENDS Naturals, Lifecycle

CONSTANTS
    Threads,      \* threads that call the API of the handle
    ChunkCount,   \* chunks of the resource
    Parallelism,  \* chunk tasks running at once
    MaxCalls      \* bound on the calls the threads make together

ASSUME ChunkCountAssumption == ChunkCount \in Nat
ASSUME ParallelismAssumption == Parallelism \in Nat \ {0}
ASSUME MaxCallsAssumption == MaxCalls \in Nat

VARIABLES
    phase,      \* SharedState: the lifecycle phase
    pause,      \* Control.pause
    cancel,     \* Control.cancel
    join,       \* whether the handle holds a JoinHandle
    lock,       \* who holds the join mutex: a thread, or NoThread
    task,       \* where the background task stands; "none" when it has ended
    inflight,   \* chunk tasks in the JoinSet
    left,       \* chunks the part file lacks
    promoted,   \* the part file has become the target
    at,         \* per thread, where its call stands; "idle" between calls
    dropped,    \* "no", or where the task stood when the handle was dropped
    aborted,    \* the task has been aborted
    calls       \* calls made

shared == <<phase, pause, cancel>>
work == <<inflight, left, promoted>>
callers == <<at, calls>>
vars == <<phase, pause, cancel, join, lock, task, inflight, left, promoted,
          at, dropped, aborted, calls>>

NoThread == "nobody"
ASSUME NobodyAssumption == NoThread \notin Threads

\* Where the task awaits: there, and nowhere else, an abort can take effect.
AwaitPoints == {"begin", "probe", "opening", "join", "stop_cancelled", "stop_paused",
                "stop_chunk", "stop_failed", "drained", "finalizing"}

TaskPoints == AwaitPoints \cup
    {"none", "startup_cancel", "startup_pause", "probed_cancel", "probed_pause",
     "allocate", "opened_cancel", "opened_pause", "run", "loop_cancel", "loop_pause", "spawn",
     "joined", "drained_pause", "final_cancel", "final_pause", "verify", "complete",
     "cancelled", "leave_cancelled", "paused", "failed", "exit", "orphan"}

CallPoints == {"idle", "s_lock", "s_pause", "s_cancel", "s_request", "s_spawn",
               "p_flag", "p_request", "c_flag", "c_request", "c_check", "c_mark",
               "d_flag", "d_abort"}

TypeOK ==
    /\ phase \in Phases
    /\ pause \in BOOLEAN /\ cancel \in BOOLEAN /\ join \in BOOLEAN
    /\ lock \in Threads \cup {NoThread}
    /\ task \in TaskPoints
    /\ inflight \in 0 .. Parallelism
    /\ left \in 0 .. ChunkCount
    /\ inflight <= left
    /\ promoted \in BOOLEAN
    /\ at \in [Threads -> CallPoints]
    /\ dropped \in TaskPoints \cup {"no"}
    /\ aborted \in BOOLEAN
    /\ calls \in 0 .. MaxCalls

Init ==
    /\ phase = "Created"
    /\ pause = FALSE /\ cancel = FALSE /\ join = FALSE
    /\ lock = NoThread
    /\ task = "none"
    /\ inflight = 0
    /\ left = ChunkCount
    /\ promoted = FALSE
    /\ at = [t \in Threads |-> "idle"]
    /\ dropped = "no"
    /\ aborted = FALSE
    /\ calls = 0

-----------------------------------------------------------------------------
(* The callers                                                             *)

Goto(t, from, to) ==
    /\ at[t] = from
    /\ at' = [at EXCEPT ![t] = to]

Returns(t, from) == Goto(t, from, "idle")

\* A thread calls start_on, pause or cancel.
Call(t, entry) ==
    /\ Goto(t, "idle", entry)
    /\ dropped = "no"
    /\ calls < MaxCalls
    /\ calls' = calls + 1
    /\ UNCHANGED <<shared, join, lock, task, work, dropped, aborted>>

\* Mutant: the flags are reset before the previous task is looked for.
StartRefusedAfterReset(t) ==
    /\ lock = NoThread
    /\ join /\ task # "none"
    /\ Returns(t, "s_lock")
    /\ pause' = FALSE /\ cancel' = FALSE
    /\ UNCHANGED <<phase, join, lock, task, work, dropped, aborted, calls>>

\* start_on takes the join mutex for the whole call and refuses while the
\* previous task has not finished.
StartRefused(t) ==
    /\ lock = NoThread
    /\ join /\ task # "none"
    /\ Returns(t, "s_lock")
    /\ UNCHANGED <<shared, join, lock, task, work, dropped, aborted, calls>>

\* Mutant: the mutex covers the check only.
StartAcceptedUnlocked(t) ==
    /\ Goto(t, "s_lock", "s_pause")
    /\ lock = NoThread
    /\ ~(join /\ task # "none")
    /\ join' = FALSE
    /\ UNCHANGED <<shared, lock, task, work, dropped, aborted, calls>>

StartAccepted(t) ==
    /\ Goto(t, "s_lock", "s_pause")
    /\ lock = NoThread
    /\ ~(join /\ task # "none")
    /\ lock' = t
    /\ join' = FALSE
    /\ UNCHANGED <<shared, task, work, dropped, aborted, calls>>

StartClearPause(t) ==
    /\ Goto(t, "s_pause", "s_cancel")
    /\ pause' = FALSE
    /\ UNCHANGED <<phase, cancel, join, lock, task, work, dropped, aborted, calls>>

StartClearCancel(t) ==
    /\ Goto(t, "s_cancel", "s_request")
    /\ cancel' = FALSE
    /\ UNCHANGED <<phase, pause, join, lock, task, work, dropped, aborted, calls>>

StartRequest(t) ==
    /\ Goto(t, "s_request", "s_spawn")
    /\ phase' = RequestStart(phase)
    /\ UNCHANGED <<pause, cancel, join, lock, task, work, dropped, aborted, calls>>

StartSpawn(t) ==
    /\ Returns(t, "s_spawn")
    /\ task' = "begin"
    /\ join' = TRUE
    /\ lock' = NoThread
    /\ UNCHANGED <<shared, work, dropped, aborted, calls>>

PauseFlag(t) ==
    /\ Goto(t, "p_flag", "p_request")
    /\ pause' = TRUE
    /\ UNCHANGED <<phase, cancel, join, lock, task, work, dropped, aborted, calls>>

PauseRequest(t) ==
    /\ Returns(t, "p_request")
    /\ phase' = RequestPause(phase)
    /\ UNCHANGED <<pause, cancel, join, lock, task, work, dropped, aborted, calls>>

CancelFlag(t) ==
    /\ Goto(t, "c_flag", "c_request")
    /\ cancel' = TRUE
    /\ UNCHANGED <<phase, pause, join, lock, task, work, dropped, aborted, calls>>

CancelRequest(t) ==
    /\ Goto(t, "c_request", "c_check")
    /\ phase' = RequestCancel(phase)
    /\ UNCHANGED <<pause, cancel, join, lock, task, work, dropped, aborted, calls>>

\* cancel looks under the join mutex whether a task is there to see the flag;
\* the mutex is free again when it acts on the answer.
CancelLeavesTask(t) ==
    /\ lock = NoThread
    /\ join /\ task # "none"
    /\ Returns(t, "c_check")
    /\ UNCHANGED <<shared, join, lock, task, work, dropped, aborted, calls>>

CancelFindsNoTask(t) ==
    /\ lock = NoThread
    /\ ~(join /\ task # "none")
    /\ Goto(t, "c_check", "c_mark")
    /\ UNCHANGED <<shared, join, lock, task, work, dropped, aborted, calls>>

CancelMark(t) ==
    /\ Returns(t, "c_mark")
    /\ phase' = MarkCancelled(phase)
    /\ UNCHANGED <<pause, cancel, join, lock, task, work, dropped, aborted, calls>>

\* Mutant: drop relies on the abort alone.
DropWithoutFlag(t) ==
    /\ \A u \in Threads : at[u] = "idle"
    /\ Goto(t, "idle", "d_abort")
    /\ dropped = "no"
    /\ dropped' = task
    /\ UNCHANGED <<shared, join, lock, task, work, aborted, calls>>

\* Drop has the handle to itself: no call is in progress and none follows.
DropFlag(t) ==
    /\ \A u \in Threads : at[u] = "idle"
    /\ Goto(t, "idle", "d_abort")
    /\ dropped = "no"
    /\ dropped' = task
    /\ cancel' = TRUE
    /\ UNCHANGED <<phase, pause, join, lock, task, work, aborted, calls>>

DropAbort(t) ==
    /\ Returns(t, "d_abort")
    /\ lock = NoThread
    /\ aborted' = join
    /\ join' = FALSE
    /\ UNCHANGED <<shared, lock, task, work, dropped, calls>>

Caller(t) ==
    \/ StartRefused(t) \/ StartAccepted(t) \/ StartClearPause(t) \/ StartClearCancel(t)
    \/ StartRequest(t) \/ StartSpawn(t)
    \/ PauseFlag(t) \/ PauseRequest(t)
    \/ CancelFlag(t) \/ CancelRequest(t) \/ CancelLeavesTask(t) \/ CancelFindsNoTask(t)
    \/ CancelMark(t)
    \/ DropAbort(t)

-----------------------------------------------------------------------------
(* The background task: run_download and the wrapper start_on spawns       *)

Step(from, to) ==
    /\ task = from
    /\ task' = to
    /\ UNCHANGED <<pause, cancel, join, lock, callers, dropped, aborted>>

\* The task loads one control flag and branches on it.
Check(flag, from, taken, next) ==
    /\ Step(from, IF flag THEN taken ELSE next)
    /\ UNCHANGED <<phase, work>>

\* The task reports, and goes on.
Report(next, from, to) ==
    /\ Step(from, to)
    /\ phase' = next
    /\ UNCHANGED work

\* An await that changes nothing the handle sees resolves.
Resolve(from, to) ==
    /\ Step(from, to)
    /\ UNCHANGED <<phase, work>>

\* complete_startup_control_request, at its three places: the probe, the
\* allocation and the run wait behind it.
StartupChecks ==
    \/ Check(cancel, "startup_cancel", "cancelled", "startup_pause")
    \/ Check(pause, "startup_pause", "paused", "probe")
    \/ Check(cancel, "probed_cancel", "cancelled", "probed_pause")
    \/ Check(pause, "probed_pause", "paused", "allocate")
    \/ Check(cancel, "opened_cancel", "cancelled", "opened_pause")
    \/ Check(pause, "opened_pause", "paused", "run")

\* probe_with_retry checks for cancellation before an attempt, never for pause.
Probe ==
    \/ Resolve("probe", "probed_cancel")
    \/ Resolve("probe", "failed")
    \/ cancel /\ Resolve("probe", "leave_cancelled")

\* PartFile::open_or_create in the blocking pool.
Open ==
    \/ ~promoted /\ Resolve("opening", "opened_cancel")
    \/ Resolve("opening", "failed")

\* Everything up to the loop; the configuration of the client may be refused.
Startup ==
    \/ Report(RequestStart(phase), "begin", "startup_cancel")
    \/ Resolve("begin", "failed")
    \/ StartupChecks
    \/ Probe
    \/ Report(MarkAllocating(phase), "allocate", "opening")
    \/ Open
    \/ Report(MarkRunning(phase), "run", IF left = 0 THEN "final_cancel" ELSE "loop_cancel")

\* The top of the loop over the chunks.
LoopChecks ==
    \/ Check(cancel, "loop_cancel", "stop_cancelled", "loop_pause")
    \/ Check(pause, "loop_pause", "stop_paused", "spawn")

MaySpawn == ~pause /\ ~cancel /\ inflight < Parallelism /\ inflight < left

SpawnChunk ==
    /\ MaySpawn
    /\ Step("spawn", "spawn")
    /\ inflight' = inflight + 1
    /\ UNCHANGED <<phase, left, promoted>>

SpawnDone ==
    /\ ~MaySpawn
    /\ Resolve("spawn", IF inflight = 0 THEN "drained" ELSE "join")

\* Mutant: the committed chunk stays among the pending ones.
JoinCommittedAgain ==
    /\ Step("join", "joined")
    /\ inflight' = inflight - 1
    /\ UNCHANGED <<phase, left, promoted>>

\* join_next yields a chunk task that committed its chunk.
JoinCommitted ==
    /\ Step("join", "joined")
    /\ inflight' = inflight - 1
    /\ left' = left - 1
    /\ UNCHANGED <<phase, promoted>>

\* A chunk task saw a flag, or failed; a commit that failed may have reached the
\* disk all the same.
JoinStopped ==
    /\ inflight' = inflight - 1
    /\ \/ cancel /\ Step("join", "stop_chunk") /\ left' = left
       \/ pause /\ Step("join", "stop_paused") /\ left' = left
       \/ Step("join", "stop_failed") /\ left' \in {left, left - 1}
    /\ UNCHANGED <<phase, promoted>>

Joined == Check(pause /\ inflight = 0, "joined", "stop_paused", "loop_cancel")

\* The chunk tasks are aborted; a commit one of them has queued still lands.
ChunksAborted ==
    /\ inflight' = 0
    /\ \E landed \in 0 .. inflight : left' = left - landed

\* tasks.shutdown, then finish_part_writer: the writer's own error prevails.
Stop(from, to) ==
    /\ \/ Step(from, to)
       \/ Step(from, "failed")
    /\ ChunksAborted
    /\ UNCHANGED <<phase, promoted>>

Loop ==
    \/ LoopChecks
    \/ SpawnChunk \/ SpawnDone
    \/ JoinCommitted \/ JoinStopped
    \/ Joined
    \/ Stop("stop_cancelled", "cancelled")
    \/ Stop("stop_paused", "paused")
    \/ Stop("stop_chunk", "leave_cancelled")
    \/ Stop("stop_failed", "failed")
    \/ Stop("drained", "drained_pause")

\* Mutant: a cancelled download with nothing in flight is verified.
FinalChecksNoCancel ==
    \/ Check(pause, "drained_pause", "paused", "final_cancel")
    \/ Check(FALSE, "final_cancel", "cancelled", "final_pause")
    \/ Check(pause, "final_pause", "paused", "verify")

\* The last looks at the flags, before finalize_part commits itself.
FinalChecks ==
    \/ Check(pause, "drained_pause", "paused", "final_cancel")
    \/ Check(cancel, "final_cancel", "cancelled", "final_pause")
    \/ Check(pause, "final_pause", "paused", "verify")

\* PartFile::finalize in the blocking pool; nothing fails after the rename.
Finalized ==
    /\ \/ Step("finalizing", "complete") /\ promoted' = TRUE
       \/ Step("finalizing", "failed") /\ UNCHANGED promoted
    /\ UNCHANGED <<phase, inflight, left>>

Finish ==
    \/ FinalChecks
    \/ Report(MarkVerifying(phase), "verify", "finalizing")
    \/ Finalized
    \/ Report(MarkCompleted(phase), "complete", "exit")
    \/ Report(MarkPaused(phase), "paused", "exit")
    \/ Report(MarkCancelled(phase), "cancelled", "leave_cancelled")
    \/ Report(MarkCancelled(phase), "leave_cancelled", "exit")
    \/ Report(MarkFailed(phase), "failed", "exit")
    \/ Resolve("exit", "none")

\* The runtime drops an aborted task at an await; a finalize the blocking pool
\* has begun runs on without it.
Aborted ==
    /\ aborted
    /\ task \in AwaitPoints
    /\ task' = IF task = "finalizing" THEN "orphan" ELSE "none"
    /\ ChunksAborted
    /\ UNCHANGED <<shared, join, lock, promoted, callers, dropped, aborted>>

OrphanFinalized ==
    /\ Step("orphan", "none")
    /\ promoted' \in BOOLEAN
    /\ UNCHANGED <<phase, inflight, left>>

Task == Startup \/ Loop \/ Finish \/ Aborted \/ OrphanFinalized

-----------------------------------------------------------------------------

Calls(t) == (\E entry \in {"s_lock", "p_flag", "c_flag"} : Call(t, entry)) \/ DropFlag(t)

\* Every call returned, no task left: nothing happens until the next call.
Quiet == task = "none" /\ \A t \in Threads : at[t] = "idle"

Next ==
    \/ Task
    \/ \E t \in Threads : Calls(t) \/ Caller(t)

Spec == Init /\ [][Next]_vars

\* The runtime polls the task and the blocking pool finishes its jobs (a server
\* that stalls is answered for by a timeout); a thread inside a call goes on.
\* Nobody has to call.
FairSpec ==
    /\ Spec
    /\ WF_vars(Task)
    /\ \A t \in Threads : WF_vars(Caller(t))

-----------------------------------------------------------------------------
(* Properties                                                              *)

\* Two racing starts never leave two tasks on one part file: a thread about to
\* spawn has taken over from a task that ended (the join mutex of start_on).
NoSecondTask == \A t \in Threads : at[t] = "s_spawn" => task = "none"

\* Stopping empties the JoinSet exactly as finishing does, and the loop leaves
\* both ways; still only a part that lacks nothing goes to verification.
OnlyWholePartsVerified == task \in {"verify", "finalizing", "complete", "orphan"} => left = 0

\* When all is quiet the phase does not claim a task at work: whatever order
\* requests and reports fell in, the task's last report was heard.
NoOrphanedActivePhase ==
    Quiet /\ dropped = "no" => phase \notin {"Starting", "Allocating", "Running", "Verifying"}

\* While a task lives, a request to pause or to cancel is not taken back by
\* anyone, a refused start included.
FlagsStick ==
    [][task # "none" => (pause => pause') /\ (cancel => cancel')]_vars

\* A handle dropped before its task's last look at the cancel flag does not
\* make a target appear afterwards, wherever the abort finds the task.
BeforeLastLook == TaskPoints \ {"final_pause", "verify", "finalizing", "complete", "orphan"}

DropStops == [][(dropped \in BeforeLastLook) => (promoted' = promoted)]_vars

\* What makes these inductive.  Of the callers: who starts holds the mutex, with no
\* task about, and nobody calls after the drop.
Starting == {"s_pause", "s_cancel", "s_request", "s_spawn"}

CallersInv ==
    /\ \A t \in Threads : at[t] \in Starting <=> lock = t
    /\ (\E t \in Threads : at[t] \in Starting) => task = "none" /\ ~join
    /\ task # "none" /\ dropped = "no" => join
    /\ dropped # "no" => \A t \in Threads : at[t] \in {"idle", "d_abort"}
    /\ \A t \in Threads : at[t] = "d_abort" => dropped # "no"
    /\ aborted \/ task = "orphan" => dropped # "no"
    /\ dropped \in BeforeLastLook => cancel /\ task \in BeforeLastLook

\* Of the work: only the loop has chunk tasks, and a task that left it with chunks
\* missing did so because of a flag, which it is still going to look at.
InLoop == {"loop_cancel", "loop_pause", "spawn", "join", "joined",
           "stop_cancelled", "stop_paused", "stop_chunk", "stop_failed"}

WorkInv ==
    /\ task = "join" => inflight > 0
    /\ task \notin InLoop => inflight = 0
    /\ task \in {"drained", "drained_pause"} => left = 0 \/ pause \/ cancel
    /\ task = "final_cancel" => left = 0 \/ cancel
    /\ task \in {"final_pause", "verify", "finalizing", "complete", "orphan"} => left = 0

\* Of the phase: what a task has reported before it makes its next report heard.
Claims == {"Starting", "Allocating", "Running", "Verifying"}

PhaseInv ==
    /\ task \notin {"none", "finalizing", "complete", "failed", "orphan"} => phase # "Verifying"
    /\ task = "none" /\ dropped = "no" => phase # "Verifying"
    /\ task \in InLoop \cup {"drained", "drained_pause", "final_cancel", "final_pause", "verify",
                             "finalizing", "complete"} => phase \notin {"Starting", "Allocating"}
    /\ task \in {"finalizing", "complete"} => phase # "Running"
    /\ task = "exit" => phase \notin Claims
    /\ task = "none" /\ dropped = "no" /\ (\A t \in Threads : at[t] # "s_spawn")
       => phase \notin Claims

\* Every task ends, whatever was requested of it and when.
TaskEnds == task # "none" ~> task = "none"

\* state.rs:27: at Pausing "a pause was requested and in-flight work is winding
\* down".  (Violated: a pause after the last look, before mark_verifying.)
PausingWindsDown == Quiet /\ dropped = "no" => phase # "Pausing"
=============================================================================
