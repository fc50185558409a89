------------------------- MODULE DownloadHandleProofs -------------------------
(***************************************************************************)
(* Proofs about DownloadHandle for every set of threads, number of chunks  *)
(* and parallelism: no two tasks, no incomplete part verified, no phase    *)
(* that claims a task at work when none is, requests that stick, and a     *)
(* drop that stops.                                                        *)
(***************************************************************************)
EXTENDS DownloadHandle, TLAPS

USE ChunkCountAssumption, ParallelismAssumption, MaxCallsAssumption

\* A call under way moves one thread.
LEMMA GotoMoves ==
    ASSUME NEW t \in Threads, NEW from, NEW to \in CallPoints,
           at \in [Threads -> CallPoints], Goto(t, from, to)
    PROVE  /\ at' \in [Threads -> CallPoints]
           /\ at[t] = from /\ at'[t] = to
           /\ \A u \in Threads : u # t => at'[u] = at[u]
BY DEF Goto

\* Every request and every mark leads to a phase.
LEMMA PhasesTyped ==
    ASSUME phase \in Phases
    PROVE  /\ RequestStart(phase) \in Phases /\ RequestPause(phase) \in Phases
           /\ RequestCancel(phase) \in Phases
           /\ MarkAllocating(phase) \in Phases /\ MarkRunning(phase) \in Phases
           /\ MarkVerifying(phase) \in Phases /\ MarkPaused(phase) \in Phases
           /\ MarkCancelled(phase) \in Phases /\ MarkCompleted(phase) \in Phases
           /\ MarkFailed(phase) \in Phases
BY DEF Phases, RequestStart, RequestPause, RequestCancel, MarkAllocating, MarkRunning,
       MarkVerifying, MarkPaused, MarkCancelled, MarkCompleted, MarkFailed, Moved

\* The chunk tasks that are aborted take what they had queued with them.
LEMMA AbortedWork ==
    ASSUME TypeOK, ChunksAborted
    PROVE  /\ inflight' = 0 /\ left' \in 0 .. ChunkCount
           /\ left' <= left
           /\ inflight = 0 => left' = left
BY DEF TypeOK, ChunksAborted

\* Types and the work together: a chunk task is joined only when there is one.
HandleTyped == TypeOK /\ WorkInv

\* The handle starts with its variables typed.
LEMMA TypedInit == Init => HandleTyped
<1> SUFFICES ASSUME Init PROVE HandleTyped
  OBVIOUS
<1>1. at \in [Threads -> CallPoints]
  BY DEF Init, CallPoints
<1>2. task \in TaskPoints /\ phase \in Phases
  BY DEF Init, TaskPoints, Phases
<1>3. /\ inflight \in 0 .. Parallelism /\ left \in 0 .. ChunkCount /\ inflight <= left
      /\ calls \in 0 .. MaxCalls
  BY DEF Init
<1>4. WorkInv
  BY DEF Init, WorkInv
<1>5. QED
  BY <1>1, <1>2, <1>3, <1>4 DEF HandleTyped, TypeOK, Init

\* Types are kept by the calls of the host's threads.
LEMMA TypedCallers ==
    ASSUME HandleTyped, CallersInv, NEW t \in Threads, Calls(t) \/ Caller(t)
    PROVE  HandleTyped'
<1> USE DEF HandleTyped
<1>1. at' \in [Threads -> CallPoints]
  BY DEF TypeOK, Calls, Call, DropFlag, Caller, StartRefused, StartAccepted, StartClearPause,
         StartClearCancel, StartRequest, StartSpawn, PauseFlag, PauseRequest, CancelFlag,
         CancelRequest, CancelLeavesTask, CancelFindsNoTask, CancelMark, DropAbort,
         Returns, Goto, CallPoints
<1>2. phase' \in Phases
  BY PhasesTyped
     DEF TypeOK, Calls, Call, DropFlag, Caller, StartRefused, StartAccepted, StartClearPause,
         StartClearCancel, StartRequest, StartSpawn, PauseFlag, PauseRequest, CancelFlag,
         CancelRequest, CancelLeavesTask, CancelFindsNoTask, CancelMark, DropAbort, shared
<1>3. /\ pause' \in BOOLEAN /\ cancel' \in BOOLEAN /\ join' \in BOOLEAN /\ aborted' \in BOOLEAN
      /\ lock' \in Threads \cup {NoThread}
  BY DEF TypeOK, Calls, Call, DropFlag, Caller, StartRefused, StartAccepted, StartClearPause,
         StartClearCancel, StartRequest, StartSpawn, PauseFlag, PauseRequest, CancelFlag,
         CancelRequest, CancelLeavesTask, CancelFindsNoTask, CancelMark, DropAbort, shared
<1>4. dropped' \in TaskPoints \cup {"no"} /\ task' \in TaskPoints
  BY DEF TypeOK, Calls, Call, DropFlag, Caller, StartRefused, StartAccepted, StartClearPause,
         StartClearCancel, StartRequest, StartSpawn, PauseFlag, PauseRequest, CancelFlag,
         CancelRequest, CancelLeavesTask, CancelFindsNoTask, CancelMark, DropAbort,
         TaskPoints, AwaitPoints
<1>5. calls' \in 0 .. MaxCalls
  BY DEF TypeOK, Calls, Call, DropFlag, Caller, StartRefused, StartAccepted, StartClearPause,
         StartClearCancel, StartRequest, StartSpawn, PauseFlag, PauseRequest, CancelFlag,
         CancelRequest, CancelLeavesTask, CancelFindsNoTask, CancelMark, DropAbort
<1>6. UNCHANGED work
  BY DEF Calls, Call, DropFlag, Caller, StartRefused, StartAccepted, StartClearPause,
         StartClearCancel, StartRequest, StartSpawn, PauseFlag, PauseRequest, CancelFlag,
         CancelRequest, CancelLeavesTask, CancelFindsNoTask, CancelMark, DropAbort
<1>7. \/ task' = task /\ (task # "none" => (pause => pause') /\ (cancel => cancel'))
      \/ task = "none" /\ task' = "begin"
  BY DEF CallersInv, Starting, Calls, Call, DropFlag, Caller, StartRefused, StartAccepted,
         StartClearPause, StartClearCancel, StartRequest, StartSpawn, PauseFlag, PauseRequest,
         CancelFlag, CancelRequest, CancelLeavesTask, CancelFindsNoTask, CancelMark, DropAbort,
         Returns, Goto, shared
<1>8. WorkInv'
  BY <1>6, <1>7 DEF WorkInv, work, InLoop
<1>9. QED
  BY <1>1, <1>2, <1>3, <1>4, <1>5, <1>6, <1>8 DEF TypeOK, work

\* Types are kept by the task.
LEMMA TypedTask ==
    ASSUME HandleTyped, Task
    PROVE  HandleTyped'
<1> USE DEF HandleTyped, TypeOK, TaskPoints, AwaitPoints, Step, callers, shared
<1>1. CASE Startup
  <2>1. /\ UNCHANGED <<pause, cancel, join, lock, callers, dropped, aborted, work>>
        /\ phase' \in Phases /\ task' \in TaskPoints
    BY <1>1, PhasesTyped DEF Startup, StartupChecks, Probe, Open, Report, Resolve, Check
  <2>2. /\ task \notin InLoop \cup {"drained"} /\ inflight = 0
        /\ task' \notin {"join", "drained", "drained_pause", "final_pause", "verify",
                         "finalizing", "complete", "orphan"}
        /\ task' = "final_cancel" => left = 0
    BY <1>1 DEF Startup, StartupChecks, Probe, Open, Report, Resolve, Check, InLoop, WorkInv
  <2>3. WorkInv'
    BY <2>1, <2>2 DEF WorkInv, work
  <2>4. QED
    BY <2>1, <2>3 DEF work
<1>2. CASE Loop
  <2>1. UNCHANGED <<pause, cancel, join, lock, callers, dropped, aborted, phase, promoted>>
    BY <1>2 DEF Loop, LoopChecks, SpawnChunk, SpawnDone, JoinCommitted, JoinStopped, Joined,
                Stop, Resolve, Check, work
  <2>2. CASE LoopChecks \/ SpawnDone \/ Joined
    <3>1. /\ UNCHANGED work /\ task \in InLoop
          /\ task' \in {"stop_cancelled", "loop_pause", "stop_paused", "spawn", "drained",
                        "join", "loop_cancel"}
          /\ task' = "drained" => inflight = 0 /\ ~MaySpawn
          /\ task' = "join" => inflight # 0
      BY <2>2 DEF LoopChecks, SpawnDone, Joined, Check, Resolve, InLoop
    <3>2. task' = "drained" => left = 0 \/ pause \/ cancel
      BY <3>1 DEF MaySpawn
    <3>3. QED
      BY <2>1, <3>1, <3>2 DEF work, WorkInv, InLoop
  <2>3. CASE SpawnChunk
    BY <2>1, <2>3 DEF SpawnChunk, MaySpawn, WorkInv, InLoop
  <2>4. CASE JoinCommitted
    BY <2>1, <2>4 DEF JoinCommitted, WorkInv, InLoop
  <2>5. CASE JoinStopped
    <3>1. /\ inflight > 0 /\ inflight' = inflight - 1 /\ left' \in {left, left - 1}
          /\ task' \in {"stop_chunk", "stop_paused", "stop_failed"}
      BY <2>5 DEF JoinStopped, WorkInv
    <3>2. QED
      BY <2>1, <3>1 DEF WorkInv, InLoop
  <2>6. ASSUME NEW from, NEW to, Stop(from, to),
               \/ from \in InLoop /\ to \in {"cancelled", "paused", "leave_cancelled", "failed"}
               \/ from = "drained" /\ to = "drained_pause"
        PROVE  HandleTyped'
    <3>1. inflight' = 0 /\ left' \in 0 .. ChunkCount
      BY <2>6, AbortedWork DEF Stop
    <3>2. task = from /\ task' \in {to, "failed"} /\ UNCHANGED <<phase, promoted>>
      BY <2>6 DEF Stop
    <3>3. from = "drained" => left' = left
      BY <2>6, <3>2, AbortedWork DEF Stop, WorkInv, InLoop
    <3>4. WorkInv'
      BY <2>1, <2>6, <3>1, <3>2, <3>3 DEF WorkInv
    <3>5. QED
      BY <2>1, <2>6, <3>1, <3>2, <3>4 DEF InLoop
  <2>7. QED
    BY <1>2, <2>2, <2>3, <2>4, <2>5, <2>6 DEF Loop, InLoop
<1>3. CASE Finish
  <2>1. /\ UNCHANGED <<pause, cancel, join, lock, callers, dropped, aborted, inflight, left>>
        /\ phase' \in Phases /\ task' \in TaskPoints /\ promoted' \in BOOLEAN
    BY <1>3, PhasesTyped DEF Finish, FinalChecks, Finalized, Report, Resolve, Check, work
  <2>2. WorkInv'
    <3>1. /\ inflight = 0 /\ task' \notin {"join", "drained", "drained_pause", "orphan"}
          /\ task' = "final_cancel" => left = 0 \/ cancel
          /\ task' \in {"final_pause", "verify", "finalizing", "complete"} => left = 0
      BY <1>3 DEF Finish, FinalChecks, Finalized, Report, Resolve, Check, WorkInv, InLoop
    <3>2. QED
      BY <2>1, <3>1 DEF WorkInv
  <2>3. QED
    BY <2>1, <2>2
<1>4. CASE Aborted
  <2>1. inflight' = 0 /\ left' \in 0 .. ChunkCount
    BY <1>4, AbortedWork DEF Aborted
  <2>2. task = "finalizing" => left' = left
    BY <1>4, AbortedWork DEF Aborted, WorkInv, InLoop
  <2>3. /\ UNCHANGED <<shared, join, lock, promoted, callers, dropped, aborted>>
        /\ task' \in {"none", "orphan"}
        /\ task' = "orphan" => task = "finalizing"
    BY <1>4 DEF Aborted
  <2>4. WorkInv'
    BY <2>1, <2>2, <2>3 DEF WorkInv
  <2>5. QED
    BY <2>1, <2>3, <2>4
<1>5. CASE OrphanFinalized
  BY <1>5 DEF OrphanFinalized, WorkInv, InLoop
<1>6. QED
  BY <1>1, <1>2, <1>3, <1>4, <1>5 DEF Task

-----------------------------------------------------------------------------
\* Who starts a download holds the mutex, and finds no task.
LEMMA NotDropped == "no" \notin BeforeLastLook /\ "no" \notin TaskPoints
BY DEF BeforeLastLook, TaskPoints, AwaitPoints

\* Nobody calls at first.
LEMMA CallersInit == Init => CallersInv
BY NobodyAssumption, NotDropped DEF Init, CallersInv, Starting

\* Calls exclude one another between the check of start_on and its spawn.
LEMMA CallersCallers ==
    ASSUME HandleTyped, CallersInv, NEW t \in Threads, Calls(t) \/ Caller(t)
    PROVE  CallersInv'
<1> USE NobodyAssumption, NotDropped DEF HandleTyped, TypeOK, CallersInv
<1>1. CASE \E entry \in {"s_lock", "p_flag", "c_flag"} : Call(t, entry)
  <2>1. PICK entry \in {"s_lock", "p_flag", "c_flag"} : Call(t, entry)
    BY <1>1
  <2>2. /\ UNCHANGED <<cancel, join, lock, task, dropped, aborted>> /\ dropped = "no"
        /\ at[t] = "idle" /\ at' = [at EXCEPT ![t] = entry]
    BY <2>1 DEF Call, Goto, shared
  <2>3. at'[t] \notin Starting /\ at[t] \notin Starting
    BY <2>2 DEF Starting
  <2>4. QED
    BY <2>2, <2>3
<1>2. CASE DropFlag(t)
  <2>1. /\ UNCHANGED <<join, lock, task, aborted>> /\ dropped = "no" /\ dropped' = task
        /\ at' = [at EXCEPT ![t] = "d_abort"] /\ cancel'
        /\ \A u \in Threads : at[u] = "idle"
    BY <1>2 DEF DropFlag, Goto
  <2>2. \A u \in Threads : at'[u] \in {"idle", "d_abort"}
    BY <2>1
  <2>3. \A u \in Threads : at'[u] \notin Starting /\ at[u] \notin Starting
    BY <2>1, <2>2 DEF Starting
  <2>4. dropped' # "no"
    BY <2>1
  <2>5. QED
    BY <2>1, <2>2, <2>3, <2>4
<1>3. CASE StartAccepted(t)
  <2>1. /\ at[t] = "s_lock" /\ at' = [at EXCEPT ![t] = "s_pause"] /\ lock = NoThread
        /\ lock' = t /\ ~join' /\ ~(join /\ task # "none")
        /\ UNCHANGED <<cancel, task, dropped, aborted>>
    BY <1>3 DEF StartAccepted, Goto, shared
  <2>2. dropped = "no" /\ task = "none"
    BY <2>1
  <2>3. \A u \in Threads : at'[u] \in Starting <=> u = t
    BY <2>1 DEF Starting
  <2>4. QED
    BY <2>1, <2>2, <2>3
<1>4. CASE StartSpawn(t)
  <2>1. /\ at[t] = "s_spawn" /\ at' = [at EXCEPT ![t] = "idle"] /\ lock' = NoThread
        /\ join' /\ task' = "begin" /\ UNCHANGED <<cancel, dropped, aborted>>
    BY <1>4 DEF StartSpawn, Returns, Goto, shared
  <2>2. lock = t /\ dropped = "no" /\ task = "none"
    BY <2>1 DEF Starting
  <2>3. \A u \in Threads : at'[u] \notin Starting
    BY <2>1, <2>2 DEF Starting
  <2>4. QED
    BY <2>1, <2>2, <2>3
<1>5. CASE DropAbort(t)
  <2>1. /\ at[t] = "d_abort" /\ at' = [at EXCEPT ![t] = "idle"] /\ ~join'
        /\ UNCHANGED <<cancel, lock, task, dropped>>
    BY <1>5 DEF DropAbort, Returns, Goto, shared
  <2>2. at'[t] \notin Starting /\ at[t] \notin Starting
    BY <2>1 DEF Starting
  <2>3. dropped # "no"
    BY <2>1
  <2>4. QED
    BY <2>1, <2>2, <2>3
<1>6. CASE StartClearPause(t) \/ StartClearCancel(t) \/ StartRequest(t)
  <2>1. /\ at[t] \in Starting /\ UNCHANGED <<join, lock, task, dropped, aborted>>
        /\ \E to \in Starting : at' = [at EXCEPT ![t] = to]
    BY <1>6 DEF StartClearPause, StartClearCancel, StartRequest, Goto, Starting
  <2>2. dropped = "no"
    BY <2>1 DEF Starting
  <2>3. \A u \in Threads : /\ (at'[u] \in Starting <=> at[u] \in Starting)
                            /\ (at'[u] = "d_abort" => at[u] = "d_abort")
    BY <2>1 DEF Starting
  <2>4. QED
    BY <2>1, <2>2, <2>3
<1>7. CASE \/ StartRefused(t) \/ PauseFlag(t) \/ PauseRequest(t) \/ CancelFlag(t)
           \/ CancelRequest(t) \/ CancelLeavesTask(t) \/ CancelFindsNoTask(t) \/ CancelMark(t)
  <2>1. /\ at[t] \in CallPoints \ (Starting \cup {"idle", "d_abort"})
        /\ \E to \in CallPoints \ (Starting \cup {"d_abort"}) : at' = [at EXCEPT ![t] = to]
        /\ UNCHANGED <<join, lock, task, dropped, aborted>>
    BY <1>7 DEF StartRefused, PauseFlag, PauseRequest, CancelFlag, CancelRequest,
                CancelLeavesTask, CancelFindsNoTask, CancelMark, Returns, Goto, Starting,
                CallPoints
  <2>2. dropped = "no"
    BY <2>1
  <2>3. \A u \in Threads : /\ (at'[u] \in Starting <=> at[u] \in Starting)
                            /\ (at'[u] = "d_abort" => at[u] = "d_abort")
    BY <2>1 DEF Starting
  <2>4. QED
    BY <2>1, <2>2, <2>3
<1>8. QED
  BY <1>1, <1>2, <1>3, <1>4, <1>5, <1>6, <1>7 DEF Calls, Caller

\* The task leaves the callers alone, and after an early drop stops short of the
\* last look.
LEMMA CallersTask ==
    ASSUME HandleTyped, CallersInv, Task
    PROVE  CallersInv'
<1>1. UNCHANGED <<pause, cancel, join, lock, callers, dropped, aborted>>
  BY DEF Task, Startup, StartupChecks, Probe, Open, Loop, LoopChecks, SpawnChunk, SpawnDone,
         JoinCommitted, JoinStopped, Joined, Stop, Finish, FinalChecks, Finalized, Aborted,
         OrphanFinalized, Report, Resolve, Check, Step, shared
<1>2. task # "none"
  BY DEF Task, Startup, StartupChecks, Probe, Open, Loop, LoopChecks, SpawnChunk, SpawnDone,
         JoinCommitted, JoinStopped, Joined, Stop, Finish, FinalChecks, Finalized, Aborted,
         OrphanFinalized, Report, Resolve, Check, Step, AwaitPoints
<1>3. ASSUME cancel, task \in BeforeLastLook PROVE task' \in BeforeLastLook
  <2>1. CASE Startup
    BY <1>3, <2>1 DEF Startup, StartupChecks, Probe, Open, Report, Resolve, Check, Step,
                      BeforeLastLook, TaskPoints, AwaitPoints
  <2>2. CASE Loop
    BY <1>3, <2>2 DEF Loop, LoopChecks, SpawnChunk, SpawnDone, JoinCommitted, JoinStopped,
                      Joined, Stop, Resolve, Check, Step, BeforeLastLook, TaskPoints,
                      AwaitPoints
  <2>3. CASE Finish
    BY <1>3, <2>3 DEF Finish, FinalChecks, Finalized, Report, Resolve, Check, Step,
                      BeforeLastLook, TaskPoints, AwaitPoints
  <2>4. CASE Aborted
    BY <1>3, <2>4 DEF Aborted, BeforeLastLook, TaskPoints
  <2>5. CASE OrphanFinalized
    BY <1>3, <2>5 DEF OrphanFinalized, Step, BeforeLastLook, TaskPoints
  <2>6. QED
    BY <2>1, <2>2, <2>3, <2>4, <2>5 DEF Task
<1>4. UNCHANGED at
  BY <1>1 DEF callers
<1>5. task' = "orphan" => aborted
  BY DEF Task, Startup, StartupChecks, Probe, Open, Loop, LoopChecks, SpawnChunk, SpawnDone,
         JoinCommitted, JoinStopped, Joined, Stop, Finish, FinalChecks, Finalized, Aborted,
         OrphanFinalized, Report, Resolve, Check, Step
<1>6. QED
  BY <1>1, <1>2, <1>3, <1>4, <1>5 DEF CallersInv

-----------------------------------------------------------------------------
\* The phase is what the task last reported, or what was requested since.
LEMMA PhaseInit == Init => PhaseInv
BY NotDropped DEF Init, PhaseInv, InLoop, Claims

\* What a request makes of the phase: it starts nothing, and verifies nothing.
LEMMA Requests ==
    /\ RequestPause(phase) \in {phase, "Pausing"}
    /\ RequestCancel(phase) \in {phase, "Cancelling", "Cancelled"}
    /\ MarkCancelled(phase) \in {phase, "Cancelled"}
    /\ RequestStart(phase) \in {phase, "Starting"}
BY DEF RequestPause, RequestCancel, MarkCancelled, RequestStart, Moved

\* A request claims no work that was not claimed.
LEMMA PhaseCallers ==
    ASSUME HandleTyped, CallersInv, PhaseInv, NEW t \in Threads, Calls(t) \/ Caller(t)
    PROVE  PhaseInv'
<1> USE DEF HandleTyped, TypeOK
<1>1. CASE StartRequest(t)
  <2>1. /\ at[t] = "s_request" /\ at'[t] = "s_spawn" /\ UNCHANGED <<task, dropped>>
        /\ phase' \in {phase, "Starting"}
    BY <1>1, Requests DEF StartRequest, Goto
  <2>2. task = "none" /\ dropped = "no"
    BY <2>1 DEF CallersInv, Starting
  <2>3. QED
    BY <2>1, <2>2 DEF PhaseInv, InLoop
<1>2. CASE StartSpawn(t)
  <2>1. at[t] = "s_spawn" /\ task' = "begin" /\ UNCHANGED <<phase, dropped>>
    BY <1>2 DEF StartSpawn, Returns, Goto, shared
  <2>2. task = "none" /\ dropped = "no"
    BY <2>1 DEF CallersInv, Starting
  <2>3. QED
    BY <2>1, <2>2 DEF PhaseInv, InLoop
<1>3. CASE DropFlag(t)
  <2>1. UNCHANGED <<phase, task>> /\ dropped' # "no"
    BY <1>3, NotDropped DEF DropFlag
  <2>2. QED
    BY <2>1 DEF PhaseInv
<1>4. CASE ~StartRequest(t) /\ ~StartSpawn(t) /\ ~DropFlag(t)
  <2>1. UNCHANGED <<task, dropped>> /\ at[t] # "s_spawn"
    BY <1>4 DEF Calls, Call, Caller, StartRefused, StartAccepted, StartClearPause,
       StartClearCancel, PauseFlag, PauseRequest, CancelFlag, CancelRequest,
       CancelLeavesTask, CancelFindsNoTask, CancelMark, DropAbort, Returns, Goto, shared
  <2>2. phase' \in {phase, "Pausing", "Cancelling", "Cancelled"}
    BY <1>4, Requests
    DEF Calls, Call, Caller, StartRefused, StartAccepted, StartClearPause,
       StartClearCancel, PauseFlag, PauseRequest, CancelFlag, CancelRequest,
       CancelLeavesTask, CancelFindsNoTask, CancelMark, DropAbort, shared
  <2>3. \E to \in CallPoints : at' = [at EXCEPT ![t] = to]
    BY <1>4 DEF Calls, Call, Caller, StartRefused, StartAccepted, StartClearPause,
       StartClearCancel, PauseFlag, PauseRequest, CancelFlag, CancelRequest,
       CancelLeavesTask, CancelFindsNoTask, CancelMark, DropAbort, Returns, Goto, CallPoints
  <2>4. (\A u \in Threads : at'[u] # "s_spawn") => (\A u \in Threads : at[u] # "s_spawn")
    BY <2>1, <2>3
  <2>5. QED
    BY <2>1, <2>2, <2>4 DEF PhaseInv, Claims
<1>5. QED
  BY <1>1, <1>2, <1>3, <1>4

\* What a report makes of the phase.
LEMMA Reports ==
    ASSUME phase \in Phases
    PROVE  /\ RequestStart(phase) = "Verifying" => phase = "Verifying"
           /\ MarkAllocating(phase) = "Verifying" => phase = "Verifying"
           /\ MarkRunning(phase) \notin {"Starting", "Allocating"}
           /\ MarkRunning(phase) = "Verifying" => phase = "Verifying"
           /\ MarkVerifying(phase) # "Running"
           /\ MarkVerifying(phase) \in {phase, "Verifying"}
           /\ phase \notin {"Starting", "Allocating", "Running"}
              => MarkCompleted(phase) \notin Claims
           /\ phase # "Verifying" => MarkPaused(phase) \notin Claims
           /\ phase # "Verifying" => MarkCancelled(phase) \notin Claims
           /\ MarkFailed(phase) \notin Claims
BY DEF Phases, RequestStart, MarkAllocating, MarkRunning, MarkVerifying, MarkPaused,
       MarkCancelled, MarkCompleted, MarkFailed, Moved, Active, Claims

\* What the task marks, it does.
LEMMA PhaseTask ==
    ASSUME HandleTyped, CallersInv, PhaseInv, Task
    PROVE  PhaseInv'
<1> USE Reports DEF HandleTyped, TypeOK, Step
<1>1. UNCHANGED <<callers, dropped, aborted>> /\ UNCHANGED at
  BY DEF Task, Startup, StartupChecks, Probe, Open, Loop, LoopChecks, SpawnChunk, SpawnDone,
         JoinCommitted, JoinStopped, Joined, Stop, Finish, FinalChecks, Finalized, Aborted,
         OrphanFinalized, Report, Resolve, Check, callers
<1>2. CASE Startup
  BY <1>1, <1>2 DEF Startup, StartupChecks, Probe, Open, Report, Resolve, Check, PhaseInv,
                    InLoop
<1>3. CASE Loop
  <2>1. UNCHANGED phase /\ task \in InLoop \cup {"drained"}
    BY <1>3 DEF Loop, LoopChecks, SpawnChunk, SpawnDone, JoinCommitted, JoinStopped, Joined,
                Stop, Resolve, Check, InLoop
  <2>2. task' \in InLoop \cup {"drained", "drained_pause", "cancelled", "leave_cancelled",
                                "paused", "failed"}
    BY <1>3 DEF Loop, LoopChecks, SpawnChunk, SpawnDone, JoinCommitted, JoinStopped, Joined,
                Stop, Resolve, Check, InLoop
  <2>3. QED
    BY <1>1, <2>1, <2>2 DEF PhaseInv, InLoop
<1>4. CASE FinalChecks
  BY <1>1, <1>4 DEF FinalChecks, Check, PhaseInv, InLoop
<1>5. CASE Report(MarkVerifying(phase), "verify", "finalizing")
  BY <1>1, <1>5 DEF Report, PhaseInv, InLoop
<1>6. CASE Finalized
  BY <1>1, <1>6 DEF Finalized, PhaseInv, InLoop
<1>7. CASE Report(MarkCompleted(phase), "complete", "exit")
  BY <1>1, <1>7 DEF Report, PhaseInv, InLoop, Claims
<1>8. CASE \/ Report(MarkPaused(phase), "paused", "exit")
           \/ Report(MarkCancelled(phase), "cancelled", "leave_cancelled")
           \/ Report(MarkCancelled(phase), "leave_cancelled", "exit")
           \/ Report(MarkFailed(phase), "failed", "exit")
  BY <1>1, <1>8 DEF Report, PhaseInv, InLoop, Claims
<1>9. CASE Resolve("exit", "none")
  BY <1>1, <1>9 DEF Resolve, PhaseInv, InLoop, Claims
<1>10. CASE Aborted \/ OrphanFinalized
  <2>1. /\ UNCHANGED phase /\ task' \in {"none", "orphan"} /\ dropped # "no"
    BY <1>10 DEF Aborted, OrphanFinalized, shared, CallersInv
  <2>2. QED
    BY <1>1, <2>1 DEF PhaseInv, InLoop
<1>11. QED
  BY <1>2, <1>3, <1>4, <1>5, <1>6, <1>7, <1>8, <1>9, <1>10 DEF Task, Finish

-----------------------------------------------------------------------------
HandleInv == HandleTyped /\ CallersInv /\ PhaseInv

\* All of it is kept by every step.
LEMMA HandleInvInductive == HandleInv /\ [Next]_vars => HandleInv'
<1> SUFFICES ASSUME HandleInv, [Next]_vars PROVE HandleInv'
  OBVIOUS
<1>1. CASE Task
  BY <1>1, TypedTask, CallersTask, PhaseTask DEF HandleInv
<1>2. CASE \E t \in Threads : Calls(t) \/ Caller(t)
  BY <1>2, TypedCallers, CallersCallers, PhaseCallers DEF HandleInv
<1>3. CASE UNCHANGED vars
  BY <1>3 DEF HandleInv, HandleTyped, TypeOK, WorkInv, CallersInv, PhaseInv, vars
<1>4. QED
  BY <1>1, <1>2, <1>3 DEF Next

\* The variables keep their types, and who starts, what the task still lacks and
\* the phase fit where the task and the calls stand.
THEOREM HandleInvariant == Spec => []HandleInv
<1>1. Init => HandleInv
  BY TypedInit, CallersInit, PhaseInit DEF HandleInv
<1>2. QED
  BY <1>1, HandleInvInductive, PTL DEF Spec

\* The join mutex of start_on: a thread about to spawn finds no task, so two
\* racing starts never leave two on one part file.
THEOREM NeverASecondTask == Spec => []NoSecondTask
<1>1. HandleInv => NoSecondTask
  BY DEF HandleInv, CallersInv, Starting, NoSecondTask
<1>2. QED
  BY <1>1, HandleInvariant, PTL

\* Only a part file that lacks no chunk goes to verification and finalize, however
\* the loop was left.
THEOREM AlwaysWholePartsVerified == Spec => []OnlyWholePartsVerified
<1>1. HandleInv => OnlyWholePartsVerified
  BY DEF HandleInv, HandleTyped, WorkInv, OnlyWholePartsVerified
<1>2. QED
  BY <1>1, HandleInvariant, PTL

\* With no call and no task under way the phase claims no work: the reports of the
\* task and the requests of the callers leave it at rest in whatever order they fall.
THEOREM NeverOrphanedActivePhase == Spec => []NoOrphanedActivePhase
<1>1. HandleInv => NoOrphanedActivePhase
  BY DEF HandleInv, PhaseInv, Claims, Quiet, NoOrphanedActivePhase
<1>2. QED
  BY <1>1, HandleInvariant, PTL

\* No call takes back a pause or a cancel while a task lives that has yet to see it.
THEOREM FlagsAlwaysStick == Spec => FlagsStick
<1> DEFINE Stick == task # "none" => (pause => pause') /\ (cancel => cancel')
<1>1. HandleInv /\ [Next]_vars => [Stick]_vars
  <2> SUFFICES ASSUME HandleInv, Next, task # "none"
               PROVE  (pause => pause') /\ (cancel => cancel')
    BY DEF vars
  <2>1. CASE Task
    BY <2>1 DEF Task, Startup, StartupChecks, Probe, Open, Loop, LoopChecks, SpawnChunk,
                SpawnDone, JoinCommitted, JoinStopped, Joined, Stop, Finish, FinalChecks,
                Finalized, Aborted, OrphanFinalized, Report, Resolve, Check, Step, shared
  <2>2. ASSUME NEW t \in Threads, Calls(t) \/ Caller(t)
        PROVE  (pause => pause') /\ (cancel => cancel')
    BY <2>2 DEF HandleInv, CallersInv, Starting, Calls, Call, DropFlag, Caller, StartRefused,
                StartAccepted, StartClearPause, StartClearCancel, StartRequest, StartSpawn,
                PauseFlag, PauseRequest, CancelFlag, CancelRequest, CancelLeavesTask,
                CancelFindsNoTask, CancelMark, DropAbort, Goto, shared
  <2>3. QED
    BY <2>1, <2>2 DEF Next
<1>2. QED
  BY <1>1, HandleInvariant, PTL DEF Spec, FlagsStick

\* Drop sets cancel before it aborts: a task that had not passed its last look at
\* the flag never promotes the part afterwards.
THEOREM DropAlwaysStops == Spec => DropStops
<1> DEFINE Stops == (dropped \in BeforeLastLook) => (promoted' = promoted)
<1>1. HandleInv /\ [Next]_vars => [Stops]_vars
  <2> SUFFICES ASSUME HandleInv, Next, dropped \in BeforeLastLook
               PROVE  promoted' = promoted
    BY DEF vars
  <2>1. task \in BeforeLastLook
    BY DEF HandleInv, CallersInv
  <2>2. CASE Task
    BY <2>1, <2>2
    DEF Task, Startup, StartupChecks, Probe, Open, Loop, LoopChecks, SpawnChunk, SpawnDone,
        JoinCommitted, JoinStopped, Joined, Stop, Finish, FinalChecks, Finalized, Aborted,
        OrphanFinalized, Report, Resolve, Check, Step, work, BeforeLastLook
  <2>3. CASE \E t \in Threads : Calls(t) \/ Caller(t)
    BY <2>3 DEF Calls, Call, DropFlag, Caller, StartRefused, StartAccepted, StartClearPause,
                StartClearCancel, StartRequest, StartSpawn, PauseFlag, PauseRequest,
                CancelFlag, CancelRequest, CancelLeavesTask, CancelFindsNoTask, CancelMark,
                DropAbort, work
  <2>4. QED
    BY <2>2, <2>3 DEF Next
<1>2. QED
  BY <1>1, HandleInvariant, PTL DEF Spec, DropStops
=============================================================================
