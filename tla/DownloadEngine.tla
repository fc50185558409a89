--------------------------- MODULE DownloadEngine ---------------------------
(***************************************************************************)
(* How one run of run_download moves chunks into the part file             *)
(* (takanawa-http downloader.rs).  A loop spawns chunk tasks and joins     *)
(* them; the tasks stream bodies, retry, and send writes and commits over  *)
(* one bounded channel; a writer thread applies them in order and answers  *)
(* the commits.  Pausing, cancelling and every error shut the tasks down   *)
(* and let the writer drain.                                               *)
(*                                                                         *)
(* The part file is seen here as its committed chunks and, per fragment,   *)
(* which attempt wrote it last; what a crash does to it is PartFile's      *)
(* subject, the startup checks and the phases are DownloadHandle's, and    *)
(* the permits of a request IoLimiter's.                                   *)
(***************************************************************************)
EXTENDS Naturals, Sequences, FiniteSets, SequencesExt

CONSTANTS
    ChunkCount,    \* chunks of the resource
    Fragments,     \* body fragments of a chunk
    Parallelism,   \* chunk tasks in the JoinSet at once
    QueueCapacity, \* commands the writer's channel holds
    MaxAttempts,   \* RetryConfig::max_attempts
    MaxRuns,       \* bound on the runs of one handle
    MaxFaults      \* bound on failures of the server and of the disk

ASSUME ShapeAssumption == ChunkCount \in Nat /\ Fragments \in Nat \ {0}
ASSUME ConfigAssumption == {Parallelism, QueueCapacity, MaxAttempts} \subseteq Nat \ {0}
ASSUME BoundsAssumption == MaxRuns \in Nat /\ MaxFaults \in Nat

VARIABLES
    done,      \* the part file: chunks committed
    body,      \* the part file: per fragment, the attempt that wrote it last
    pause,     \* Control.pause
    cancel,    \* Control.cancel
    task,      \* where run_download stands; "off" between runs
    stop,      \* why the loop was left
    pending,   \* chunks not spawned yet
    chunk,     \* per chunk, where its task stands; "none" outside the JoinSet
    tries,     \* per chunk, the number of its current attempt
    sent,      \* per chunk, the fragments this attempt has handed to the writer
    answer,    \* per chunk, what became of its Commit
    metadata,  \* per chunk, the metadata its Commit was answered with
    queue,     \* the channel to the writer
    writer,    \* the writer thread
    reported,  \* SharedState: the chunks the progress shows as complete
    outcome,   \* how the last run ended
    run,       \* runs so far
    faults     \* failures so far

control == <<pause, cancel>>
file == <<done, body>>
tasks == <<chunk, tries, sent>>
replies == <<answer, metadata>>
loop == <<task, stop, pending, reported, outcome, run>>
vars == <<file, control, loop, tasks, replies, queue, writer, faults>>

Chunks == 0 .. ChunkCount - 1
Unwritten == <<0, 0>>

Failures == {"network", "internal", "io"}
Finished == {"committed", "paused", "cancelled"} \cup Failures
Awaiting == {"attempt", "stream", "send", "commit", "await"}

Live == {c \in Chunks : chunk[c] # "none"}

Write(c) == [kind |-> "write", index |-> c, fragment |-> sent[c], by |-> <<run, tries[c]>>]
Commit(c) == [kind |-> "commit", index |-> c]

Init ==
    /\ done = {}
    /\ body = [c \in Chunks |-> [f \in 0 .. Fragments - 1 |-> Unwritten]]
    /\ pause = FALSE /\ cancel = FALSE
    /\ task = "off" /\ stop = "none" /\ pending = {}
    /\ chunk = [c \in Chunks |-> "none"]
    /\ tries = [c \in Chunks |-> 1]
    /\ sent = [c \in Chunks |-> 0]
    /\ answer = [c \in Chunks |-> "none"]
    /\ metadata = [c \in Chunks |-> {}]
    /\ queue = <<>> /\ writer = "off"
    /\ reported = {} /\ outcome = "none" /\ run = 0 /\ faults = 0

Fault == faults < MaxFaults /\ faults' = faults + 1

-----------------------------------------------------------------------------
(* Chunk tasks: fetch_chunk_with_retry                                     *)

Become(c, from, to) ==
    /\ chunk[c] = from
    /\ chunk' = [chunk EXCEPT ![c] = to]

\* The task loads cancel, then pause, and goes on when neither is set.  Where
\* both are, the first may have been set after it was loaded.
LookAtFlags(c, from, to) ==
    \/ cancel /\ Become(c, from, "cancelled")
    \/ pause /\ Become(c, from, "paused")
    \/ ~cancel /\ ~pause /\ Become(c, from, to)

\* Mutant: a retry goes on where the failed attempt broke off.
AttemptResumes(c) ==
    /\ LookAtFlags(c, "attempt", "stream")
    /\ UNCHANGED <<file, control, loop, tries, sent, replies, queue, writer, faults>>

\* An attempt begins: the request is sent and its headers are accepted.
Attempt(c) ==
    /\ LookAtFlags(c, "attempt", "stream")
    /\ sent' = [sent EXCEPT ![c] = 0]
    /\ UNCHANGED <<file, control, loop, tries, replies, queue, writer, faults>>

\* stream_body_to_writer: a body fragment arrives ...
Fragment(c) ==
    /\ sent[c] < Fragments
    /\ LookAtFlags(c, "stream", "send")
    /\ UNCHANGED <<file, control, loop, tries, sent, replies, queue, writer, faults>>

\* ... and is sent once the bandwidth and the channel allow.
SendWrite(c) ==
    /\ writer = "on" /\ Len(queue) < QueueCapacity
    /\ Become(c, "send", "stream")
    /\ queue' = Append(queue, Write(c))
    /\ sent' = [sent EXCEPT ![c] = @ + 1]
    /\ UNCHANGED <<file, control, loop, tries, replies, writer, faults>>

BodyEnds(c) ==
    /\ sent[c] = Fragments
    /\ Become(c, "stream", "full")
    /\ UNCHANGED <<file, control, loop, tries, sent, replies, queue, writer, faults>>

\* The attempt fails: an error the retry policy accepts (or the total timeout,
\* which also ends a wait for the channel), or one it does not.
AttemptFails(c) ==
    /\ Fault
    /\ \/ /\ chunk[c] \in {"stream", "send"} /\ tries[c] < MaxAttempts
          /\ chunk' = [chunk EXCEPT ![c] = "attempt"]
          /\ tries' = [tries EXCEPT ![c] = @ + 1]
       \/ /\ \/ Become(c, "stream", "network")
             \/ tries[c] = MaxAttempts /\ Become(c, "send", "network")
          /\ UNCHANGED tries
    /\ UNCHANGED <<file, control, loop, sent, replies, queue, writer>>

LookBeforeCommit(c) ==
    /\ LookAtFlags(c, "full", "commit")
    /\ UNCHANGED <<file, control, loop, tries, sent, replies, queue, writer, faults>>

SendCommit(c) ==
    /\ writer = "on" /\ Len(queue) < QueueCapacity
    /\ Become(c, "commit", "await")
    /\ queue' = Append(queue, Commit(c))
    /\ answer' = [answer EXCEPT ![c] = "none"]
    /\ UNCHANGED <<file, control, loop, tries, sent, metadata, writer, faults>>

\* The channel has no receiver any more.
SendFails(c) ==
    /\ writer # "on"
    /\ \E from \in {"send", "commit"} : Become(c, from, "internal")
    /\ UNCHANGED <<file, control, loop, tries, sent, replies, queue, writer, faults>>

Answered(c) ==
    /\ \/ answer[c] = "ok" /\ Become(c, "await", "committed")
       \/ answer[c] = "error" /\ Become(c, "await", "io")
       \/ answer[c] = "dropped" /\ Become(c, "await", "internal")
    /\ UNCHANGED <<file, control, loop, tries, sent, replies, queue, writer, faults>>

ChunkTask(c) ==
    \/ Attempt(c) \/ Fragment(c) \/ SendWrite(c) \/ BodyEnds(c)
    \/ LookBeforeCommit(c) \/ SendCommit(c) \/ SendFails(c) \/ Answered(c)

-----------------------------------------------------------------------------
(* The writer: spawn_part_writer                                           *)

NextIs(kind) == writer = "on" /\ queue # <<>> /\ Head(queue).kind = kind

\* The task that sent the command is still there to be answered.
Reply(c, with) ==
    answer' = IF chunk[c] = "await" THEN [answer EXCEPT ![c] = with] ELSE answer

WriterWrites ==
    /\ NextIs("write")
    /\ LET w == Head(queue) IN body' = [body EXCEPT ![w.index][w.fragment] = w.by]
    /\ queue' = Tail(queue)
    /\ UNCHANGED <<done, control, loop, tasks, replies, writer, faults>>

WriterCommits ==
    /\ NextIs("commit")
    /\ LET c == Head(queue).index IN
          /\ done' = done \cup {c}
          /\ Reply(c, "ok")
          /\ metadata' = IF chunk[c] = "await" THEN [metadata EXCEPT ![c] = done'] ELSE metadata
    /\ queue' = Tail(queue)
    /\ UNCHANGED <<body, control, loop, tasks, writer, faults>>

\* The channel closes with commands in it; the commits among them are dropped.
ChannelDrops(rest) ==
    LET lost == {q.index : q \in {r \in ToSet(rest) : r.kind = "commit"}}
    IN  [c \in Chunks |-> IF c \in lost /\ chunk[c] = "await" THEN "dropped" ELSE answer[c]]

\* Mutant: the writer goes on listening after a failure, without answering.
WriteFailsKeepsChannel ==
    /\ NextIs("write") /\ Fault
    /\ writer' = "io"
    /\ queue' = <<>>
    /\ UNCHANGED <<file, control, loop, tasks, replies>>

\* A write fails: the writer returns the error, some of the bytes may be there.
WriteFails ==
    /\ NextIs("write") /\ Fault
    /\ LET w == Head(queue) IN
          body' \in {body, [body EXCEPT ![w.index][w.fragment] = w.by]}
    /\ answer' = ChannelDrops(queue)
    /\ writer' = "io"
    /\ queue' = <<>>
    /\ UNCHANGED <<done, control, loop, tasks, metadata>>

\* A commit fails: its task gets the error, the writer returns another one.
\* The slot may have reached the disk all the same.
CommitFails ==
    /\ NextIs("commit") /\ Fault
    /\ LET c == Head(queue).index IN
          /\ done' \in {done, done \cup {c}}
          /\ answer' = [ChannelDrops(queue) EXCEPT
                           ![c] = IF chunk[c] = "await" THEN "error" ELSE @]
    /\ writer' = "internal"
    /\ queue' = <<>>
    /\ UNCHANGED <<body, control, loop, tasks, metadata>>

\* run_download has dropped its sender and no chunk task is left with one.
WriterEnds ==
    /\ task = "closing"
    /\ writer = "on" /\ queue = <<>>
    /\ writer' = "ended"
    /\ UNCHANGED <<file, control, loop, tasks, replies, queue, faults>>

WriterThread == WriterWrites \/ WriterCommits \/ WriterEnds

-----------------------------------------------------------------------------
(* The loop of run_download                                                *)

\* DownloadHandle::start_on and the startup of run_download up to mark_running:
\* the part is opened and its metadata reported.
Start ==
    /\ task = "off" /\ outcome # "completed"
    /\ run < MaxRuns
    /\ run' = run + 1
    /\ pause' = FALSE /\ cancel' = FALSE
    /\ stop' = "none" /\ outcome' = "none"
    /\ pending' = Chunks \ done
    /\ reported' = done
    /\ IF pending' = {} THEN task' = "final" /\ writer' = "off"
                        ELSE task' = "top" /\ writer' = "on"
    /\ UNCHANGED <<file, tasks, replies, queue, faults>>

Goto(from, to) == task = from /\ task' = to

\* The loop is left: with the chunk tasks to shut down, or with none.
Leave(from, why) ==
    /\ Goto(from, "shutdown")
    /\ stop' = why

Top ==
    /\ \/ cancel /\ Leave("top", "cancelled")
       \/ ~cancel /\ Goto("top", "pause") /\ UNCHANGED stop
    /\ UNCHANGED <<file, control, pending, reported, outcome, run, tasks, replies, queue, writer, faults>>

PauseCheck ==
    /\ \/ pause /\ Leave("pause", "paused")
       \/ ~pause /\ Goto("pause", "spawn") /\ UNCHANGED stop
    /\ UNCHANGED <<file, control, pending, reported, outcome, run, tasks, replies, queue, writer, faults>>

MaySpawn == ~pause /\ ~cancel /\ Cardinality(Live) < Parallelism /\ pending # {}

\* The chunks are spawned in the order of their indexes.
Spawn(c) ==
    /\ task = "spawn" /\ MaySpawn
    /\ c \in pending /\ \A d \in pending : c <= d
    /\ pending' = pending \ {c}
    /\ chunk' = [chunk EXCEPT ![c] = "attempt"]
    /\ UNCHANGED <<file, control, task, stop, reported, outcome, run, tries, sent, replies, queue, writer, faults>>

Spawned ==
    /\ ~MaySpawn
    /\ \/ Live = {} /\ Goto("spawn", "closing") /\ stop' = "finished"
       \/ Live # {} /\ Goto("spawn", "join") /\ UNCHANGED stop
    /\ UNCHANGED <<file, control, pending, reported, outcome, run, tasks, replies, queue, writer, faults>>

\* A task leaves the JoinSet, and what it had goes with it.
Gone(c, from) ==
    /\ Become(c, from, "none")
    /\ tries' = [tries EXCEPT ![c] = 1]
    /\ sent' = [sent EXCEPT ![c] = 0]
    /\ answer' = [answer EXCEPT ![c] = "none"]
    /\ metadata' = [metadata EXCEPT ![c] = {}]

\* join_next yields a task that committed: its metadata becomes the progress.
\* Which of several finished tasks comes first is up to the runtime.
JoinCommitted(c) ==
    /\ Gone(c, "committed")
    /\ Goto("join", "joined")
    /\ reported' = metadata[c]
    /\ UNCHANGED <<file, control, stop, pending, outcome, run, queue, writer, faults>>

JoinStopped(c) ==
    /\ \/ Gone(c, "paused") /\ Leave("join", "paused")
       \/ Gone(c, "cancelled") /\ Leave("join", "chunk cancelled")
       \/ \E e \in Failures : Gone(c, e) /\ Leave("join", e)
    /\ UNCHANGED <<file, control, pending, reported, outcome, run, queue, writer, faults>>

Joined ==
    /\ \/ pause /\ Live = {} /\ Goto("joined", "closing") /\ stop' = "paused"
       \/ ~(pause /\ Live = {}) /\ Goto("joined", "top") /\ UNCHANGED stop
    /\ UNCHANGED <<file, control, pending, reported, outcome, run, tasks, replies, queue, writer, faults>>

\* tasks.shutdown: a task is dropped at its next await; until then it runs on.
Abort(c) ==
    /\ task = "shutdown"
    /\ \E from \in Awaiting \cup Finished : Gone(c, from)
    /\ UNCHANGED <<file, control, loop, queue, writer, faults>>

ShutDown ==
    /\ Live = {}
    /\ Goto("shutdown", "closing")
    /\ UNCHANGED <<file, control, stop, pending, reported, outcome, run, tasks, replies, queue, writer, faults>>

\* run_download returns.
Ends(how) ==
    /\ task' = "off"
    /\ outcome' = how
    /\ stop' = "none" /\ pending' = {}

Finishes ==
    /\ task' = "final"
    /\ UNCHANGED <<outcome, stop, pending>>

\* Mutant: what the writer returned is dropped.
PrevailingStop == stop

\* finish_part_writer: an error of the writer replaces the way out, and
\* finish_part_writer_after_error: it replaces the error of a chunk task unless
\* that one tells more.
Prevailing ==
    IF writer = "ended" THEN stop
    ELSE IF writer = "internal" /\ stop \in {"chunk cancelled", "network", "io"} THEN stop
    ELSE writer

\* Mutant: the writer is not waited for.
CloseWithoutWriter ==
    /\ task = "closing"
    /\ LET how == IF writer \in {"io", "internal"} THEN Prevailing ELSE stop IN
          \/ how = "finished" /\ Finishes
          \/ how = "chunk cancelled" /\ Ends("cancelled")
          \/ how \notin {"finished", "chunk cancelled"} /\ Ends(how)
    /\ UNCHANGED <<file, control, reported, run, tasks, replies, queue, writer, faults>>

Close ==
    /\ task = "closing"
    /\ writer # "on"
    /\ \/ Prevailing = "finished" /\ Finishes
       \/ Prevailing = "chunk cancelled" /\ Ends("cancelled")
       \/ Prevailing \notin {"finished", "chunk cancelled"} /\ Ends(Prevailing)
    /\ UNCHANGED <<file, control, reported, run, tasks, replies, queue, writer, faults>>

\* The last looks at the flags, and finalize_part: an incomplete part is
\* refused, a hash or the disk may fail it.
Final ==
    /\ task = "final"
    /\ \/ cancel /\ Ends("cancelled") /\ UNCHANGED faults
       \/ pause /\ Ends("paused") /\ UNCHANGED faults
       \/ /\ ~cancel /\ ~pause
          /\ Ends(IF done = Chunks THEN "completed" ELSE "finalize") /\ UNCHANGED faults
       \/ ~cancel /\ ~pause /\ Fault /\ Ends("finalize")
    /\ UNCHANGED <<file, control, reported, run, tasks, replies, queue, writer>>

Loop ==
    \/ Top \/ PauseCheck \/ Spawned \/ Joined \/ ShutDown \/ Close \/ Final
    \/ \E c \in Chunks : Spawn(c) \/ JoinCommitted(c) \/ JoinStopped(c)

-----------------------------------------------------------------------------

\* DownloadHandle::pause and cancel reach a run through the flags.
Pause ==
    /\ task # "off" /\ ~pause
    /\ pause' = TRUE
    /\ UNCHANGED <<file, cancel, loop, tasks, replies, queue, writer, faults>>

Cancel ==
    /\ task # "off" /\ ~cancel
    /\ cancel' = TRUE
    /\ UNCHANGED <<file, pause, loop, tasks, replies, queue, writer, faults>>

Next ==
    \/ Start \/ Pause \/ Cancel
    \/ Loop
    \/ \E c \in Chunks : ChunkTask(c) \/ AttemptFails(c) \/ Abort(c)
    \/ WriterThread \/ WriteFails \/ CommitFails

Spec == Init /\ [][Next]_vars

\* The runtime polls run_download and every chunk task, the server answers or
\* times out, the writer thread runs, and an abort takes effect.  Nobody has to
\* start, pause or cancel, and nothing has to fail.
FairSpec ==
    /\ Spec
    /\ WF_vars(Loop) /\ WF_vars(WriterThread)
    /\ \A c \in Chunks : WF_vars(ChunkTask(c)) /\ WF_vars(Abort(c))

-----------------------------------------------------------------------------
(* Properties                                                              *)

\* A committed chunk is the body of one attempt throughout: no fragment of an
\* attempt that failed, was aborted or timed out with its writes still queued
\* is left in it, and none lands there later.
CommittedFromOneAttempt ==
    \A c \in done : \A f, g \in 0 .. Fragments - 1 :
        body[c][f] = body[c][g] /\ body[c][f] # Unwritten

\* The loop ends by itself only with every chunk in the part file; and a run that
\* has ended, however, leaves nothing behind that touches the part file: the next
\* run may open it.
NothingLeftBehind ==
    /\ task = "final" => cancel \/ pause \/ done = Chunks
    /\ task = "off" => queue = <<>> /\ writer # "on" /\ Live = {}

\* A failed write decides how the run ends, whichever task notices what first:
\* it is not passed off as a pause, a cancellation or a failure of the network.
\* After a failed commit, whose task is told too, the run is at least not called
\* paused or completed.
WriterFailurePrevails ==
    task = "off" => /\ writer = "io" => outcome = "io"
                    /\ writer = "internal" => outcome \notin {"paused", "completed"}

\* What makes these inductive.  First the types.
Places == {"none", "attempt", "stream", "send", "full", "commit", "await"} \cup Finished
Stops == {"none", "finished", "paused", "cancelled", "chunk cancelled"} \cup Failures
Commands ==
    [kind : {"write"}, index : Chunks, fragment : 0 .. Fragments - 1, by : Nat \X Nat]
        \cup [kind : {"commit"}, index : Chunks]

EngineTypeOK ==
    /\ done \subseteq Chunks
    /\ body \in [Chunks -> [0 .. Fragments - 1 -> Nat \X Nat]]
    /\ pause \in BOOLEAN /\ cancel \in BOOLEAN
    /\ task \in {"off", "top", "pause", "spawn", "join", "joined", "shutdown", "closing", "final"}
    /\ stop \in Stops
    /\ pending \subseteq Chunks
    /\ chunk \in [Chunks -> Places]
    /\ tries \in [Chunks -> Nat \ {0}]
    /\ sent \in [Chunks -> 0 .. Fragments]
    /\ answer \in [Chunks -> {"none", "ok", "error", "dropped"}]
    /\ metadata \in [Chunks -> SUBSET Chunks]
    /\ queue \in Seq(Commands)
    /\ writer \in {"off", "on", "ended", "io", "internal"}
    /\ run \in Nat

\* Of the loop: where no chunk task and no writer is left, and what a chunk without a
\* task is while the loop was not left.
LoopInv ==
    /\ task \in {"closing", "final", "off"} => Live = {}
    /\ task \in {"final", "off"} => writer # "on"
    /\ writer # "on" => queue = <<>>
    /\ task # "off" => run > 0
    /\ task \in {"top", "pause", "spawn", "join", "joined"} => stop = "none"
    /\ task = "shutdown" => stop \notin {"none", "finished"}
    /\ task = "closing" /\ stop = "finished" => pause \/ cancel \/ pending = {}
    /\ task # "off" /\ stop \in {"none", "finished"} => Chunks = done \cup pending \cup Live
    /\ \A c \in Chunks : chunk[c] = "committed" \/ answer[c] = "ok" => c \in done
    /\ task = "final" => cancel \/ pause \/ done = Chunks
    /\ task = "final" => writer \in {"ended", "off"}

\* Of the queue: the commands in it that write a fragment, or commit a chunk.
Writes(c, f) ==
    {i \in DOMAIN queue : queue[i].kind = "write" /\ queue[i].index = c /\ queue[i].fragment = f}
Commits(c) == {i \in DOMAIN queue : queue[i].kind = "commit" /\ queue[i].index = c}

\* Once the queue is written, fragment f of chunk c is of attempt by.
LastBy(c, f, by) ==
    /\ Writes(c, f) = {} => body[c][f] = by
    /\ \A i \in Writes(c, f) : (\A j \in Writes(c, f) : j <= i) => queue[i].by = by

\* A task at work on the body of its chunk; nothing else writes there.
Writing == {"attempt", "stream", "send", "full", "commit"}

AttemptIsLast ==
    \A c \in Chunks :
        /\ chunk[c] = "send" => sent[c] < Fragments
        /\ chunk[c] \in {"full", "commit"} => sent[c] = Fragments
        /\ writer = "on" /\ chunk[c] \in Writing \ {"attempt"} =>
              \A f \in 0 .. Fragments - 1 : f < sent[c] => LastBy(c, f, <<run, tries[c]>>)

CommitsAreWhole ==
    \A c \in Chunks : Commits(c) # {} =>
        /\ c \notin pending /\ chunk[c] \notin Writing
        /\ \A i \in Commits(c), f \in 0 .. Fragments - 1 : \A j \in Writes(c, f) : j < i
        /\ \E by \in Nat \X Nat :
              by # Unwritten /\ \A f \in 0 .. Fragments - 1 : LastBy(c, f, by)

DoneAreWhole ==
    \A c \in done :
        /\ c \notin pending /\ chunk[c] \notin Writing
        /\ \A f \in 0 .. Fragments - 1 : Writes(c, f) = {}
        /\ \E by \in Nat \X Nat :
              by # Unwritten /\ \A f \in 0 .. Fragments - 1 : body[c][f] = by

PendingAreIdle == \A c \in pending : chunk[c] = "none"

\* Every run ends: no task, and not the loop, waits for ever on the channel, on
\* an answer or on a task.
RunEnds == task # "off" ~> task = "off"

\* download_integration.rs:76: a completed download reports every chunk.
\* (Violated: the metadata joined last need not be the newest.)
CompletedReportsAll == outcome = "completed" => reported = Chunks
=============================================================================
