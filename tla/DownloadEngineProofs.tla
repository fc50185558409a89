------------------------- MODULE DownloadEngineProofs -------------------------
(***************************************************************************)
(* Proofs about DownloadEngine for any number of chunks, fragments, tasks, *)
(* attempts and runs, and any capacity of the channel.                     *)
(*                                                                         *)
(* What a committed chunk is made of is decided in the queue: LastBy tells *)
(* which attempt a fragment will be of once the queue is written, and it   *)
(* is kept by every command taken from the queue (TailLast) and by every   *)
(* command added that is not about that fragment (AppendLast).             *)
(***************************************************************************)
EXTENDS DownloadEngine, SequenceTheorems, FiniteSetTheorems, TLAPS

USE ShapeAssumption, ConfigAssumption, BoundsAssumption

Frags == 0 .. Fragments - 1

-----------------------------------------------------------------------------
(* The queue                                                               *)

\* What the writer takes from the channel is a write or a commit of one of the chunks.
LEMMA HeadTyped ==
    ASSUME queue \in Seq(Commands), queue # <<>>
    PROVE  /\ Head(queue) = queue[1] /\ 1 \in DOMAIN queue
           /\ Head(queue).kind \in {"write", "commit"}
           /\ Head(queue).index \in Chunks
           /\ Head(queue).kind = "write" => /\ Head(queue).fragment \in Frags
                                            /\ Head(queue).by \in Nat \X Nat
<1>1. Head(queue) = queue[1] /\ 1 \in DOMAIN queue
  BY SMT
<1>2. Head(queue) \in Commands
  BY <1>1
<1>3. QED
  BY <1>1, <1>2 DEF Commands, Frags

\* Taking a command moves every other one place forward.
LEMMA TailQueue ==
    ASSUME queue \in Seq(Commands), queue # <<>>, queue' = Tail(queue)
    PROVE  /\ queue' \in Seq(Commands)
           /\ \A c, f : \A i \in Writes(c, f)' : i \in Nat \ {0} /\ i + 1 \in Writes(c, f)
           /\ \A c, f : \A i \in Writes(c, f) : i # 1 => i - 1 \in Writes(c, f)'
           /\ \A c : \A i \in Commits(c)' : i \in Nat \ {0} /\ i + 1 \in Commits(c)
           /\ \A i \in DOMAIN queue' : queue'[i] = queue[i + 1]
<1>1. queue' \in Seq(Commands) /\ Len(queue') = Len(queue) - 1
  BY SMT
<1>2. DOMAIN queue = 1 .. Len(queue) /\ DOMAIN queue' = 1 .. Len(queue) - 1 /\ Len(queue) \in Nat
  BY <1>1, SMT
<1>3. \A i \in DOMAIN queue' : queue'[i] = queue[i + 1]
  BY <1>2, HeadTailProperties
<1>4. QED
  BY <1>1, <1>2, <1>3 DEF Writes, Commits

\* Sending a command leaves the others where they are and adds it at the end.
LEMMA AppendQueue ==
    ASSUME queue \in Seq(Commands), NEW x \in Commands, queue' = Append(queue, x)
    PROVE  /\ queue' \in Seq(Commands)
           /\ Len(queue) \in Nat /\ DOMAIN queue = 1 .. Len(queue)
           /\ \A i \in DOMAIN queue : queue'[i] = queue[i]
           /\ queue'[Len(queue) + 1] = x
           /\ \A c, f : \A i : i \in Writes(c, f)' <=>
                 \/ i \in Writes(c, f)
                 \/ i = Len(queue) + 1 /\ x.kind = "write" /\ x.index = c /\ x.fragment = f
           /\ \A c : \A i : i \in Commits(c)' <=>
                 \/ i \in Commits(c)
                 \/ i = Len(queue) + 1 /\ x.kind = "commit" /\ x.index = c
<1>1. queue' \in Seq(Commands) /\ Len(queue') = Len(queue) + 1 /\ Len(queue) \in Nat
  BY AppendProperties
<1>2. DOMAIN queue = 1 .. Len(queue) /\ DOMAIN queue' = 1 .. Len(queue) + 1
  BY <1>1, SMT
<1>3. /\ \A i \in DOMAIN queue : queue'[i] = queue[i]
      /\ queue'[Len(queue) + 1] = x
  BY <1>2, AppendProperties
<1>4. QED
  BY <1>1, <1>2, <1>3 DEF Writes, Commits

\* A channel that is dropped holds no command.
LEMMA EmptyQueue ==
    ASSUME queue' = <<>>
    PROVE  \A c, f : Writes(c, f)' = {} /\ Commits(c)' = {}
BY DEF Writes, Commits

\* The command at the head is carried out and the rest moves up.
LEMMA TailLast ==
    ASSUME EngineTypeOK, queue # <<>>, queue' = Tail(queue),
           NEW c \in Chunks, NEW f \in Frags, NEW by, LastBy(c, f, by),
           1 \notin Writes(c, f) => body'[c][f] = body[c][f],
           1 \in Writes(c, f) => body'[c][f] = queue[1].by
    PROVE  LastBy(c, f, by)'
<1> USE DEF EngineTypeOK
<1>1. ASSUME Writes(c, f)' = {} PROVE body'[c][f] = by
  <2>1. CASE 1 \in Writes(c, f)
    <3>1. \A j \in Writes(c, f) : j = 1
      BY <1>1, TailQueue
    <3>2. \A j \in Writes(c, f) : j <= 1
      BY <3>1
    <3>3. QED
      BY <2>1, <3>2 DEF LastBy
  <2>2. CASE 1 \notin Writes(c, f)
    <3>1. Writes(c, f) = {}
      BY <1>1, <2>2, TailQueue
    <3>2. QED
      BY <2>2, <3>1 DEF LastBy
  <2>3. QED
    BY <2>1, <2>2
<1>2. ASSUME NEW i \in Writes(c, f)', \A j \in Writes(c, f)' : j <= i
      PROVE  queue'[i] = queue[i + 1] /\ queue[i + 1].by = by
  <2>1. i \in Nat \ {0} /\ i + 1 \in Writes(c, f) /\ queue'[i] = queue[i + 1]
    BY TailQueue DEF Writes
  <2>2. \A j \in Writes(c, f) : j <= i + 1
    <3>1. SUFFICES ASSUME NEW j \in Writes(c, f) PROVE j <= i + 1
      OBVIOUS
    <3>2. CASE j = 1
      BY <2>1, <3>2
    <3>3. CASE j # 1
      <4>1. j - 1 \in Writes(c, f)'
        BY <3>3, TailQueue
      <4>2. j \in Int
        BY DEF Writes
      <4>3. QED
        BY <1>2, <2>1, <4>1, <4>2
    <3>4. QED
      BY <3>2, <3>3
  <2>3. QED
    BY <2>1, <2>2 DEF LastBy
<1>3. QED
  BY <1>1, <1>2 DEF LastBy

\* A write that is sent is the last of its fragment; any other command changes no last write.
LEMMA AppendLast ==
    ASSUME EngineTypeOK, NEW x \in Commands, queue' = Append(queue, x), body' = body,
           NEW c, NEW f, NEW by
    PROVE  /\ x.kind = "write" /\ x.index = c /\ x.fragment = f => LastBy(c, f, x.by)'
           /\ ~(x.kind = "write" /\ x.index = c /\ x.fragment = f) /\ LastBy(c, f, by)
                => LastBy(c, f, by)'
<1> USE DEF EngineTypeOK
<1>1. ASSUME x.kind = "write", x.index = c, x.fragment = f PROVE LastBy(c, f, x.by)'
  <2>1. Len(queue) + 1 \in Writes(c, f)' /\ Len(queue) \in Nat
    BY <1>1, AppendQueue
  <2>2. ASSUME NEW i \in Writes(c, f)', \A j \in Writes(c, f)' : j <= i
        PROVE  queue'[i].by = x.by
    <3>1. i = Len(queue) + 1
      <4>1. i \in DOMAIN queue \/ i = Len(queue) + 1
        BY AppendQueue DEF Writes
      <4>2. Len(queue) + 1 <= i
        BY <2>1, <2>2
      <4>3. QED
        BY <4>1, <4>2, <2>1, AppendQueue
    <3>2. QED
      BY <3>1, AppendQueue
  <2>3. QED
    BY <2>1, <2>2 DEF LastBy
<1>2. ASSUME ~(x.kind = "write" /\ x.index = c /\ x.fragment = f), LastBy(c, f, by)
      PROVE  LastBy(c, f, by)'
  <2>1. \A i : i \in Writes(c, f)' <=> i \in Writes(c, f)
    BY <1>2, AppendQueue
  <2>2. \A i \in Writes(c, f) : queue'[i] = queue[i]
    BY AppendQueue DEF Writes
  <2>3. Writes(c, f)' = Writes(c, f)
    BY <2>1
  <2>4. QED
    BY <1>2, <2>2, <2>3 DEF LastBy
<1>3. QED
  BY <1>1, <1>2

-----------------------------------------------------------------------------
(* Types                                                                   *)

\* The engine starts with its variables typed.
LEMMA EngineTypesInit == Init => EngineTypeOK
<1> SUFFICES ASSUME Init PROVE EngineTypeOK
  OBVIOUS
<1>1. body \in [Chunks -> [Frags -> Nat \X Nat]]
  BY DEF Init, Unwritten, Frags
<1>2. /\ chunk \in [Chunks -> Places] /\ tries \in [Chunks -> Nat \ {0}]
      /\ sent \in [Chunks -> 0 .. Fragments]
      /\ answer \in [Chunks -> {"none", "ok", "error", "dropped"}]
      /\ metadata \in [Chunks -> SUBSET Chunks]
  BY DEF Init, Places
<1>3. queue \in Seq(Commands)
  BY DEF Init
<1>4. QED
  BY <1>1, <1>2, <1>3 DEF Init, EngineTypeOK, Stops, Frags

\* A step of a chunk task moves that task, between the places of one table.
Moves ==
    {<<"attempt", "stream">>, <<"stream", "send">>, <<"send", "stream">>, <<"stream", "full">>,
     <<"full", "commit">>, <<"commit", "await">>}
        \cup ({"attempt", "stream", "full"} \X {"cancelled", "paused"})
        \cup ({"send", "commit"} \X {"internal"})
        \cup ({"await"} \X {"committed", "io", "internal"})
        \cup ({"stream", "send"} \X {"attempt", "network"})

\* A step of a chunk task goes along one of the moves run_chunk has.
LEMMA TaskMoves ==
    ASSUME EngineTypeOK, NEW c \in Chunks, ChunkTask(c) \/ AttemptFails(c)
    PROVE  \E to \in Places : /\ <<chunk[c], to>> \in Moves
                              /\ chunk' = [chunk EXCEPT ![c] = to]
<1> USE DEF Places, Finished, Failures, Moves, Become, LookAtFlags
<1>1. CASE Attempt(c)
  BY <1>1 DEF Attempt
<1>2. CASE Fragment(c)
  BY <1>2 DEF Fragment
<1>3. CASE SendWrite(c)
  BY <1>3 DEF SendWrite
<1>4. CASE BodyEnds(c)
  BY <1>4 DEF BodyEnds
<1>5. CASE LookBeforeCommit(c)
  BY <1>5 DEF LookBeforeCommit
<1>6. CASE SendCommit(c)
  BY <1>6 DEF SendCommit
<1>7. CASE SendFails(c)
  BY <1>7 DEF SendFails
<1>8. CASE Answered(c)
  BY <1>8 DEF Answered
<1>9. CASE AttemptFails(c)
  BY <1>9 DEF AttemptFails
<1>10. QED
  BY <1>1, <1>2, <1>3, <1>4, <1>5, <1>6, <1>7, <1>8, <1>9 DEF ChunkTask

\* The commands a chunk task sends are those the writer knows.
LEMMA CommandsTyped ==
    ASSUME EngineTypeOK, NEW c \in Chunks
    PROVE  /\ sent[c] < Fragments => Write(c) \in Commands
           /\ Commit(c) \in Commands
<1>1. CASE sent[c] < Fragments
  <2>1. sent[c] \in 0 .. Fragments - 1 /\ <<run, tries[c]>> \in Nat \X Nat
    BY <1>1, SMTT(30) DEF EngineTypeOK
  <2>2. QED
    BY <2>1 DEF Write, Commit, Commands
<1>2. Commit(c) \in Commands
  BY DEF Commit, Commands
<1>3. QED
  BY <1>1, <1>2

\* Types are kept by a chunk task.
LEMMA TypesChunkTask ==
    ASSUME EngineTypeOK, AttemptIsLast, NEW c \in Chunks, ChunkTask(c) \/ AttemptFails(c)
    PROVE  EngineTypeOK'
<1>1. UNCHANGED <<file, control, loop, metadata, writer>>
  BY DEF ChunkTask, Attempt, Fragment, SendWrite, BodyEnds, LookBeforeCommit, SendCommit,
         SendFails, Answered, AttemptFails, replies
<1>2. chunk' \in [Chunks -> Places]
  BY TaskMoves DEF EngineTypeOK
<1>3. tries' \in [Chunks -> Nat \ {0}]
  <2>1. tries' = tries \/ tries' = [tries EXCEPT ![c] = tries[c] + 1]
    BY DEF ChunkTask, Attempt, Fragment, SendWrite, BodyEnds, LookBeforeCommit, SendCommit,
           SendFails, Answered, AttemptFails, tasks
  <2>2. tries \in [Chunks -> Nat \ {0}] /\ tries[c] + 1 \in Nat \ {0}
    BY DEF EngineTypeOK
  <2>3. QED
    BY <2>1, <2>2
<1>4. /\ sent' \in [Chunks -> 0 .. Fragments]
      /\ answer' \in [Chunks -> {"none", "ok", "error", "dropped"}]
      /\ queue' \in Seq(Commands)
  <2>1. CASE SendWrite(c)
    <3>1. sent[c] < Fragments /\ UNCHANGED answer
      BY <2>1 DEF SendWrite, Become, AttemptIsLast, replies
    <3>2. queue' \in Seq(Commands)
      BY <2>1, <3>1, CommandsTyped, AppendQueue DEF SendWrite, EngineTypeOK
    <3>3. sent' \in [Chunks -> 0 .. Fragments]
      <4>1. sent' = [sent EXCEPT ![c] = sent[c] + 1]
        BY <2>1 DEF SendWrite
      <4>2. sent[c] + 1 \in 0 .. Fragments
        BY <3>1, SMTT(30) DEF EngineTypeOK
      <4>3. QED
        BY <4>1, <4>2 DEF EngineTypeOK
    <3>4. QED
      BY <3>1, <3>2, <3>3 DEF EngineTypeOK
  <2>2. CASE SendCommit(c)
    <3>1. queue' \in Seq(Commands) /\ UNCHANGED sent
      BY <2>2, CommandsTyped, AppendQueue DEF SendCommit, EngineTypeOK
    <3>2. answer' \in [Chunks -> {"none", "ok", "error", "dropped"}]
      BY <2>2 DEF SendCommit, EngineTypeOK
    <3>3. QED
      BY <3>1, <3>2 DEF EngineTypeOK
  <2>3. CASE ~SendWrite(c) /\ ~SendCommit(c)
    <3>1. UNCHANGED <<answer, queue>> /\ (sent' = sent \/ sent' = [sent EXCEPT ![c] = 0])
      BY <2>3 DEF ChunkTask, Attempt, Fragment, BodyEnds, LookBeforeCommit, SendFails, Answered,
                  AttemptFails, tasks, replies
    <3>2. sent \in [Chunks -> 0 .. Fragments] /\ 0 \in 0 .. Fragments
      BY DEF EngineTypeOK
    <3>3. sent' \in [Chunks -> 0 .. Fragments]
      BY <3>1, <3>2
    <3>4. QED
      BY <3>1, <3>3 DEF EngineTypeOK
  <2>4. QED
    BY <2>1, <2>2, <2>3
<1>5. QED
  BY <1>1, <1>2, <1>3, <1>4 DEF EngineTypeOK, file, control, loop

\* A channel that is dropped answers nobody but with "dropped".
LEMMA DropsTyped ==
    ASSUME EngineTypeOK, NEW rest
    PROVE  /\ ChannelDrops(rest) \in [Chunks -> {"none", "ok", "error", "dropped"}]
           /\ \A c \in Chunks : ChannelDrops(rest)[c] \in {answer[c], "dropped"}
BY DEF ChannelDrops, EngineTypeOK

\* Types are kept by the writer.
LEMMA TypesWriter ==
    ASSUME EngineTypeOK, WriterThread \/ WriteFails \/ CommitFails
    PROVE  EngineTypeOK'
<1> USE DEF EngineTypeOK, file, control, loop, tasks, replies
<1>1. CASE WriterWrites
  <2>1. queue # <<>> /\ Head(queue).kind = "write"
    BY <1>1 DEF WriterWrites, NextIs
  <2>2. body' \in [Chunks -> [0 .. Fragments - 1 -> Nat \X Nat]]
    BY <1>1, <2>1, HeadTyped DEF WriterWrites, Frags
  <2>3. QED
    BY <1>1, <2>1, <2>2, TailQueue DEF WriterWrites
<1>2. CASE WriterCommits
  <2>1. queue # <<>> /\ Head(queue).index \in Chunks
    BY <1>2, HeadTyped DEF WriterCommits, NextIs
  <2>2. done' \subseteq Chunks /\ queue' \in Seq(Commands)
    BY <1>2, <2>1, TailQueue DEF WriterCommits
  <2>3. answer' \in [Chunks -> {"none", "ok", "error", "dropped"}]
    BY <1>2, <2>1 DEF WriterCommits, Reply
  <2>4. metadata' \in [Chunks -> SUBSET Chunks]
    BY <1>2, <2>1, <2>2 DEF WriterCommits
  <2>5. QED
    BY <1>2, <2>2, <2>3, <2>4 DEF WriterCommits
<1>3. CASE WriterEnds
  BY <1>3 DEF WriterEnds
<1>4. CASE WriteFails
  <2>1. queue # <<>> /\ Head(queue).kind = "write"
    BY <1>4 DEF WriteFails, NextIs
  <2>2. body' \in [Chunks -> [0 .. Fragments - 1 -> Nat \X Nat]]
    <3>1. CASE body' = body
      BY <3>1
    <3>2. CASE body' = [body EXCEPT ![Head(queue).index][Head(queue).fragment] = Head(queue).by]
      BY <2>1, <3>2, HeadTyped DEF Frags
    <3>3. QED
      BY <1>4, <3>1, <3>2 DEF WriteFails
  <2>3. /\ answer' = ChannelDrops(queue) /\ queue' = <<>> /\ writer' = "io"
        /\ UNCHANGED <<done, control, loop, tasks, metadata>>
    BY <1>4 DEF WriteFails
  <2>4. queue' \in Seq(Commands)
    BY <2>3
  <2>5. answer' \in [Chunks -> {"none", "ok", "error", "dropped"}]
    <3>1. ChannelDrops(queue) \in [Chunks -> {"none", "ok", "error", "dropped"}]
      BY DropsTyped
    <3>2. QED
      BY <2>3, <3>1
  <2>6. QED
    BY <2>2, <2>3, <2>4, <2>5
<1>5. CASE CommitFails
  <2>1. queue # <<>> /\ Head(queue).index \in Chunks
    BY <1>5, HeadTyped DEF CommitFails, NextIs
  <2>2. answer' \in [Chunks -> {"none", "ok", "error", "dropped"}]
    BY <1>5, <2>1, DropsTyped DEF CommitFails
  <2>3. done' \subseteq Chunks
    BY <1>5, <2>1 DEF CommitFails
  <2>4. /\ queue' = <<>> /\ writer' = "internal"
        /\ UNCHANGED <<body, control, loop, tasks, metadata>>
    BY <1>5 DEF CommitFails
  <2>5. queue' \in Seq(Commands)
    BY <2>4
  <2>6. QED
    BY <2>2, <2>3, <2>4, <2>5
<1>6. QED
  BY <1>1, <1>2, <1>3, <1>4, <1>5 DEF WriterThread

\* Types are kept by run_download and the calls upon it.
LEMMA TypesLoop ==
    ASSUME EngineTypeOK, Start \/ Pause \/ Cancel \/ Loop \/ \E c \in Chunks : Abort(c)
    PROVE  EngineTypeOK'
<1> USE DEF EngineTypeOK, file, control, loop, tasks, replies
<1>1. CASE Start
  <2>1. pending' \subseteq Chunks /\ run' \in Nat /\ task' \in {"final", "top"}
        /\ writer' \in {"off", "on"}
    BY <1>1 DEF Start
  <2>2. /\ pause' = FALSE /\ cancel' = FALSE /\ stop' = "none" /\ UNCHANGED <<file, tasks, replies, queue>>
    BY <1>1 DEF Start
  <2>3. QED
    BY <2>1, <2>2 DEF Stops
<1>2. CASE Pause \/ Cancel
  BY <1>2 DEF Pause, Cancel
<1>3. CASE Top \/ PauseCheck \/ Spawned \/ Joined \/ ShutDown
  BY <1>3 DEF Top, PauseCheck, Spawned, Joined, ShutDown, Goto, Leave, Stops
<1>4. CASE Close \/ Final
  BY <1>4 DEF Close, Final, Ends, Finishes, Stops
<1>5. ASSUME NEW c \in Chunks, Spawn(c) PROVE EngineTypeOK'
  BY <1>5 DEF Spawn, Places
<1>6. ASSUME NEW c \in Chunks, NEW from, Gone(c, from)
      PROVE  /\ chunk' \in [Chunks -> Places] /\ tries' \in [Chunks -> Nat \ {0}]
             /\ sent' \in [Chunks -> 0 .. Fragments]
             /\ answer' \in [Chunks -> {"none", "ok", "error", "dropped"}]
             /\ metadata' \in [Chunks -> SUBSET Chunks]
  <2>1. "none" \in Places
    BY DEF Places
  <2>2. chunk' \in [Chunks -> Places]
    BY <1>6, <2>1 DEF Gone, Become
  <2>3. tries' \in [Chunks -> Nat \ {0}] /\ sent' \in [Chunks -> 0 .. Fragments]
    <3>1. tries \in [Chunks -> Nat \ {0}] /\ sent \in [Chunks -> 0 .. Fragments]
      OBVIOUS
    <3>2. tries' = [tries EXCEPT ![c] = 1] /\ sent' = [sent EXCEPT ![c] = 0]
      BY <1>6 DEF Gone
    <3>3. 1 \in Nat \ {0} /\ 0 \in 0 .. Fragments
      BY ShapeAssumption
    <3> HIDE DEF EngineTypeOK, file, control, loop, tasks, replies
    <3>4. tries' \in [Chunks -> Nat \ {0}]
      BY <3>1, <3>2, <3>3, Zenon
    <3>5. sent' \in [Chunks -> 0 .. Fragments]
      BY <3>1, <3>2, <3>3, Zenon
    <3>6. QED
      BY <3>4, <3>5
  <2>4. /\ answer' \in [Chunks -> {"none", "ok", "error", "dropped"}]
        /\ metadata' \in [Chunks -> SUBSET Chunks]
    BY <1>6 DEF Gone
  <2>5. QED
    BY <2>2, <2>3, <2>4
<1>7. ASSUME NEW c \in Chunks, JoinCommitted(c) PROVE EngineTypeOK'
  BY <1>6, <1>7 DEF JoinCommitted, Goto
<1>8. ASSUME NEW c \in Chunks, JoinStopped(c) PROVE EngineTypeOK'
  <2>1. \E from : Gone(c, from)
    BY <1>8 DEF JoinStopped
  <2>2. stop' \in Stops /\ task' = "shutdown"
    BY <1>8 DEF JoinStopped, Leave, Goto, Stops, Failures
  <2>3. QED
    BY <1>6, <1>8, <2>1, <2>2 DEF JoinStopped
<1>9. ASSUME NEW c \in Chunks, Abort(c) PROVE EngineTypeOK'
  BY <1>6, <1>9 DEF Abort
<1>10. QED
  BY <1>1, <1>2, <1>3, <1>4, <1>5, <1>7, <1>8, <1>9 DEF Loop

-----------------------------------------------------------------------------
(* The loop and what it leaves behind                                      *)

\* Before the first run there is nothing for the loop to have.
LEMMA LoopInit == Init => LoopInv
BY DEF Init, LoopInv, Live

\* A chunk task leaves what the loop knows of tasks and writer true.
LEMMA LoopChunkTask ==
    ASSUME EngineTypeOK, LoopInv, NEW c \in Chunks, ChunkTask(c) \/ AttemptFails(c)
    PROVE  LoopInv'
<1>1. UNCHANGED <<file, control, loop, metadata, writer>>
  BY DEF ChunkTask, Attempt, Fragment, SendWrite, BodyEnds, LookBeforeCommit, SendCommit,
         SendFails, Answered, AttemptFails, replies
<1>2. PICK to \in Places : /\ <<chunk[c], to>> \in Moves
                          /\ chunk' = [chunk EXCEPT ![c] = to]
  BY TaskMoves
<1>3. Live' = Live
  <2>1. chunk[c] # "none" /\ to # "none"
    BY <1>2 DEF Moves
  <2>2. QED
    BY <1>2, <2>1 DEF Live, EngineTypeOK
<1>4. ASSUME NEW d \in Chunks, chunk'[d] = "committed" \/ answer'[d] = "ok"
      PROVE  d \in done
  <2>1. answer' = answer \/ answer' = [answer EXCEPT ![c] = "none"]
    BY DEF ChunkTask, Attempt, Fragment, SendWrite, BodyEnds, LookBeforeCommit, SendCommit,
           SendFails, Answered, AttemptFails, replies
  <2>2. CASE answer'[d] = "ok"
    <3>1. answer[d] = "ok"
      BY <2>1, <2>2 DEF EngineTypeOK
    <3>2. QED
      BY <3>1 DEF LoopInv
  <2>3. CASE chunk'[d] = "committed" /\ d # c
    BY <1>2, <2>3 DEF LoopInv, EngineTypeOK
  <2>4. CASE chunk'[d] = "committed" /\ d = c
    <3>1. chunk'[c] = to /\ chunk[c] = "await"
      BY <1>2, <2>4 DEF EngineTypeOK, Moves
    <3>2. answer[c] = "ok"
      BY <2>4, <3>1
      DEF ChunkTask, Attempt, Fragment, SendWrite, BodyEnds, LookBeforeCommit, SendCommit,
          SendFails, Answered, AttemptFails, LookAtFlags, Become, EngineTypeOK
    <3>3. QED
      BY <2>4, <3>2 DEF LoopInv
  <2>5. QED
    BY <1>4, <2>2, <2>3, <2>4
<1>5. writer = "on" \/ queue' = queue
  BY DEF ChunkTask, Attempt, Fragment, SendWrite, BodyEnds, LookBeforeCommit, SendCommit,
         SendFails, Answered, AttemptFails
<1>6. QED
  BY <1>1, <1>3, <1>4, <1>5 DEF LoopInv, file, control, loop

\* So does the writer, also when it stops.
LEMMA LoopWriter ==
    ASSUME EngineTypeOK, LoopInv, WriterThread \/ WriteFails \/ CommitFails
    PROVE  LoopInv'
<1>1. /\ UNCHANGED <<control, loop, tasks>> /\ Live' = Live
      /\ writer = "on" /\ writer' # "off"
      /\ writer' # "on" => queue' = <<>>
  BY DEF WriterThread, WriterWrites, WriterCommits, WriterEnds, WriteFails, CommitFails, NextIs,
         tasks, Live
<1>2. done \subseteq done' /\ done' \subseteq Chunks
  BY TypesWriter
  DEF WriterThread, WriterWrites, WriterCommits, WriterEnds, WriteFails, CommitFails, EngineTypeOK,
      file
<1>3. ASSUME NEW d \in Chunks, answer'[d] = "ok" PROVE d \in done'
  <2>1. CASE answer[d] = "ok"
    BY <1>2, <2>1 DEF LoopInv
  <2>2. CASE answer[d] # "ok"
    <3>1. CASE WriterCommits
      BY <1>3, <2>2, <3>1 DEF WriterCommits, Reply, EngineTypeOK
    <3>2. CASE WriterWrites \/ WriterEnds
      BY <1>3, <2>2, <3>2 DEF WriterWrites, WriterEnds, replies
    <3>3. CASE WriteFails
      BY <1>3, <2>2, <3>3, DropsTyped DEF WriteFails
    <3>4. CASE CommitFails
      <4>1. answer'[d] \in {ChannelDrops(queue)[d], "error"}
        BY <3>4, DropsTyped DEF CommitFails
      <4>2. QED
        BY <1>3, <2>2, <4>1, DropsTyped
    <3>5. QED
      BY <3>1, <3>2, <3>3, <3>4 DEF WriterThread
  <2>3. QED
    BY <2>1, <2>2
<1>4. \A d \in Chunks : chunk'[d] = "committed" => d \in done'
  BY <1>1, <1>2 DEF LoopInv, tasks
<1>5. task # "off" /\ task # "final"
  BY <1>1 DEF LoopInv
<1>6. QED
  BY <1>1, <1>2, <1>3, <1>4, <1>5 DEF LoopInv, control, loop

\* No task that is live is none to count.
LEMMA NobodyLive == Live = {} => Cardinality(Live) = 0
BY FS_EmptySet

\* A task that leaves the JoinSet.
LEMMA GoneLeaves ==
    ASSUME EngineTypeOK, NEW c \in Chunks, NEW from, Gone(c, from)
    PROVE  /\ chunk[c] = from
           /\ \A d \in Chunks : chunk'[d] = IF d = c THEN "none" ELSE chunk[d]
           /\ \A d \in Chunks : answer'[d] = IF d = c THEN "none" ELSE answer[d]
           /\ Live' = Live \ {c}
<1>1. chunk[c] = from /\ chunk' = [chunk EXCEPT ![c] = "none"]
      /\ answer' = [answer EXCEPT ![c] = "none"]
  BY DEF Gone, Become
<1>2. QED
  BY <1>1 DEF EngineTypeOK, Live

\* The loop's own steps: a chunk that leaves pending has a task, and one that is joined is done, pending or
\* given up with the run.
LEMMA LoopLoop ==
    ASSUME EngineTypeOK, LoopInv, Loop \/ \E c \in Chunks : Abort(c)
    PROVE  LoopInv'
<1> USE DEF LoopInv, file, control, loop, tasks, replies
<1>1. CASE Top \/ PauseCheck \/ Joined \/ ShutDown
  BY <1>1 DEF Top, PauseCheck, Joined, ShutDown, Goto, Leave, Live
<1>2. CASE Spawned
  <2>1. /\ UNCHANGED <<file, control, pending, run, tasks, answer, queue, writer>> /\ Live' = Live
        /\ task = "spawn" /\ ~MaySpawn
    BY <1>2 DEF Spawned, Goto, Live
  <2>2. Live = {} => pause \/ cancel \/ pending = {}
    BY <2>1, NobodyLive DEF MaySpawn
  <2>3. \/ Live = {} /\ task' = "closing" /\ stop' = "finished"
        \/ Live # {} /\ task' = "join" /\ stop' = stop
    BY <1>2 DEF Spawned, Goto
  <2>4. QED
    BY <2>1, <2>2, <2>3
<1>3. ASSUME NEW c \in Chunks, Spawn(c) PROVE LoopInv'
  <2>1. /\ UNCHANGED <<file, control, task, stop, run, answer, queue, writer>>
        /\ task = "spawn" /\ pending' = pending \ {c}
        /\ chunk' = [chunk EXCEPT ![c] = "attempt"]
    BY <1>3 DEF Spawn
  <2>2. Live' = Live \cup {c}
    BY <2>1 DEF Live, EngineTypeOK
  <2>3. \A d \in Chunks : chunk'[d] = "committed" => d \in done
    BY <2>1 DEF EngineTypeOK
  <2>4. QED
    BY <2>1, <2>2, <2>3
<1>4. ASSUME NEW c \in Chunks, JoinCommitted(c) PROVE LoopInv'
  <2>1. /\ UNCHANGED <<file, control, stop, pending, run, queue, writer>>
        /\ task = "join" /\ task' = "joined" /\ c \in done
    BY <1>4 DEF JoinCommitted, Goto, Gone, Become
  <2>2. /\ Live' = Live \ {c}
        /\ \A d \in Chunks : chunk'[d] = "committed" \/ answer'[d] = "ok" => d \in done
    BY <1>4, GoneLeaves DEF JoinCommitted
  <2>3. QED
    BY <2>1, <2>2
<1>5. ASSUME NEW c \in Chunks, JoinStopped(c) PROVE LoopInv'
  <2>1. /\ UNCHANGED <<file, control, pending, run, queue, writer>>
        /\ task = "join" /\ task' = "shutdown" /\ stop' \notin {"none", "finished"}
        /\ \E from : Gone(c, from)
    BY <1>5 DEF JoinStopped, Leave, Goto, Failures
  <2>2. \A d \in Chunks : chunk'[d] = "committed" \/ answer'[d] = "ok" => d \in done
    BY <2>1, GoneLeaves
  <2>3. QED
    BY <2>1, <2>2
<1>6. ASSUME NEW c \in Chunks, Abort(c) PROVE LoopInv'
  <2>1. UNCHANGED <<file, control, loop, queue, writer>> /\ task = "shutdown"
        /\ \E from : Gone(c, from)
    BY <1>6 DEF Abort
  <2>2. \A d \in Chunks : chunk'[d] = "committed" \/ answer'[d] = "ok" => d \in done
    BY <2>1, GoneLeaves
  <2>3. QED
    BY <2>1, <2>2
<1>7. CASE Close
  <2>1. /\ UNCHANGED <<file, control, run, tasks, answer, queue, writer>> /\ Live' = Live
        /\ task = "closing" /\ writer # "on"
    BY <1>7 DEF Close, Live
  <2>2. CASE Prevailing = "finished" /\ Finishes
    <3>1. writer = "ended" /\ stop = "finished"
      BY <2>2 DEF Prevailing, EngineTypeOK
    <3>2. pending = {} => done = Chunks
      BY <2>1, <3>1 DEF EngineTypeOK
    <3>3. QED
      BY <2>1, <2>2, <3>1, <3>2 DEF Finishes
  <2>3. CASE \E how : Ends(how)
    BY <2>1, <2>3 DEF Ends
  <2>4. QED
    BY <1>7, <2>2, <2>3 DEF Close
<1>8. CASE Final
  <2>1. /\ UNCHANGED <<file, control, run, tasks, answer, queue, writer>> /\ Live' = Live
        /\ task = "final" /\ \E how : Ends(how)
    BY <1>8 DEF Final, Live
  <2>2. QED
    BY <2>1 DEF Ends
<1>9. QED
  BY <1>1, <1>2, <1>3, <1>4, <1>5, <1>6, <1>7, <1>8 DEF Loop

\* Starting, pausing and cancelling.
LEMMA LoopCalls ==
    ASSUME EngineTypeOK, LoopInv, Start \/ Pause \/ Cancel
    PROVE  LoopInv'
<1> USE DEF LoopInv, file, control, loop, tasks, replies
<1>1. CASE Pause \/ Cancel
  BY <1>1 DEF Pause, Cancel, Live, EngineTypeOK
<1>2. CASE Start
  <2>1. /\ UNCHANGED <<file, tasks, answer, queue>> /\ Live' = Live /\ Live = {} /\ queue = <<>>
        /\ run' > 0 /\ stop' = "none" /\ pending' = Chunks \ done
    BY <1>2 DEF Start, Live, EngineTypeOK
  <2>2. \/ pending' = {} /\ task' = "final" /\ writer' = "off"
        \/ task' = "top" /\ writer' = "on"
    BY <1>2 DEF Start
  <2>3. /\ pending' = {} => done' = Chunks
        /\ Chunks = done' \cup pending' \cup Live'
    BY <2>1 DEF EngineTypeOK
  <2>4. \A c \in Chunks : chunk'[c] = "committed" \/ answer'[c] = "ok" => c \in done'
    BY <2>1
  <2>5. CASE pending' = {} /\ task' = "final" /\ writer' = "off"
    BY <2>1, <2>3, <2>4, <2>5
  <2>6. CASE task' = "top" /\ writer' = "on"
    BY <2>1, <2>3, <2>4, <2>6
  <2>7. QED
    BY <2>2, <2>5, <2>6
<1>3. QED
  BY <1>1, <1>2
\* The end of a run is the one step that says how it ended, and the writer's failure comes first there.
LEMMA PrevailsStep ==
    ASSUME EngineTypeOK, LoopInv, WriterFailurePrevails, [Next]_vars
    PROVE  WriterFailurePrevails'
<1> USE DEF WriterFailurePrevails, loop
<1>1. CASE Start
  BY <1>1 DEF Start
<1>2. CASE Pause \/ Cancel
  BY <1>2 DEF Pause, Cancel
<1>3. CASE Loop /\ ~Close /\ ~Final
  BY <1>3 DEF Loop, Top, PauseCheck, Spawned, Joined, ShutDown, Spawn, JoinCommitted,
              JoinStopped, Goto, Leave
<1>4. CASE Close
  <2>1. writer' = writer /\ writer # "on"
    BY <1>4 DEF Close
  <2>2. CASE Prevailing = "finished" /\ Finishes
    BY <2>2 DEF Finishes
  <2>3. CASE Prevailing = "chunk cancelled" /\ Ends("cancelled")
    <3>1. writer # "io" /\ outcome' = "cancelled"
      BY <2>3 DEF Prevailing, Ends
    <3>2. QED
      BY <2>1, <3>1
  <2>4. CASE Prevailing \notin {"finished", "chunk cancelled"} /\ Ends(Prevailing)
    <3>1. outcome' = Prevailing
      BY <2>4 DEF Ends
    <3>2. QED
      BY <2>1, <3>1 DEF Prevailing
  <2>5. QED
    BY <1>4, <2>2, <2>3, <2>4 DEF Close
<1>5. CASE Final
  <2>1. writer' = writer /\ writer \in {"ended", "off"}
    BY <1>5 DEF Final, LoopInv
  <2>2. QED
    BY <2>1
<1>6. ASSUME NEW c \in Chunks, ChunkTask(c) \/ AttemptFails(c) \/ Abort(c)
      PROVE  WriterFailurePrevails'
  BY <1>6 DEF ChunkTask, Attempt, Fragment, SendWrite, BodyEnds, LookBeforeCommit, SendCommit,
              SendFails, Answered, AttemptFails, Abort
<1>7. CASE WriterThread \/ WriteFails \/ CommitFails
  <2>1. writer = "on" /\ task' = task
    BY <1>7 DEF WriterThread, WriterWrites, WriterCommits, WriterEnds, WriteFails, CommitFails,
                NextIs
  <2>2. QED
    BY <2>1 DEF LoopInv
<1>8. CASE UNCHANGED vars
  BY <1>8 DEF vars
<1>9. QED
  BY <1>1, <1>2, <1>3, <1>4, <1>5, <1>6, <1>7, <1>8 DEF Next

-----------------------------------------------------------------------------
(* What the queue will have written                                        *)

QueueInv == AttemptIsLast /\ CommitsAreWhole /\ DoneAreWhole /\ PendingAreIdle

\* Nothing is in the queue, nothing is committed.
LEMMA QueueInit == Init => QueueInv
BY EmptyQueue
DEF Init, QueueInv, AttemptIsLast, CommitsAreWhole, DoneAreWhole, PendingAreIdle, Writing, Commits

\* What the queue makes of the file stays while neither changes.
LEMMA QueueFrame ==
    ASSUME UNCHANGED <<file, queue>>
    PROVE  /\ \A c, f : Writes(c, f)' = Writes(c, f)
           /\ \A c : Commits(c)' = Commits(c)
           /\ \A c, f, by : LastBy(c, f, by) => LastBy(c, f, by)'
BY DEF file, Writes, Commits, LastBy

\* What a chunk task adds to the queue is about its own chunk.
LEMMA TaskQueue ==
    ASSUME EngineTypeOK, AttemptIsLast, NEW c \in Chunks, ChunkTask(c) \/ AttemptFails(c)
    PROVE  /\ UNCHANGED <<file, pending, run, writer>>
           /\ \A d \in Chunks : d # c =>
                 /\ chunk'[d] = chunk[d] /\ sent'[d] = sent[d] /\ tries'[d] = tries[d]
                 /\ Commits(d)' = Commits(d)
                 /\ \A f : Writes(d, f)' = Writes(d, f)
                 /\ \A f, by : LastBy(d, f, by) => LastBy(d, f, by)'
<1>1. UNCHANGED <<file, body, pending, run, writer>>
  BY DEF ChunkTask, Attempt, Fragment, SendWrite, BodyEnds, LookBeforeCommit, SendCommit,
         SendFails, Answered, AttemptFails, file, loop
<1>2. \A d \in Chunks : d # c =>
          chunk'[d] = chunk[d] /\ sent'[d] = sent[d] /\ tries'[d] = tries[d]
  <2>1. \/ sent' = sent \/ \E n : sent' = [sent EXCEPT ![c] = n]
    BY DEF ChunkTask, Attempt, Fragment, SendWrite, BodyEnds, LookBeforeCommit, SendCommit,
           SendFails, Answered, AttemptFails, tasks
  <2>2. \/ tries' = tries \/ \E n : tries' = [tries EXCEPT ![c] = n]
    BY DEF ChunkTask, Attempt, Fragment, SendWrite, BodyEnds, LookBeforeCommit, SendCommit,
           SendFails, Answered, AttemptFails, tasks
  <2>3. \E to : chunk' = [chunk EXCEPT ![c] = to]
    BY TaskMoves
  <2>4. chunk \in [Chunks -> Places] /\ sent \in [Chunks -> 0 .. Fragments] /\ tries \in [Chunks -> Nat \ {0}]
    BY DEF EngineTypeOK
  <2>5. \A d \in Chunks : d # c => sent'[d] = sent[d]
    BY <2>1, <2>4
  <2>6. \A d \in Chunks : d # c => tries'[d] = tries[d]
    BY <2>2, <2>4
  <2>7. \A d \in Chunks : d # c => chunk'[d] = chunk[d]
    BY <2>3, <2>4
  <2>8. QED
    BY <2>5, <2>6, <2>7
<1>3. CASE queue' = queue
  BY <1>1, <1>2, <1>3, QueueFrame
<1>4. ASSUME NEW x \in Commands, x.index = c, queue' = Append(queue, x),
             NEW d \in Chunks, d # c
      PROVE  /\ Commits(d)' = Commits(d)
             /\ \A f : Writes(d, f)' = Writes(d, f)
             /\ \A f, by : LastBy(d, f, by) => LastBy(d, f, by)'
  <2>1. /\ \A i : (i \in Commits(d)' <=> i \in Commits(d))
        /\ \A f : \A i : (i \in Writes(d, f)' <=> i \in Writes(d, f))
    <3>1. queue \in Seq(Commands) /\ x.index # d
      BY <1>4 DEF EngineTypeOK
    <3>2. \A i : (i \in Commits(d)' <=> i \in Commits(d))
      BY <1>4, <3>1, AppendQueue
    <3>3. ASSUME NEW f, NEW i PROVE i \in Writes(d, f)' <=> i \in Writes(d, f)
      BY <1>4, <3>1, AppendQueue
    <3>4. QED
      BY <3>2, <3>3
  <2>2. \A f, by : LastBy(d, f, by) => LastBy(d, f, by)'
    BY <1>1, <1>4, AppendLast
  <2>3. QED
    BY <2>1, <2>2
<1>5. CASE SendWrite(c)
  <2>1. Write(c) \in Commands /\ Write(c).index = c /\ queue' = Append(queue, Write(c))
    <3>1. sent[c] < Fragments
      BY <1>5 DEF SendWrite, Become, AttemptIsLast
    <3>2. QED
      BY <1>5, <3>1, CommandsTyped DEF SendWrite, Write
  <2>2. QED
    BY <1>1, <1>2, <1>4, <2>1
<1>6. CASE SendCommit(c)
  <2>1. Commit(c) \in Commands /\ Commit(c).index = c /\ queue' = Append(queue, Commit(c))
    BY <1>6, CommandsTyped DEF SendCommit, Commit
  <2>2. QED
    BY <1>1, <1>2, <1>4, <2>1
<1>7. SendWrite(c) \/ SendCommit(c) \/ queue' = queue
  BY DEF ChunkTask, Attempt, Fragment, BodyEnds, LookBeforeCommit, SendFails, Answered,
         AttemptFails
<1>8. QED
  BY <1>3, <1>5, <1>6, <1>7

\* A chunk task sends its fragments in order, from the first one on at each attempt.
LEMMA AttemptIsLastTask ==
    ASSUME EngineTypeOK, AttemptIsLast, NEW c \in Chunks, ChunkTask(c) \/ AttemptFails(c)
    PROVE  AttemptIsLast'
<1> USE DEF AttemptIsLast
<1>1. /\ UNCHANGED <<file, body, run, writer>>
      /\ \A d \in Chunks : d # c =>
            /\ chunk'[d] = chunk[d] /\ sent'[d] = sent[d] /\ tries'[d] = tries[d]
            /\ \A f, by : LastBy(d, f, by) => LastBy(d, f, by)'
  BY TaskQueue DEF file
<1>2. PICK to \in Places : <<chunk[c], to>> \in Moves /\ chunk' = [chunk EXCEPT ![c] = to]
  BY TaskMoves
<1>3. chunk'[c] = to
  BY <1>2 DEF EngineTypeOK
<1> DEFINE Own == /\ chunk'[c] = "send" => sent'[c] < Fragments
                  /\ chunk'[c] \in {"full", "commit"} => sent'[c] = Fragments
                  /\ writer = "on" /\ chunk'[c] \in Writing \ {"attempt"} =>
                        \A f \in Frags : f < sent'[c] => LastBy(c, f, <<run, tries[c]>>)'
<1>4. ASSUME Own PROVE AttemptIsLast'
  <2> SUFFICES ASSUME NEW d \in Chunks
               PROVE  /\ chunk'[d] = "send" => sent'[d] < Fragments
                      /\ chunk'[d] \in {"full", "commit"} => sent'[d] = Fragments
                      /\ writer = "on" /\ chunk'[d] \in Writing \ {"attempt"} =>
                            \A f \in Frags : f < sent'[d] => LastBy(d, f, <<run, tries[d]>>)'
    BY <1>1 DEF Frags
  <2>1. CASE d = c
    BY <1>4, <2>1
  <2>2. CASE d # c
    <3>1. writer = "on" /\ chunk[d] \in Writing \ {"attempt"} =>
              \A f \in Frags : f < sent[d] => LastBy(d, f, <<run, tries[d]>>)
      BY DEF Frags
    <3>2. QED
      BY <1>1, <2>2, <3>1
  <2>3. QED
    BY <2>1, <2>2
<1>5. CASE Attempt(c)
  <2>1. sent'[c] = 0 /\ chunk'[c] \in {"stream", "cancelled", "paused"}
    BY <1>5 DEF Attempt, LookAtFlags, Become, EngineTypeOK
  <2>2. Own
    BY <2>1 DEF Writing, Frags
  <2>3. QED
    BY <1>4, <2>2
<1>6. CASE Fragment(c) \/ BodyEnds(c) \/ LookBeforeCommit(c)
  <2>1. /\ UNCHANGED <<file, queue, sent, tries>>
        /\ chunk[c] \in {"stream", "full"}
        /\ chunk'[c] = "send" => sent[c] < Fragments
        /\ chunk'[c] \in {"full", "commit"} => sent[c] = Fragments
    BY <1>3, <1>6 DEF Fragment, BodyEnds, LookBeforeCommit, LookAtFlags, Become, EngineTypeOK
  <2>2. ASSUME writer = "on", NEW f \in Frags, f < sent[c]
        PROVE  LastBy(c, f, <<run, tries[c]>>)'
    <3>1. LastBy(c, f, <<run, tries[c]>>)
      BY <2>1, <2>2 DEF Writing, Frags
    <3>2. \A by : LastBy(c, f, by) => LastBy(c, f, by)'
      BY <2>1, QueueFrame
    <3>3. QED
      BY <1>1, <2>1, <3>1, <3>2
  <2>3. Own
    <3>1. sent'[c] = sent[c] /\ tries'[c] = tries[c]
      BY <2>1
    <3>2. QED
      BY <2>1, <2>2, <3>1
  <2>4. QED
    BY <1>4, <2>3
<1>7. CASE SendWrite(c)
  <2>1. /\ chunk[c] = "send" /\ writer = "on" /\ queue' = Append(queue, Write(c)) /\ tries' = tries
        /\ chunk' = [chunk EXCEPT ![c] = "stream"] /\ sent' = [sent EXCEPT ![c] = sent[c] + 1]
    BY <1>7 DEF SendWrite, Become
  <2>2. chunk \in [Chunks -> Places] /\ sent \in [Chunks -> 0 .. Fragments]
    BY DEF EngineTypeOK
  <2>3. /\ chunk'[c] = "stream" /\ tries'[c] = tries[c]
        /\ sent[c] < Fragments /\ sent'[c] = sent[c] + 1 /\ sent[c] \in Nat
    <3>1. sent[c] < Fragments
      BY <2>1
    <3>2. sent[c] \in Nat /\ chunk'[c] = "stream" /\ tries'[c] = tries[c] /\ sent'[c] = sent[c] + 1
      BY <2>1, <2>2
    <3>3. QED
      BY <3>1, <3>2
  <2>4. /\ Write(c) \in Commands /\ Write(c).kind = "write" /\ Write(c).index = c
        /\ Write(c).fragment = sent[c] /\ Write(c).by = <<run, tries[c]>>
    BY <2>3, CommandsTyped DEF Write
  <2>5. ASSUME NEW f \in Frags, f < sent'[c] PROVE LastBy(c, f, <<run, tries[c]>>)'
    <3>1. CASE f = sent[c]
      BY <1>1, <2>1, <2>4, <3>1, AppendLast
    <3>2. CASE f # sent[c]
      <4>1. f < sent[c]
        BY <2>3, <2>5, <3>2 DEF Frags
      <4>2. LastBy(c, f, <<run, tries[c]>>)
        BY <2>1, <4>1 DEF Writing, Frags
      <4>3. QED
        BY <1>1, <2>1, <2>4, <3>2, <4>2, AppendLast
    <3>3. QED
      BY <3>1, <3>2
  <2>6. Own
    <3>1. \A f \in Frags : f < sent'[c] => LastBy(c, f, <<run, tries[c]>>)'
      BY <2>1, <2>5
    <3>2. QED
      BY <2>3, <3>1
  <2>7. QED
    BY <1>4, <2>6
<1>8. CASE AttemptFails(c) \/ SendCommit(c) \/ SendFails(c) \/ Answered(c)
  <2>1. chunk'[c] \notin Writing \ {"attempt"}
    BY <1>3, <1>8 DEF AttemptFails, SendCommit, SendFails, Answered, Become, EngineTypeOK, Writing
  <2>2. Own
    BY <2>1 DEF Writing
  <2>3. QED
    BY <1>4, <2>2
<1>9. QED
  BY <1>5, <1>6, <1>7, <1>8 DEF ChunkTask

\* A chunk nothing is written to any more is only answered.
LEMMA NotWriting ==
    ASSUME EngineTypeOK, NEW c \in Chunks, ChunkTask(c) \/ AttemptFails(c), chunk[c] \notin Writing
    PROVE  UNCHANGED <<file, queue>> /\ chunk'[c] \notin Writing
<1>1. PICK to \in Places : <<chunk[c], to>> \in Moves /\ chunk' = [chunk EXCEPT ![c] = to]
  BY TaskMoves
<1>2. chunk[c] = "await" /\ to \in {"committed", "io", "internal"} /\ chunk'[c] = to
  BY <1>1 DEF Moves, Writing, EngineTypeOK
<1>3. UNCHANGED <<file, queue>>
  BY <1>2 DEF ChunkTask, Attempt, Fragment, SendWrite, BodyEnds, LookBeforeCommit, SendCommit,
              SendFails, Answered, AttemptFails, LookAtFlags, Become
<1>4. QED
  BY <1>2, <1>3 DEF Writing

\* A commit is sent behind the last fragment of the attempt.
LEMMA CommitsAreWholeTask ==
    ASSUME EngineTypeOK, QueueInv, NEW c \in Chunks, ChunkTask(c) \/ AttemptFails(c)
    PROVE  CommitsAreWhole'
<1> USE DEF QueueInv
<1> SUFFICES ASSUME NEW d \in Chunks, Commits(d)' # {}
             PROVE  /\ d \notin pending' /\ chunk'[d] \notin Writing
                    /\ \A i \in Commits(d)', f \in Frags : \A j \in Writes(d, f)' : j < i
                    /\ \E by \in Nat \X Nat :
                          by # Unwritten /\ \A f \in Frags : LastBy(d, f, by)'
  BY DEF CommitsAreWhole, Frags
<1>2. CASE d # c
  BY <1>2, TaskQueue DEF CommitsAreWhole, Frags
<1>3. CASE d = c /\ chunk[c] \notin Writing
  <2>1. UNCHANGED <<file, queue, pending>> /\ chunk'[c] \notin Writing
    BY <1>3, NotWriting, TaskQueue
  <2>2. QED
    BY <1>3, <2>1, QueueFrame DEF CommitsAreWhole, Frags
<1>4. CASE d = c /\ chunk[c] \in Writing
  <2>1. Commits(c) = {} /\ c \notin pending
    BY <1>4 DEF CommitsAreWhole, PendingAreIdle, Writing
  <2>2. SendCommit(c)
    <3>1. ASSUME SendWrite(c) PROVE Commits(c)' = {}
      <4>1. Write(c) \in Commands /\ Write(c).kind = "write" /\ queue' = Append(queue, Write(c))
        <5>1. sent[c] < Fragments
          BY <3>1 DEF SendWrite, Become, AttemptIsLast
        <5>2. QED
          BY <3>1, <5>1, CommandsTyped DEF SendWrite, Write
      <4>2. QED
        BY <2>1, <4>1, AppendQueue DEF EngineTypeOK
    <3>2. ASSUME ~SendWrite(c), ~SendCommit(c) PROVE queue' = queue
      BY <3>2 DEF ChunkTask, Attempt, Fragment, BodyEnds, LookBeforeCommit, SendFails, Answered,
             AttemptFails
    <3>3. QED
      BY <1>4, <2>1, <3>1, <3>2 DEF Commits
  <2>3. /\ chunk[c] = "commit" /\ chunk'[c] = "await" /\ writer = "on" /\ sent[c] = Fragments
        /\ queue' = Append(queue, Commit(c)) /\ body' = body /\ pending' = pending
    BY <2>2 DEF SendCommit, Become, AttemptIsLast, EngineTypeOK, file, loop
  <2>4. Commit(c) \in Commands /\ Commit(c).kind = "commit"
    BY CommandsTyped DEF Commit
  <2>5. ASSUME NEW i \in Commits(c)', NEW f \in Frags, NEW j \in Writes(c, f)' PROVE j < i
    <3>1. i = Len(queue) + 1 /\ j \in DOMAIN queue
      BY <2>1, <2>3, <2>4, AppendQueue DEF EngineTypeOK, Writes
    <3>2. QED
      BY <3>1, AppendQueue, <2>3, <2>4 DEF EngineTypeOK
  <2>6. <<run, tries[c]>> \in Nat \X Nat /\ <<run, tries[c]>> # Unwritten
    BY DEF EngineTypeOK, Unwritten
  <2>7. ASSUME NEW f \in Frags PROVE LastBy(c, f, <<run, tries[c]>>)
    <3>1. f < sent[c] /\ f \in 0 .. Fragments - 1
      BY <2>3 DEF Frags
    <3>2. QED
      BY <2>3, <3>1 DEF AttemptIsLast, Writing
  <2>8. \E by \in Nat \X Nat : by # Unwritten /\ \A f \in Frags : LastBy(c, f, by)'
    <3>1. \E by \in Nat \X Nat : by # Unwritten /\ \A f \in Frags : LastBy(c, f, by)
      BY <2>6, <2>7
    <3>2. \A f \in Frags : \A by : LastBy(c, f, by) => LastBy(c, f, by)'
      BY <2>3, <2>4, AppendLast
    <3>3. QED
      BY <3>1, <3>2
  <2>9. c \notin pending' /\ chunk'[c] \notin Writing
    BY <2>1, <2>3 DEF Writing
  <2>10. QED
    BY <1>4, <2>5, <2>8, <2>9
<1>5. QED
  BY <1>2, <1>3, <1>4

\* A chunk task keeps what the queue will make of the file.
LEMMA QueueChunkTask ==
    ASSUME EngineTypeOK, QueueInv, NEW c \in Chunks, ChunkTask(c) \/ AttemptFails(c)
    PROVE  QueueInv'
<1>1. AttemptIsLast'
  BY AttemptIsLastTask DEF QueueInv
<1>2. CommitsAreWhole'
  BY CommitsAreWholeTask
<1>3. DoneAreWhole'
  <2> SUFFICES ASSUME NEW d \in done'
               PROVE  /\ d \notin pending' /\ chunk'[d] \notin Writing
                      /\ \A f \in Frags : Writes(d, f)' = {}
                      /\ \E by \in Nat \X Nat :
                            by # Unwritten /\ \A f \in Frags : body'[d][f] = by
    BY DEF DoneAreWhole, Frags
  <2>1. UNCHANGED <<done, body, pending>>
    BY TaskQueue DEF QueueInv, file
  <2>2. /\ d \in Chunks /\ d \notin pending /\ chunk[d] \notin Writing
        /\ \A f \in Frags : Writes(d, f) = {}
        /\ \E by \in Nat \X Nat : by # Unwritten /\ \A f \in Frags : body[d][f] = by
    BY <2>1 DEF QueueInv, DoneAreWhole, EngineTypeOK, Frags
  <2>3. chunk'[d] \notin Writing /\ \A f \in Frags : Writes(d, f)' = {}
    <3>1. CASE d = c
      BY <2>2, <3>1, NotWriting, QueueFrame
    <3>2. CASE d # c
      BY <2>2, <3>2, TaskQueue DEF QueueInv
    <3>3. QED
      BY <3>1, <3>2
  <2>4. QED
    BY <2>1, <2>2, <2>3
<1>4. PendingAreIdle'
  <2>1. chunk[c] # "none" /\ pending' = pending
    BY TaskMoves, TaskQueue DEF QueueInv, Moves
  <2>2. \A d \in Chunks : d # c => chunk'[d] = chunk[d]
    BY TaskQueue DEF QueueInv
  <2>3. QED
    BY <2>1, <2>2 DEF QueueInv, PendingAreIdle, EngineTypeOK
<1>5. QED
  BY <1>1, <1>2, <1>3, <1>4 DEF QueueInv

\* The writer takes the command at the head, and what LastBy foretold stays true.
LEMMA HeadTaken ==
    ASSUME EngineTypeOK, WriterWrites \/ WriterCommits
    PROVE  /\ UNCHANGED <<chunk, sent, tries, run, pending, writer>>
           /\ \A c \in Chunks, f \in Frags :
                 /\ \A by : LastBy(c, f, by) => LastBy(c, f, by)'
                 /\ Writes(c, f) = {} => Writes(c, f)' = {} /\ body'[c][f] = body[c][f]
<1>1. /\ UNCHANGED <<chunk, sent, tries, run, pending, writer>>
      /\ queue # <<>> /\ queue' = Tail(queue)
  BY DEF WriterWrites, WriterCommits, NextIs, loop, tasks
<1>2. ASSUME NEW c \in Chunks, NEW f \in Frags
      PROVE  /\ 1 \notin Writes(c, f) => body'[c][f] = body[c][f]
             /\ 1 \in Writes(c, f) => body'[c][f] = queue[1].by
  <2>1. CASE WriterWrites
    <3>1. /\ Head(queue) = queue[1] /\ 1 \in DOMAIN queue /\ queue[1].kind = "write"
          /\ queue[1].index \in Chunks /\ queue[1].fragment \in Frags
          /\ body' = [body EXCEPT ![queue[1].index][queue[1].fragment] = queue[1].by]
      BY <1>1, <2>1, HeadTyped DEF WriterWrites, NextIs, EngineTypeOK
    <3>2. 1 \in Writes(c, f) <=> queue[1].index = c /\ queue[1].fragment = f
      BY <3>1 DEF Writes
    <3>3. body \in [Chunks -> [Frags -> Nat \X Nat]]
      BY DEF EngineTypeOK, Frags
    <3>4. QED
      BY <3>1, <3>2, <3>3
  <2>2. CASE WriterCommits
    <3>1. queue[1].kind = "commit" /\ body' = body
      BY <1>1, <2>2, HeadTyped DEF WriterCommits, NextIs, EngineTypeOK
    <3>2. 1 \notin Writes(c, f)
      BY <3>1 DEF Writes
    <3>3. QED
      BY <3>1, <3>2
  <2>3. QED
    BY <2>1, <2>2
<1>3. ASSUME NEW c \in Chunks, NEW f \in Frags, NEW by, LastBy(c, f, by)
      PROVE  LastBy(c, f, by)'
  BY <1>1, <1>2, <1>3, TailLast
<1>4. ASSUME NEW c \in Chunks, NEW f \in Frags, Writes(c, f) = {}
      PROVE  Writes(c, f)' = {} /\ body'[c][f] = body[c][f]
  <2>1. Writes(c, f)' = {}
    BY <1>1, <1>4, TailQueue DEF EngineTypeOK
  <2>2. QED
    BY <1>2, <1>4, <2>1
<1>5. QED
  BY <1>1, <1>3, <1>4

\* A commit at the head has every write of its chunk behind it.
LEMMA HeadCommit ==
    ASSUME EngineTypeOK, CommitsAreWhole, NextIs("commit")
    PROVE  LET c == Head(queue).index IN
              /\ c \in Chunks /\ c \notin pending /\ chunk[c] \notin Writing
              /\ \A f \in Frags : Writes(c, f) = {}
              /\ \E by \in Nat \X Nat : by # Unwritten /\ \A f \in Frags : body[c][f] = by
<1> DEFINE c == Head(queue).index
<1>1. c \in Chunks /\ 1 \in Commits(c)
  BY HeadTyped DEF NextIs, EngineTypeOK, Commits
<1> HIDE DEF c
<1>2. /\ c \notin pending /\ chunk[c] \notin Writing
      /\ \A f \in Frags : \A j \in Writes(c, f) : j < 1
      /\ \E by \in Nat \X Nat : by # Unwritten /\ \A f \in Frags : LastBy(c, f, by)
  BY <1>1 DEF CommitsAreWhole, Frags
<1>3. ASSUME NEW f \in Frags PROVE Writes(c, f) = {}
  <2>1. \A j \in Writes(c, f) : j \in Nat \ {0}
    BY DEF Writes, EngineTypeOK
  <2>2. QED
    BY <1>2, <2>1
<1>4. \E by \in Nat \X Nat : by # Unwritten /\ \A f \in Frags : body[c][f] = by
  BY <1>2, <1>3 DEF LastBy
<1>5. QED
  BY <1>1, <1>2, <1>3, <1>4 DEF c

\* So does the writer, that does what was queued, in the order it was queued.
LEMMA QueueTakes ==
    ASSUME EngineTypeOK, QueueInv, WriterWrites \/ WriterCommits
    PROVE  QueueInv'
<1>1. /\ UNCHANGED <<chunk, sent, tries, run, pending, writer>>
      /\ queue # <<>> /\ queue' = Tail(queue) /\ queue \in Seq(Commands)
  BY HeadTaken DEF WriterWrites, WriterCommits, NextIs, EngineTypeOK
<1>2. AttemptIsLast'
  BY <1>1, HeadTaken DEF QueueInv, AttemptIsLast, Frags
<1>3. CommitsAreWhole'
  <2> SUFFICES ASSUME NEW d \in Chunks, Commits(d)' # {}
               PROVE  /\ d \notin pending /\ chunk[d] \notin Writing
                      /\ \A i \in Commits(d)', f \in Frags : \A j \in Writes(d, f)' : j < i
                      /\ \E by \in Nat \X Nat :
                            by # Unwritten /\ \A f \in Frags : LastBy(d, f, by)'
    BY <1>1 DEF CommitsAreWhole, Frags
  <2>1. Commits(d) # {}
    BY <1>1, TailQueue
  <2>2. /\ d \notin pending /\ chunk[d] \notin Writing
        /\ \A i \in Commits(d), f \in Frags : \A j \in Writes(d, f) : j < i
        /\ \E by \in Nat \X Nat : by # Unwritten /\ \A f \in Frags : LastBy(d, f, by)
    BY <2>1 DEF QueueInv, CommitsAreWhole, Frags
  <2>3. ASSUME NEW i \in Commits(d)', NEW f \in Frags, NEW j \in Writes(d, f)' PROVE j < i
    <3>1. i \in Nat /\ j \in Nat /\ i + 1 \in Commits(d) /\ j + 1 \in Writes(d, f)
      BY <1>1, TailQueue
    <3>2. j + 1 < i + 1
      BY <2>2, <3>1
    <3>3. QED
      BY <3>1, <3>2
  <2>4. \E by \in Nat \X Nat : by # Unwritten /\ \A f \in Frags : LastBy(d, f, by)'
    BY <2>2, HeadTaken
  <2>5. QED
    BY <2>2, <2>3, <2>4
<1>4. DoneAreWhole'
  <2> SUFFICES ASSUME NEW d \in done'
               PROVE  /\ d \notin pending /\ chunk[d] \notin Writing
                      /\ \A f \in Frags : Writes(d, f)' = {}
                      /\ \E by \in Nat \X Nat :
                            by # Unwritten /\ \A f \in Frags : body'[d][f] = by
    BY <1>1 DEF DoneAreWhole, Frags
  <2>1. d \in done \/ (NextIs("commit") /\ d = Head(queue).index)
    BY DEF WriterWrites, WriterCommits
  <2>2. /\ d \in Chunks /\ d \notin pending /\ chunk[d] \notin Writing
        /\ \A f \in Frags : Writes(d, f) = {}
        /\ \E by \in Nat \X Nat : by # Unwritten /\ \A f \in Frags : body[d][f] = by
    <3>1. CASE d \in done
      BY <3>1 DEF QueueInv, DoneAreWhole, EngineTypeOK, Frags
    <3>2. CASE NextIs("commit") /\ d = Head(queue).index
      BY <3>2, HeadCommit DEF QueueInv
    <3>3. QED
      BY <2>1, <3>1, <3>2
  <2>3. QED
    BY <2>2, HeadTaken
<1>5. PendingAreIdle'
  BY <1>1 DEF QueueInv, PendingAreIdle
<1>6. QED
  BY <1>2, <1>3, <1>4, <1>5 DEF QueueInv

\* The channel closes and nothing is written to any more; what the failed command left
\* behind is not in a committed chunk.
LEMMA QueueFails ==
    ASSUME EngineTypeOK, QueueInv, WriterEnds \/ WriteFails \/ CommitFails
    PROVE  QueueInv'
<1>1. /\ UNCHANGED <<chunk, sent, tries, run, pending>>
      /\ queue' = <<>> /\ writer' # "on"
  BY DEF WriterEnds, WriteFails, CommitFails, loop, tasks
<1>2. \A c, f : Writes(c, f)' = {} /\ Commits(c)' = {}
  BY <1>1, EmptyQueue
<1>3. AttemptIsLast' /\ CommitsAreWhole' /\ PendingAreIdle'
  BY <1>1, <1>2 DEF QueueInv, AttemptIsLast, CommitsAreWhole, PendingAreIdle
<1>4. DoneAreWhole'
  <2> SUFFICES ASSUME NEW d \in done'
               PROVE  /\ d \notin pending /\ chunk[d] \notin Writing
                      /\ \E by \in Nat \X Nat :
                            by # Unwritten /\ \A f \in Frags : body'[d][f] = by
    BY <1>1, <1>2 DEF DoneAreWhole, Frags
  <2>1. CASE CommitFails /\ d \notin done
    <3>1. NextIs("commit") /\ d = Head(queue).index /\ body' = body
      BY <2>1 DEF CommitFails
    <3>2. QED
      BY <3>1, HeadCommit DEF QueueInv
  <2>2. CASE d \in done
    <3>1. /\ d \in Chunks /\ d \notin pending /\ chunk[d] \notin Writing
          /\ \A f \in Frags : Writes(d, f) = {}
          /\ \E by \in Nat \X Nat : by # Unwritten /\ \A f \in Frags : body[d][f] = by
      BY <2>2 DEF QueueInv, DoneAreWhole, EngineTypeOK, Frags
    <3>2. body'[d] = body[d]
      <4>1. CASE WriterEnds \/ CommitFails
        BY <4>1 DEF WriterEnds, CommitFails, file
      <4>2. CASE WriteFails
        <5>1. /\ Head(queue) = queue[1] /\ 1 \in DOMAIN queue /\ queue[1].kind = "write"
              /\ queue[1].index \in Chunks /\ queue[1].fragment \in Frags
          BY <4>2, HeadTyped DEF WriteFails, NextIs, EngineTypeOK
        <5>2. 1 \in Writes(queue[1].index, queue[1].fragment)
          BY <5>1 DEF Writes
        <5>3. queue[1].index # d
          BY <3>1, <5>1, <5>2
        <5>4. \/ body' = body
              \/ body' = [body EXCEPT ![queue[1].index][queue[1].fragment] = queue[1].by]
          BY <4>2, <5>1 DEF WriteFails
        <5>5. QED
          BY <3>1, <5>1, <5>3, <5>4 DEF EngineTypeOK
      <4>3. QED
        BY <4>1, <4>2
    <3>3. QED
      BY <3>1, <3>2
  <2>3. QED
    BY <2>1, <2>2 DEF WriterEnds, WriteFails, CommitFails, file
<1>5. QED
  BY <1>3, <1>4 DEF QueueInv

\* A step that leaves the file and the queue alone and starts no work on a body.
LEMMA QueueKept ==
    ASSUME EngineTypeOK, QueueInv, UNCHANGED <<file, queue, run, writer>>, pending' \subseteq pending,
           \A c \in Chunks :
              \/ chunk'[c] = chunk[c] /\ sent'[c] = sent[c] /\ tries'[c] = tries[c]
              \/ chunk'[c] = "none"
              \/ chunk'[c] = "attempt" /\ c \in pending,
           \A c \in pending' : chunk'[c] \in {chunk[c], "none"}
    PROVE  QueueInv'
<1>1. /\ \A c, f : Writes(c, f)' = Writes(c, f)
      /\ \A c : Commits(c)' = Commits(c)
      /\ \A c, f, by : LastBy(c, f, by) => LastBy(c, f, by)'
  BY QueueFrame
<1>2. AttemptIsLast'
  BY <1>1 DEF QueueInv, AttemptIsLast, Writing, Frags
<1>3. CommitsAreWhole'
  <2> SUFFICES ASSUME NEW d \in Chunks, Commits(d)' # {}
               PROVE  d \notin pending' /\ chunk'[d] \notin Writing /\ d \notin pending
    BY <1>1 DEF QueueInv, CommitsAreWhole
  <2>1. d \notin pending /\ chunk[d] \notin Writing
    BY <1>1 DEF QueueInv, CommitsAreWhole
  <2>2. QED
    BY <2>1 DEF Writing
<1>4. DoneAreWhole'
  <2>1. ASSUME NEW d \in done PROVE d \notin pending' /\ chunk'[d] \notin Writing
    <3>1. d \in Chunks /\ d \notin pending /\ chunk[d] \notin Writing
      BY DEF QueueInv, DoneAreWhole, EngineTypeOK
    <3>2. QED
      BY <3>1 DEF Writing
  <2>2. QED
    BY <1>1, <2>1 DEF QueueInv, DoneAreWhole, file
<1>5. PendingAreIdle'
  BY DEF QueueInv, PendingAreIdle
<1>6. QED
  BY <1>2, <1>3, <1>4, <1>5 DEF QueueInv

\* The loop changes neither, but for the chunks it gives up.
LEMMA QueueLoop ==
    ASSUME EngineTypeOK, QueueInv, Pause \/ Cancel \/ Loop \/ \E c \in Chunks : Abort(c)
    PROVE  QueueInv'
<1>1. ASSUME NEW c \in Chunks, Spawn(c) PROVE QueueInv'
  <2>1. /\ UNCHANGED <<file, queue, run, writer, sent, tries>> /\ c \in pending
        /\ pending' = pending \ {c} /\ chunk' = [chunk EXCEPT ![c] = "attempt"]
    BY <1>1 DEF Spawn
  <2>2. \A d \in Chunks : \/ chunk'[d] = chunk[d] /\ sent'[d] = sent[d] /\ tries'[d] = tries[d]
                          \/ chunk'[d] = "attempt" /\ d \in pending
    BY <2>1 DEF EngineTypeOK
  <2>3. \A d \in pending' : chunk'[d] = chunk[d]
    BY <2>1 DEF EngineTypeOK
  <2>4. QED
    BY <2>1, <2>2, <2>3, QueueKept
<1>2. ASSUME NEW c \in Chunks, NEW from, Gone(c, from), UNCHANGED <<file, queue, run, writer, pending>>
      PROVE  QueueInv'
  <2>1. /\ chunk' = [chunk EXCEPT ![c] = "none"]
        /\ tries' = [tries EXCEPT ![c] = 1] /\ sent' = [sent EXCEPT ![c] = 0]
    BY <1>2 DEF Gone, Become
  <2>2. \A d \in Chunks : \/ chunk'[d] = chunk[d] /\ sent'[d] = sent[d] /\ tries'[d] = tries[d]
                          \/ chunk'[d] = "none"
    BY <2>1 DEF EngineTypeOK
  <2>3. \A d \in pending' : chunk'[d] \in {chunk[d], "none"}
    BY <1>2, <2>2 DEF EngineTypeOK
  <2>4. QED
    BY <1>2, <2>2, <2>3, QueueKept
<1>3. ASSUME NEW c \in Chunks, JoinCommitted(c) \/ JoinStopped(c) \/ Abort(c) PROVE QueueInv'
  <2>1. UNCHANGED <<file, queue, run, writer, pending>> /\ \E from : Gone(c, from)
    BY <1>3 DEF JoinCommitted, JoinStopped, Abort, loop
  <2>2. QED
    BY <1>2, <2>1
<1>4. CASE \/ Pause \/ Cancel \/ Top \/ PauseCheck \/ Spawned \/ Joined \/ ShutDown \/ Close \/ Final
  <2>1. /\ UNCHANGED <<file, queue, run, writer, tasks>> /\ pending' \subseteq pending
    BY <1>4 DEF Pause, Cancel, Top, PauseCheck, Spawned, Joined, ShutDown, Close, Final, Finishes,
                Ends, loop
  <2>2. QED
    BY <2>1, QueueKept DEF tasks, EngineTypeOK
<1>5. QED
  BY <1>1, <1>3, <1>4 DEF Loop

\* A run begins with an empty queue.
LEMMA QueueStart ==
    ASSUME EngineTypeOK, LoopInv, QueueInv, Start
    PROVE  QueueInv'
<1>1. /\ UNCHANGED <<file, queue, chunk, sent, tries>> /\ pending' = Chunks \ done
      /\ Live = {} /\ queue = <<>>
  BY DEF Start, tasks, LoopInv
<1>2. \A c \in Chunks : chunk[c] = "none"
  BY <1>1 DEF Live
<1>3. \A c, f : Writes(c, f)' = {} /\ Writes(c, f) = {} /\ Commits(c)' = {}
  BY <1>1 DEF Writes, Commits
<1>4. AttemptIsLast' /\ CommitsAreWhole' /\ PendingAreIdle'
  BY <1>1, <1>2, <1>3 DEF AttemptIsLast, CommitsAreWhole, PendingAreIdle, Writing
<1>5. DoneAreWhole'
  BY <1>1, <1>2, <1>3 DEF DoneAreWhole, QueueInv, Writing, file
<1>6. QED
  BY <1>4, <1>5 DEF QueueInv

-----------------------------------------------------------------------------
(* The theorems                                                            *)

EngineInv == EngineTypeOK /\ LoopInv /\ QueueInv

\* All of it is kept by every step.
LEMMA EngineInductive == EngineInv /\ [Next]_vars => EngineInv'
<1> SUFFICES ASSUME EngineInv, [Next]_vars PROVE EngineInv'
  OBVIOUS
<1> USE DEF EngineInv
<1>1. CASE Start
  BY <1>1, TypesLoop, LoopCalls, QueueStart
<1>2. CASE Pause \/ Cancel
  BY <1>2, TypesLoop, LoopCalls, QueueLoop
<1>3. CASE Loop \/ \E c \in Chunks : Abort(c)
  BY <1>3, TypesLoop, LoopLoop, QueueLoop
<1>4. ASSUME NEW c \in Chunks, ChunkTask(c) \/ AttemptFails(c) PROVE EngineInv'
  BY <1>4, TypesChunkTask, LoopChunkTask, QueueChunkTask DEF QueueInv
<1>5. CASE WriterThread \/ WriteFails \/ CommitFails
  BY <1>5, TypesWriter, LoopWriter, QueueTakes, QueueFails DEF WriterThread
<1>6. CASE UNCHANGED vars
  <2>1. UNCHANGED <<file, control, loop, tasks, replies, queue, writer, faults>>
    BY <1>6 DEF vars
  <2>2. EngineTypeOK'
    BY <2>1 DEF EngineTypeOK, file, control, loop, tasks, replies
  <2>3. LoopInv'
    BY <2>1 DEF LoopInv, Live, file, control, loop, tasks, replies
  <2>4. QueueInv'
    BY <2>1, QueueKept DEF tasks, loop
  <2>5. QED
    BY <2>2, <2>3, <2>4
<1>7. QED
  BY <1>1, <1>2, <1>3, <1>4, <1>5, <1>6 DEF Next

\* Whatever the channel's capacity and however the tasks, the writer and the failures
\* interleave: an attempt's fragments are what its chunk will hold once the queue is
\* written, and a commit follows every write of its chunk.
THEOREM EngineInvariant == Spec => []EngineInv
<1>1. Init => EngineInv
  BY EngineTypesInit, LoopInit, QueueInit DEF EngineInv
<1>2. QED
  BY <1>1, EngineInductive, PTL DEF Spec

\* A committed chunk is the body of one attempt throughout, in every run of the handle
\* and after every failure of the server or the disk.
THEOREM CommittedIsOneAttempt == Spec => []CommittedFromOneAttempt
<1>1. EngineInv => CommittedFromOneAttempt
  BY DEF EngineInv, QueueInv, DoneAreWhole, CommittedFromOneAttempt
<1>2. QED
  BY <1>1, EngineInvariant, PTL

\* The loop finishes only a whole file, and an ended run leaves no task, no writer and no
\* command behind that could touch the part file of the next.
THEOREM RunLeavesNothing == Spec => []NothingLeftBehind
<1>1. EngineInv => NothingLeftBehind
  BY DEF EngineInv, LoopInv, NothingLeftBehind
<1>2. QED
  BY <1>1, EngineInvariant, PTL

\* What the writer returned decides how the run ends, whatever the loop was left for.
THEOREM WriterDecides == Spec => []WriterFailurePrevails
<1>1. Init => WriterFailurePrevails
  BY DEF Init, WriterFailurePrevails
<1>2. EngineInv /\ WriterFailurePrevails /\ [Next]_vars => WriterFailurePrevails'
  BY PrevailsStep DEF EngineInv
<1>3. QED
  BY <1>1, <1>2, EngineInvariant, PTL DEF Spec
=============================================================================
