------------------------------- MODULE JsFacade -------------------------------
(***************************************************************************)
(* A DownloadTask of the JavaScript facade (takanawa-js-core index.ts)     *)
(* over the Tauri plugin: its adapter (takanawa-tauri index.ts) invokes    *)
(* commands, which the plugin (takanawa-tauri lib.rs) executes one at a    *)
(* time on the main thread against its registry of tasks.                  *)
(*                                                                         *)
(* JavaScript runs one step at a time too, from one await to the next, and *)
(* any of the calls in progress may be the next to go on.  A native task   *)
(* is known by the create that made it, a promise likewise.  The limit on  *)
(* I/O that create sets is IoLimiter's SetMax; what a started task does is *)
(* in DownloadHandle.                                                      *)
(***************************************************************************)
EXTENDS Naturals, FiniteSets

CONSTANTS
    Callers,     \* as many calls of the task's methods are in progress at once
    MaxCreates,  \* bound on the creates
    MaxListeners \* bound on the listeners added

ASSUME JsBoundsAssumption == {MaxCreates, MaxListeners} \subseteq Nat

VARIABLES
    closed,       \* #closed
    task,         \* #task, 0 for undefined
    promise,      \* #taskPromise, 0 for undefined
    creation,     \* per create: "none", "sent", "made", "refused"; then, as a promise,
                  \* "fulfilled" or "rejected"
    handles,      \* #listenerHandles
    call,         \* per caller, its call: the method, where it stands, the task or
                  \* promise it is about, and its listener
    registry,     \* the plugin's TaskRegistry.tasks
    runningTasks, \* the tasks whose start_on was called
    listening,    \* the listeners that the page's event system calls
    kind          \* per listener: "none", "progress" or "speed"

native == <<registry, runningTasks, listening>>
jsVars == <<closed, task, promise, creation, handles, call, native, kind>>

Creates == 1 .. MaxCreates
Listeners == 1 .. MaxListeners
Idle == [op |-> "none", at |-> "idle", p |-> 0, l |-> 0]

JsInit ==
    /\ closed = FALSE /\ task = 0 /\ promise = 0
    /\ creation = [p \in Creates |-> "none"]
    /\ handles = {}
    /\ call = [c \in Callers |-> Idle]
    /\ registry = {} /\ runningTasks = {} /\ listening = {}
    /\ kind = [l \in Listeners |-> "none"]

Stands(c, place) == call[c].at = place
GoesTo(c, place) == call' = [call EXCEPT ![c].at = place]
Return(c) == call' = [call EXCEPT ![c] = Idle]

-----------------------------------------------------------------------------
(* The native task                                                         *)

\* Mutant: whoever finds no task yet creates one.
EnsureTaskUnshared(c, op) ==
    /\ ~closed
    /\ \/ /\ task # 0
          /\ call' = [call EXCEPT ![c] = [Idle EXCEPT !.op = op, !.at = "task", !.p = task]]
          /\ UNCHANGED <<promise, creation>>
       \/ /\ task = 0
          /\ \E p \in Creates :
                /\ creation[p] = "none"
                /\ creation' = [creation EXCEPT ![p] = "sent"]
                /\ promise' = p
                /\ call' = [call EXCEPT ![c] = [Idle EXCEPT !.op = op, !.at = "task", !.p = p]]
    /\ UNCHANGED <<closed, task, handles, native, kind>>

\* #ensureTask, from a method; it throws once the task is closed.  The first call
\* creates the native task, the others await the same promise.
EnsureTask(c, op) ==
    /\ ~closed
    /\ \/ /\ promise # 0
          /\ call' = [call EXCEPT ![c] = [Idle EXCEPT !.op = op, !.at = "task", !.p = promise]]
          /\ UNCHANGED <<promise, creation>>
       \/ /\ promise = 0
          /\ \E p \in Creates :
                /\ creation[p] = "none"
                /\ creation' = [creation EXCEPT ![p] = "sent"]
                /\ promise' = p
                /\ call' = [call EXCEPT ![c] = [Idle EXCEPT !.op = op, !.at = "task", !.p = p]]
    /\ UNCHANGED <<closed, task, handles, native, kind>>

\* The command create: the registry has the task before it has its callbacks.
CreateCommand(p) ==
    /\ creation[p] = "sent"
    /\ \/ creation' = [creation EXCEPT ![p] = "made"] /\ registry' = registry \cup {p}
       \/ creation' = [creation EXCEPT ![p] = "refused"] /\ UNCHANGED registry
    /\ UNCHANGED <<closed, task, promise, handles, call, runningTasks, listening, kind>>

\* The two callbacks of then.
Settle(p) ==
    /\ \/ /\ creation[p] = "made"
          /\ creation' = [creation EXCEPT ![p] = "fulfilled"]
          /\ task' = p
          /\ UNCHANGED promise
       \/ /\ creation[p] = "refused"
          /\ creation' = [creation EXCEPT ![p] = "rejected"]
          /\ promise' = 0
          /\ UNCHANGED task
    /\ UNCHANGED <<closed, handles, call, native, kind>>

\* The await of the promise ends; with an error, so does the call.
Awaited(c) ==
    /\ Stands(c, "task")
    /\ \/ creation[call[c].p] = "fulfilled" /\ GoesTo(c, "command")
       \/ creation[call[c].p] = "rejected" /\ Return(c)
    /\ UNCHANGED <<closed, task, promise, creation, handles, native, kind>>

\* The command start; the registry may know the task no longer.  pause, cancel,
\* snapshot and bitmap look it up the same way.
StartCommand(c) ==
    /\ Stands(c, "command") /\ call[c].op = "start"
    /\ runningTasks' = IF call[c].p \in registry THEN runningTasks \cup {call[c].p} ELSE runningTasks
    /\ Return(c)
    /\ UNCHANGED <<closed, task, promise, creation, handles, registry, listening, kind>>

-----------------------------------------------------------------------------
(* Listeners                                                               *)

\* The adapter listens.
Listen(c) ==
    /\ Stands(c, "command") /\ call[c].op \in {"progress", "speed"}
    /\ \E l \in Listeners :
          /\ kind[l] = "none"
          /\ kind' = [kind EXCEPT ![l] = call[c].op]
          /\ listening' = listening \cup {l}
          /\ call' = [call EXCEPT ![c].at = "listening", ![c].l = l]
    /\ UNCHANGED <<closed, task, promise, creation, handles, registry, runningTasks>>

\* remove of the handle of l; once it is removed this changes nothing.
Removes(l) ==
    /\ handles' = handles \ {l}
    /\ listening' = listening \ {l}

\* addSpeedListener has its adapter handle, and keeps it.
SpeedListened(c) ==
    /\ Stands(c, "listening") /\ call[c].op = "speed"
    /\ handles' = handles \cup {call[c].l}
    /\ Return(c)
    /\ UNCHANGED <<closed, task, promise, creation, native, kind>>

\* addProgressListener too, and asks for a snapshot: with the task closed in the
\* meantime that throws at once, and the listener is removed.
ProgressListened(c) ==
    /\ Stands(c, "listening") /\ call[c].op = "progress"
    /\ \/ /\ closed
          /\ Removes(call[c].l)
          /\ Return(c)
       \/ /\ ~closed
          /\ handles' = handles \cup {call[c].l}
          /\ GoesTo(c, "snapshot")
          /\ UNCHANGED listening
    /\ UNCHANGED <<closed, task, promise, creation, registry, runningTasks, kind>>

\* The command snapshot, and the listener's first call, either of which may fail.
FirstSnapshot(c) ==
    /\ Stands(c, "snapshot")
    /\ \/ call[c].p \in registry /\ UNCHANGED <<handles, listening>>
       \/ Removes(call[c].l)
    /\ Return(c)
    /\ UNCHANGED <<closed, task, promise, creation, registry, runningTasks, kind>>

\* The handle was returned, and its owner removes the listener.
RemoveListener(l) ==
    /\ l \in handles /\ \A c \in Callers : call[c].l # l
    /\ Removes(l)
    /\ UNCHANGED <<closed, task, promise, creation, call, registry, runningTasks, kind>>

-----------------------------------------------------------------------------
(* close                                                                   *)

\* Up to the first await: the flag, and the listeners there are.
CloseBegins(c) ==
    /\ ~closed
    /\ closed' = TRUE
    /\ handles' = {}
    /\ listening' = listening \ handles
    /\ call' = [call EXCEPT ![c] = [Idle EXCEPT !.op = "close", !.at = "removing"]]
    /\ UNCHANGED <<task, promise, creation, registry, runningTasks, kind>>

\* Mutant: a task that is still being created is not waited for.
CloseTakesTask(c) ==
    /\ Stands(c, "removing")
    /\ promise' = 0 /\ task' = 0
    /\ IF task = 0 THEN Return(c)
                   ELSE call' = [call EXCEPT ![c].at = "closing", ![c].p = task]
    /\ UNCHANGED <<closed, creation, handles, native, kind>>

\* Up to the second: the promise, which may be pending.
CloseTakesPromise(c) ==
    /\ Stands(c, "removing")
    /\ promise' = 0 /\ task' = 0
    /\ IF promise = 0 THEN Return(c)
                      ELSE call' = [call EXCEPT ![c].at = "closing", ![c].p = promise]
    /\ UNCHANGED <<closed, creation, handles, native, kind>>

\* The command close.  The registry's Arc of the handle is the only one, and its
\* drop ends a running task.
CloseCommand(c) ==
    /\ Stands(c, "closing")
    /\ \/ /\ creation[call[c].p] = "fulfilled"
          /\ registry' = registry \ {call[c].p}
          /\ runningTasks' = runningTasks \ {call[c].p}
       \/ creation[call[c].p] = "rejected" /\ UNCHANGED <<registry, runningTasks>>
    /\ Return(c)
    /\ UNCHANGED <<closed, task, promise, creation, handles, listening, kind>>

-----------------------------------------------------------------------------
GoesOn(c) ==
    \/ Awaited(c) \/ StartCommand(c) \/ Listen(c) \/ SpeedListened(c) \/ ProgressListened(c)
    \/ FirstSnapshot(c) \/ CloseTakesPromise(c) \/ CloseCommand(c)

JsNext ==
    \/ \E c \in Callers :
           \/ Stands(c, "idle") /\ \E op \in {"start", "progress", "speed"} : EnsureTask(c, op)
           \/ Stands(c, "idle") /\ CloseBegins(c)
           \/ GoesOn(c)
    \/ \E p \in Creates : CreateCommand(p) \/ Settle(p)
    \/ \E l \in Listeners : RemoveListener(l)

JsSpec == JsInit /\ [][JsNext]_jsVars

\* Commands are executed and awaits end.
JsFairness ==
    /\ \A c \in Callers : WF_jsVars(GoesOn(c))
    /\ \A p \in Creates : WF_jsVars(CreateCommand(p) \/ Settle(p))

-----------------------------------------------------------------------------
(* Properties                                                              *)

\* However many methods are called before the native task is there, and however
\* many creates are refused, a DownloadTask has one native task at most.
OneNativeTask == Cardinality(registry) <= 1

\* close releases the native task, also one that is still being created, and removes
\* the progress listeners, also one that is just being added, whose first snapshot
\* fails; no call that was in progress brings either back.  (A speed listener that is
\* just being added stays.)
CloseReleases ==
    closed ~> [](registry = {} /\ \A l \in listening : kind[l] = "speed")

\* What makes the first inductive: one create at most is under way or has its task, and
\* until the close, which alone forgets it, its promise is the facade's.
Begun == {p \in Creates : creation[p] \notin {"none", "rejected"}}

CallStates ==
    [op : {"none", "start", "progress", "speed", "close"},
     at : {"idle", "task", "command", "listening", "snapshot", "removing", "closing"},
     p : Creates \cup {0}, l : Listeners \cup {0}]

JsInv ==
    /\ promise \in Creates \cup {0} /\ closed \in BOOLEAN
    /\ call \in [Callers -> CallStates]
    /\ \A c \in Callers : Stands(c, "removing") => closed
    /\ creation \in [Creates -> {"none", "sent", "made", "refused", "fulfilled", "rejected"}]
    /\ registry \subseteq {p \in Creates : creation[p] \in {"made", "fulfilled"}}
    /\ \A p, q \in Begun : p = q
    /\ closed \/ \A p \in Begun : promise = p
=============================================================================
