--------------------------------- MODULE Ffi ---------------------------------
(***************************************************************************)
(* The C ABI (takanawa-ffi lib.rs), which the JNI, Swift and C# wrappers   *)
(* call: one global runtime behind the mutex GLOBAL, handles that share    *)
(* it, and callback contexts that the library frees.                       *)
(*                                                                         *)
(* Host threads call the functions; the tasks of the downloads run on the  *)
(* runtime's workers.  Either may be inside a callback, and a callback may *)
(* call functions again, so every actor has a stack of calls, innermost    *)
(* first.  A mutex is held for one step unless something that waits        *)
(* happens under it; those holders are variables.  Arc and the tokio       *)
(* runtime are external: what the last clone owns is dropped where that    *)
(* clone is, and a runtime's drop waits until its workers leave the        *)
(* callbacks they are in.  Lifecycle and flags are in DownloadHandle.      *)
(*                                                                         *)
(* A caller releases a handle once, while it makes no other call on it,    *)
(* and not from a callback; a download's number is its pointer, null once  *)
(* it is released.                                                         *)
(***************************************************************************)
EXTENDS Naturals, Sequences, FiniteSets

CONSTANTS
    Managers,     \* the host threads that call the tknw_global functions
    Users,        \* the host threads that call the others
    Downloads,    \* downloads, and the tasks that run them
    Slots,        \* "progress" and "speed": the callbacks, whose code is the same
    NestedCalls,  \* the functions that callbacks call
    MaxDepth,     \* bound on the calls on one stack
    MaxRuntimes,  \* bound on the runtimes made
    MaxContexts,  \* bound on the callback contexts made
    MaxShutdowns, \* bound on the shutdowns
    Nobody

ASSUME FfiAssumption ==
    /\ (Managers \cup Users) \cap Downloads = {}
    /\ {Nobody, "GLOBAL"} \cap (Managers \cup Users \cup Downloads) = {}
    /\ "progress" \in Slots
    /\ NestedCalls \subseteq {"set", "pause", "cancel", "start"}
    /\ {MaxDepth, MaxRuntimes, MaxContexts, MaxShutdowns} \subseteq Nat

VARIABLES
    global,    \* the Arc in GLOBAL: the number of its runtime, 0 for None
    guard,     \* who holds the mutex GLOBAL over a step that waits
    runtimes,  \* runtimes made so far
    stopped,   \* the runtimes that have been dropped
    shutdowns, \* calls of tknw_global_shutdown so far
    box,       \* per download: "none", "live", "freeing" or "freed" (the TknwDownload)
    host,      \* per download, the runtime of its Arc<GlobalRuntime>
    born,      \* history: per download, shutdowns when its Arc was cloned
    join,      \* per download, who holds its join mutex over a callback
    task,      \* per download: "none", "running" or "aborted"
    installed, \* per download and slot, the context its callback owns, or 0
    contexts,  \* contexts made so far
    owner,     \* history: per context, the download it was made for
    releases,  \* per context, how often it has been released
    stack      \* per actor, its calls, the innermost first

boxes == <<box, host, born>>
callbacks == <<installed, contexts, owner, releases>>
engine == <<global, guard, runtimes, stopped, shutdowns>>
ffiVars == <<engine, boxes, join, task, callbacks, stack>>

Threads == Managers \cup Users
Actors == Threads \cup Downloads

\* A call: the function, where it stands, its download, slot, context, runtime.
Call(op, d) == [op |-> op, at |-> "begin", d |-> d, s |-> CHOOSE s \in Slots : TRUE, c |-> 0, r |-> 0]

Calls(a) == {stack[a][i] : i \in DOMAIN stack[a]}
AllCalls == UNION {Calls(a) : a \in Actors}

Calling(d, ops) == \E call \in AllCalls : call.d = d /\ call.op \in ops

FfiInit ==
    /\ global = 0 /\ guard = Nobody /\ runtimes = 0 /\ stopped = {} /\ shutdowns = 0
    /\ box = [d \in Downloads |-> "none"]
    /\ host = [d \in Downloads |-> 0]
    /\ born = [d \in Downloads |-> 0]
    /\ join = [d \in Downloads |-> Nobody]
    /\ task = [d \in Downloads |-> "none"]
    /\ installed = [d \in Downloads |-> [s \in Slots |-> 0]]
    /\ contexts = 0
    /\ owner = [c \in 1 .. MaxContexts |-> Nobody]
    /\ releases = [c \in 1 .. MaxContexts |-> 0]
    /\ stack = [a \in Actors |-> <<>>]

In(a, op, place) == stack[a] # <<>> /\ Head(stack[a]).op = op /\ Head(stack[a]).at = place
Top(a) == Head(stack[a])
Goto(a, call) == stack' = [stack EXCEPT ![a] = <<call>> \o Tail(@)]
Return(a) == stack' = [stack EXCEPT ![a] = Tail(@)]

\* The rest of the calls of a, after a callback of its download in slot s, unless
\* the throttle holds that back or there is none.
Notify(a, s, rest) ==
    \/ stack' = [stack EXCEPT ![a] = rest]
    \/ /\ Len(rest) < MaxDepth
       /\ stack' = [stack EXCEPT ![a] = <<[Call("emit", Top(a).d) EXCEPT !.s = s]>> \o rest]

-----------------------------------------------------------------------------
(* The global runtime                                                      *)

\* Who has a clone of the Arc of runtime r.
Owners(r) ==
    (IF global = r THEN {"GLOBAL"} ELSE {})
        \cup {d \in Downloads : box[d] = "live" /\ host[d] = r}
        \cup {a \in Actors : \E call \in Calls(a) : call.r = r}

\* Mutant: init makes a new runtime over the one there is.
GlobalInitReplaces(a) ==
    /\ In(a, "init", "begin")
    /\ guard = Nobody
    /\ runtimes < MaxRuntimes
    /\ runtimes' = runtimes + 1
    /\ global' = runtimes'
    /\ Return(a)
    /\ UNCHANGED <<guard, stopped, shutdowns, boxes, join, task, callbacks>>

\* tknw_global_init: with a runtime there, only its limit is set.
GlobalInit(a) ==
    /\ In(a, "init", "begin")
    /\ guard = Nobody
    /\ \/ global # 0 /\ UNCHANGED <<global, runtimes>>
       \/ /\ global = 0
          /\ runtimes < MaxRuntimes
          /\ runtimes' = runtimes + 1
          /\ global' = runtimes'
    /\ Return(a)
    /\ UNCHANGED <<guard, stopped, shutdowns, boxes, join, task, callbacks>>

\* Mutant: shutdown stops the runtime although downloads still hold it.
GlobalShutdownStops(a) ==
    /\ In(a, "shutdown", "begin")
    /\ guard = Nobody
    /\ global' = 0
    /\ shutdowns' = shutdowns + 1
    /\ guard' = IF global # 0 THEN a ELSE Nobody
    /\ IF global # 0 THEN Goto(a, [Top(a) EXCEPT !.at = "stopping", !.r = global]) ELSE Return(a)
    /\ UNCHANGED <<runtimes, stopped, boxes, join, task, callbacks>>

\* tknw_global_shutdown: the Arc is taken and dropped under the mutex; the last
\* one takes the runtime with it.
GlobalShutdown(a) ==
    /\ In(a, "shutdown", "begin")
    /\ guard = Nobody
    /\ global' = 0
    /\ shutdowns' = shutdowns + 1
    /\ LET last == global # 0 /\ Owners(global) = {"GLOBAL"}
       IN  /\ guard' = IF last THEN a ELSE Nobody
           /\ IF last THEN Goto(a, [Top(a) EXCEPT !.at = "stopping", !.r = global]) ELSE Return(a)
    /\ UNCHANGED <<runtimes, stopped, boxes, join, task, callbacks>>

\* current_global: the Arc is cloned under the mutex, or there is none.
CurrentGlobal(a) ==
    /\ In(a, "create", "begin") \/ In(a, "set_max_io", "begin")
    /\ guard = Nobody
    /\ \/ global = 0 /\ Return(a) /\ UNCHANGED born
       \/ /\ global # 0
          /\ Goto(a, [Top(a) EXCEPT !.at = "cloned", !.r = global])
          /\ born' = IF Top(a).op = "create" THEN [born EXCEPT ![Top(a).d] = shutdowns] ELSE born
    /\ UNCHANGED <<engine, box, host, join, task, callbacks>>

\* The clone goes out of scope: after set_max_io, or when create refuses its
\* configuration.  It may be the last.
DropClone(a) ==
    /\ In(a, "create", "cloned") \/ In(a, "set_max_io", "cloned")
    /\ IF Owners(Top(a).r) = {a} THEN Goto(a, [Top(a) EXCEPT !.at = "stopping"]) ELSE Return(a)
    /\ UNCHANGED <<engine, boxes, join, task, callbacks>>

\* tknw_download_create, from a configuration it accepts.
Create(a) ==
    /\ In(a, "create", "cloned")
    /\ box' = [box EXCEPT ![Top(a).d] = "live"]
    /\ host' = [host EXCEPT ![Top(a).d] = Top(a).r]
    /\ Return(a)
    /\ UNCHANGED <<engine, born, join, task, callbacks>>

Stopping(r) == \E call \in AllCalls : call.at = "stopping" /\ call.r = r

\* The shared state of the downloads ds is dropped, and the callbacks with it.
DropStates(ds) ==
    /\ installed' = [d \in Downloads |-> IF d \in ds THEN [s \in Slots |-> 0] ELSE installed[d]]
    /\ releases' = [c \in 1 .. MaxContexts |->
                        IF \E d \in ds, s \in Slots : installed[d][s] = c
                        THEN releases[c] + 1 ELSE releases[c]]
    /\ UNCHANGED <<contexts, owner>>

\* The drop of a runtime: no task is polled again, and once the workers have
\* left their callbacks the tasks are dropped.  A task is the last to own the
\* shared state of a download that is released.
Stop(a) ==
    /\ stack[a] # <<>> /\ Top(a).at = "stopping"
    /\ \A d \in Downloads : host[d] = Top(a).r => stack[d] = <<>>
    /\ stopped' = stopped \cup {Top(a).r}
    /\ LET ended == {d \in Downloads : task[d] # "none" /\ host[d] = Top(a).r}
       IN  /\ task' = [d \in Downloads |-> IF d \in ended THEN "none" ELSE task[d]]
           /\ DropStates({d \in ended : box[d] = "freed"})
    /\ guard' = IF guard = a THEN Nobody ELSE guard
    /\ IF Top(a).op = "release" THEN Goto(a, [Top(a) EXCEPT !.at = "inner", !.r = 0]) ELSE Return(a)
    /\ UNCHANGED <<global, runtimes, shutdowns, boxes, join>>

-----------------------------------------------------------------------------
(* Contexts and the callbacks that own them                                *)

Holds(a, c) == \E call \in Calls(a) : call.c = c
InUse(c) == \/ \E a \in Actors : Holds(a, c)
            \/ \E d \in Downloads, s \in Slots : installed[d][s] = c

\* Mutant: a context is released when its callback is replaced.
ReleaseAtOnce(a, c) ==
    releases' = IF c = 0 THEN releases ELSE [releases EXCEPT ![c] = @ + 1]

\* CallbackContext::drop, when actor a drops its clone of the closure.
Release(a, c) ==
    LET others == \/ \E b \in Actors \ {a} : Holds(b, c)
                  \/ \E i \in 2 .. Len(stack[a]) : stack[a][i].c = c
                  \/ \E d \in Downloads, s \in Slots : installed[d][s] = c
    IN  releases' = IF c = 0 \/ others THEN releases ELSE [releases EXCEPT ![c] = @ + 1]

\* A wrapper (the JNI functions are the repository's own) makes a context, after
\* lookups that may fail, and sets the callback.
SetCallback(a) ==
    LET d == Top(a).d
    IN  /\ In(a, "set", "begin")
        /\ box[d] = "live"
        /\ contexts < MaxContexts
        /\ contexts' = contexts + 1
        /\ owner' = [owner EXCEPT ![contexts'] = d]
        /\ \E s \in Slots :
              /\ installed' = [installed EXCEPT ![d][s] = contexts']
              /\ Goto(a, [Top(a) EXCEPT !.at = "installed", !.s = s, !.c = installed[d][s]])
        /\ UNCHANGED <<engine, boxes, join, task, releases>>

RemoveCallback(a) ==
    LET d == Top(a).d
    IN  /\ In(a, "set", "begin")
        /\ box[d] = "live"
        /\ \E s \in Slots :
              /\ installed' = [installed EXCEPT ![d][s] = 0]
              /\ Goto(a, [Top(a) EXCEPT !.at = "removed", !.s = s, !.c = installed[d][s]])
        /\ UNCHANGED <<engine, boxes, join, task, contexts, owner, releases>>

\* Mutant: the wrapper leaves a context it could not hand over.
SetRefusedLeaks(a) ==
    /\ In(a, "set", "begin")
    /\ box[Top(a).d] # "live"
    /\ contexts < MaxContexts
    /\ contexts' = contexts + 1
    /\ owner' = [owner EXCEPT ![contexts'] = Top(a).d]
    /\ Return(a)
    /\ UNCHANGED <<engine, boxes, join, task, installed, releases>>

\* The library refuses a null handle before it owns the context: the wrapper
\* frees it.
SetRefused(a) ==
    /\ In(a, "set", "begin")
    /\ box[Top(a).d] # "live"
    /\ contexts < MaxContexts
    /\ contexts' = contexts + 1
    /\ owner' = [owner EXCEPT ![contexts'] = Top(a).d]
    /\ releases' = [releases EXCEPT ![contexts'] = @ + 1]
    /\ Return(a)
    /\ UNCHANGED <<engine, boxes, join, task, installed>>

\* A lookup of the wrapper fails: no context is made.
ListenerUnresolved(a) ==
    /\ In(a, "set", "begin")
    /\ Return(a)
    /\ UNCHANGED <<engine, boxes, join, task, callbacks>>

\* The replaced callback is dropped, and a new one told the state.
DropPrevious(a) ==
    /\ In(a, "set", "installed") \/ In(a, "set", "removed")
    /\ Release(a, Top(a).c)
    /\ IF Top(a).at = "installed" THEN Notify(a, Top(a).s, Tail(stack[a])) ELSE Return(a)
    /\ UNCHANGED <<engine, boxes, join, task, installed, contexts, owner>>

\* emit_progress_callback, emit_speed_callback: the callback is cloned under its
\* mutex, and called with no mutex held.
CloneCallback(a) ==
    LET c == installed[Top(a).d][Top(a).s]
    IN  /\ In(a, "emit", "begin")
        /\ IF c = 0 THEN Return(a) ELSE Goto(a, [Top(a) EXCEPT !.at = "calling", !.c = c])
        /\ UNCHANGED <<engine, boxes, join, task, callbacks>>

\* The callback calls the library, on its own download, once at most.
NestedCall(a) ==
    /\ In(a, "emit", "calling")
    /\ Len(stack[a]) < MaxDepth
    /\ ~Calling(Top(a).d, {"release"})
    /\ \E op \in NestedCalls :
          stack' = [stack EXCEPT ![a] =
                        <<Call(op, Top(a).d), [Top(a) EXCEPT !.at = "called"]>> \o Tail(@)]
    /\ UNCHANGED <<engine, boxes, join, task, callbacks>>

CallbackReturns(a) ==
    /\ In(a, "emit", "calling") \/ In(a, "emit", "called")
    /\ Release(a, Top(a).c)
    /\ Return(a)
    /\ UNCHANGED <<engine, boxes, join, task, installed, contexts, owner>>

-----------------------------------------------------------------------------
(* Downloads                                                               *)

\* A function finds its handle null, or refuses: start while the task runs.
Refused(a) ==
    /\ \/ /\ \E op \in {"start", "pause", "cancel", "release"} : In(a, op, "begin")
          /\ box[Top(a).d] # "live"
       \/ /\ In(a, "start", "begin")
          /\ join[Top(a).d] = Nobody
          /\ task[Top(a).d] = "running"
    /\ Return(a)
    /\ UNCHANGED <<engine, boxes, join, task, callbacks>>

\* tknw_download_start: request_start notifies while the join mutex is held.
Start(a) ==
    /\ In(a, "start", "begin")
    /\ box[Top(a).d] = "live" /\ join[Top(a).d] = Nobody /\ task[Top(a).d] = "none"
    /\ join' = [join EXCEPT ![Top(a).d] = a]
    /\ Notify(a, "progress", <<[Top(a) EXCEPT !.at = "spawn"]>> \o Tail(stack[a]))
    /\ UNCHANGED <<engine, boxes, task, callbacks>>

Spawn(a) ==
    /\ In(a, "start", "spawn")
    /\ join' = [join EXCEPT ![Top(a).d] = Nobody]
    /\ task' = [task EXCEPT ![Top(a).d] = "running"]
    /\ Return(a)
    /\ UNCHANGED <<engine, boxes, callbacks>>

\* Mutant: a pause holds the join mutex, as a cancel does in the end.
RequestUnderJoin(a) ==
    /\ \/ In(a, "pause", "begin") /\ Notify(a, "progress", Tail(stack[a]))
       \/ /\ In(a, "cancel", "begin")
          /\ Notify(a, "progress", <<[Top(a) EXCEPT !.at = "join"]>> \o Tail(stack[a]))
    /\ box[Top(a).d] = "live" /\ join[Top(a).d] = Nobody
    /\ UNCHANGED <<engine, boxes, join, task, callbacks>>

\* tknw_download_pause; and tknw_download_cancel, which then looks at the task
\* under the join mutex and may notify again.
Request(a) ==
    /\ \/ In(a, "pause", "begin") /\ Notify(a, "progress", Tail(stack[a]))
       \/ /\ In(a, "cancel", "begin")
          /\ Notify(a, "progress", <<[Top(a) EXCEPT !.at = "join"]>> \o Tail(stack[a]))
    /\ box[Top(a).d] = "live"
    /\ UNCHANGED <<engine, boxes, join, task, callbacks>>

CancelJoin(a) ==
    /\ In(a, "cancel", "join")
    /\ join[Top(a).d] = Nobody
    /\ IF task[Top(a).d] = "none" THEN Notify(a, "progress", Tail(stack[a])) ELSE Return(a)
    /\ UNCHANGED <<engine, boxes, join, task, callbacks>>

\* tknw_download_release: the box's Arc of the runtime is dropped first, perhaps
\* the last; then the handle.
ReleaseHandle(a) ==
    LET d == Top(a).d
    IN  /\ In(a, "release", "begin")
        /\ box[d] = "live"
        /\ box' = [box EXCEPT ![d] = "freeing"]
        /\ IF Owners(host[d]) = {d} THEN Goto(a, [Top(a) EXCEPT !.at = "stopping", !.r = host[d]])
                                    ELSE Goto(a, [Top(a) EXCEPT !.at = "inner"])
        /\ UNCHANGED <<engine, host, born, join, task, callbacks>>

\* DownloadHandle::drop aborts the task, which keeps the shared state until it is
\* dropped itself.
DropHandle(a) ==
    LET d == Top(a).d
    IN  /\ In(a, "release", "inner")
        /\ join[d] = Nobody
        /\ \/ task[d] = "none" /\ DropStates({d}) /\ UNCHANGED task
           \/ task[d] = "running" /\ task' = [task EXCEPT ![d] = "aborted"] /\ UNCHANGED callbacks
        /\ box' = [box EXCEPT ![d] = "freed"]
        /\ Return(a)
        /\ UNCHANGED <<engine, host, born, join>>

\* The task of d notifies, between two awaits.
TaskNotifies(d) ==
    /\ task[d] = "running" /\ stack[d] = <<>>
    /\ ~Stopping(host[d])
    /\ \E s \in Slots : stack' = [stack EXCEPT ![d] = <<[Call("emit", d) EXCEPT !.s = s]>>]
    /\ UNCHANGED <<engine, boxes, join, task, callbacks>>

\* It ends, or its runtime drops it after an abort.
TaskEnds(d) ==
    /\ task[d] # "none" /\ stack[d] = <<>>
    /\ task' = [task EXCEPT ![d] = "none"]
    /\ DropStates(IF box[d] = "freed" THEN {d} ELSE {})
    /\ UNCHANGED <<engine, boxes, join, stack>>

-----------------------------------------------------------------------------

\* The functions on a download, and the callbacks they call.
DownloadCalls == {"set", "start", "pause", "cancel", "release"}
Busy(d) ==
    \/ Calling(d, DownloadCalls)
    \/ \E t \in Threads, call \in AllCalls : call \in Calls(t) /\ call.d = d

HostCall(t, op, d) ==
    /\ stack[t] = <<>>
    /\ stack' = [stack EXCEPT ![t] = <<Call(op, d)>>]
    /\ UNCHANGED <<engine, boxes, join, task, callbacks>>

GlobalCall(t) ==
    \/ runtimes < MaxRuntimes /\ HostCall(t, "init", Nobody)
    \/ shutdowns < MaxShutdowns /\ ~Calling(Nobody, {"shutdown"}) /\ HostCall(t, "shutdown", Nobody)
    \/ HostCall(t, "set_max_io", Nobody)

\* A download is created once, released once and by then in no other call.
DownloadCall(t, d) ==
    \/ box[d] = "none" /\ ~Calling(d, {"create"}) /\ HostCall(t, "create", d)
    \/ /\ box[d] # "none" /\ ~Calling(d, {"release"})
       /\ \E op \in DownloadCalls \ {"release"} : HostCall(t, op, d)
    \/ /\ box[d] # "none" /\ ~Busy(d) /\ HostCall(t, "release", d)

\* One step of the innermost call of a.
Step(a) ==
    \/ GlobalInit(a) \/ GlobalShutdown(a) \/ CurrentGlobal(a) \/ DropClone(a) \/ Create(a) \/ Stop(a)
    \/ SetCallback(a) \/ RemoveCallback(a) \/ SetRefused(a) \/ ListenerUnresolved(a)
    \/ DropPrevious(a) \/ CloneCallback(a) \/ CallbackReturns(a)
    \/ Refused(a) \/ Start(a) \/ Spawn(a) \/ Request(a) \/ CancelJoin(a)
    \/ ReleaseHandle(a) \/ DropHandle(a)

FfiNext ==
    \/ \E t \in Managers : GlobalCall(t)
    \/ \E t \in Users, d \in Downloads : DownloadCall(t, d)
    \/ \E a \in Actors : Step(a) \/ NestedCall(a)
    \/ \E d \in Downloads : TaskNotifies(d) \/ TaskEnds(d)

FfiSpec == FfiInit /\ [][FfiNext]_ffiVars

\* Calls and callbacks go on until they return, and an aborted task is dropped.
\* Nobody has to call.
FfiFairness ==
    /\ \A a \in Actors : WF_ffiVars(Step(a))
    /\ \A d \in Downloads : WF_ffiVars(task[d] = "aborted" /\ TaskEnds(d))

FfiFairSpec == FfiSpec /\ FfiFairness

-----------------------------------------------------------------------------
(* Properties                                                              *)

\* A context is released once at most, by the library or by the wrapper, and not
\* while a callback that owns it is installed or runs.
ContextsReleasedOnce ==
    \A c \in 1 .. contexts : releases[c] <= 1 /\ (InUse(c) => releases[c] = 0)

\* The contexts of a released download are released, wherever its callbacks run
\* when it is: the host gets its memory back.
ContextsReleased ==
    \A c \in 1 .. MaxContexts, d \in Downloads :
        (box[d] = "freed" /\ owner[c] = d) ~> releases[c] = 1

\* However often init is called, the downloads created between two shutdowns
\* share one engine, and with it one limit on I/O.
OneEngine ==
    \A d \in Downloads : box[d] = "live" /\ born[d] = shutdowns => host[d] = global

\* Shutdown leaves the downloads that there are alone: a task runs on a runtime
\* that has not been dropped.
RunsOnLiveRuntime ==
    \A d \in Downloads : box[d] = "live" => host[d] \notin stopped

\* What makes the first, OneEngine and RunsOnLiveRuntime inductive.  The types.
HostCalls == {"init", "shutdown", "set_max_io", "create", "release"}
CallSet ==
    [op : HostCalls \cup {"set", "start", "pause", "cancel", "emit"},
     at : {"begin", "cloned", "stopping", "inner", "installed", "removed", "calling", "called",
           "spawn", "join"},
     d : Downloads \cup {Nobody}, s : Slots, c : Nat, r : Nat]

FfiTypeOK ==
    /\ runtimes \in Nat /\ global \in 0 .. runtimes /\ stopped \subseteq 1 .. runtimes
    /\ shutdowns \in Nat
    /\ box \in [Downloads -> {"none", "live", "freeing", "freed"}]
    /\ host \in [Downloads -> 0 .. runtimes] /\ born \in [Downloads -> 0 .. shutdowns]
    /\ task \in [Downloads -> {"none", "running", "aborted"}]
    /\ contexts \in 0 .. MaxContexts
    /\ installed \in [Downloads -> [Slots -> 0 .. contexts]]
    /\ owner \in [1 .. MaxContexts -> Downloads \cup {Nobody}]
    /\ releases \in [1 .. MaxContexts -> Nat]
    /\ stack \in [Actors -> Seq(CallSet)]

\* The functions no callback calls are alone on their stack, and a task's callbacks are
\* about its own download.
StackInv ==
    \A a \in Actors : \A call \in Calls(a) :
        /\ call.op \in HostCalls => a \in Threads /\ Len(stack[a]) = 1
        /\ call.op \notin {"init", "shutdown", "set_max_io"} => call.d \in Downloads
        /\ a \in Downloads => call.d = a

\* A runtime that is being dropped has no other owner, and one that was dropped none.
RuntimeInv ==
    /\ global \notin stopped
    /\ \A d \in Downloads : box[d] = "live" => host[d] # 0 /\ host[d] \notin stopped
    /\ \A a \in Actors : \A call \in Calls(a) :
          /\ call.r # 0 <=> call.at \in {"cloned", "stopping"}
          /\ call.r # 0 => call.op \in HostCalls /\ call.r \in (1 .. runtimes) \ stopped
          /\ call.at = "stopping" =>
                /\ global # call.r
                /\ \A d \in Downloads : box[d] = "live" => host[d] # call.r
                /\ \A b \in Actors \ {a} : \A other \in Calls(b) : other.r # call.r

\* A download being created shares the engine of its time, and nobody else creates it.
BirthInv ==
    \A a \in Actors : \A call \in Calls(a) : call.op = "create" =>
        /\ box[call.d] = "none"
        /\ call.at = "cloned" /\ born[call.d] = shutdowns => call.r = global
        /\ \A b \in Actors \ {a} : \A other \in Calls(b) : other.op = "create" => other.d # call.d

\* A release has its download to itself but for callbacks of the task.
UseInv ==
    /\ \A d \in Downloads : stack[d] # <<>> => task[d] # "none"
    /\ \A a \in Actors : \A call \in Calls(a) :
          /\ call.op = "release" =>
                /\ box[call.d] # "none"
                /\ call.at # "begin" => box[call.d] = "freeing"
                /\ \A b \in Actors \ {a} : \A other \in Calls(b) :
                      other.d = call.d => b \in Downloads /\ other.op = "emit"
          /\ call.op \in {"set", "start", "pause", "cancel"} /\ call.at # "begin"
                => box[call.d] = "live"
          /\ call.op = "emit" /\ a \in Threads => box[call.d] = "live"

\* A context belongs to one download, and is installed in one slot of it at most.
ContextInv ==
    /\ \A a \in Actors : \A call \in Calls(a) : call.c # 0 =>
          /\ call.c \in 1 .. contexts /\ owner[call.c] = call.d
          /\ call.op \in {"set", "emit"} /\ call.at # "begin"
    /\ \A d \in Downloads, s \in Slots : installed[d][s] # 0 =>
          /\ owner[installed[d][s]] = d
          /\ \A other \in Slots : installed[d][other] = installed[d][s] => other = s
    /\ \A c \in 1 .. MaxContexts : c > contexts => releases[c] = 0

\* Every call returns: no mutex is held for good, by a shutdown or a release that
\* waits for the workers, or by a start that calls back.
CallsReturn == \A t \in Threads : stack[t] # <<>> ~> stack[t] = <<>>
=============================================================================
