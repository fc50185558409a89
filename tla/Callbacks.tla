----------------------------- MODULE Callbacks -----------------------------
(***************************************************************************)
(* How a change of a download's state reaches the callback that observes   *)
(* it (takanawa-http state.rs): the changing thread notifies, a throttle   *)
(* lets one call through per interval and has one timer report what came   *)
(* in between.  Callback, throttle and progress each have a mutex of their *)
(* own, held for one step at a time; between the steps other threads run.  *)
(*                                                                         *)
(* The state is a version number: what is told apart is only how old a     *)
(* snapshot is.  Progress and speed callbacks have the same code; this is  *)
(* one of the two.  Time is abstract: the interval since the last emission *)
(* passes at some moment, and no timer fires before it has.                *)
(***************************************************************************)
EXTENDS Naturals, FiniteSets

CONSTANTS
    Threads,    \* threads that change the download's state
    Setters,    \* those of them that install and remove callbacks
    Timers,     \* bound on the scheduled callbacks there are at one time
    MaxChanges, \* bound on the changes of the state
    MaxInstalls \* bound on the calls of set_progress_callback

ASSUME ThreadsAssumption == Setters \subseteq Threads /\ Threads \cap Timers = {}
ASSUME ReportBoundsAssumption == MaxChanges \in Nat /\ MaxInstalls \in Nat

VARIABLES
    version,    \* the state, by its number: it begins with 1
    installed,  \* progress_callback: the number of the set that installed it, 0 for none
    last,       \* CallbackThrottle.last_emit_at: "never", or "recent" within the interval, or "old"
    trailing,   \* CallbackThrottle.trailing_scheduled
    generation, \* CallbackThrottle.generation
    place,      \* per thread and timer, where it stands
    gen,        \* per timer, the generation it was scheduled in; 0 when it does not sleep
    holds,      \* per thread and timer, the callback it is about to call, or 0
    snap,       \* per thread and timer, the version it is about to report, or 0
    told,       \* history: per callback, the newest version it was called with
    installs    \* calls of set_progress_callback so far

throttle == <<last, trailing, generation>>
reportVars == <<version, installed, throttle, place, gen, holds, snap, told, installs>>

Actors == Threads \cup Timers
Callables == 1 .. MaxInstalls
Versions == 1 .. MaxChanges + 1

\* "reset" and "resetquiet": set_progress_callback has installed a callback, or
\* removed it, and has yet to reset the throttle.
ReportPlaces == {"idle", "notify", "throttle", "reset", "resetquiet", "sleeping",
                 "emit", "snapshot", "call"}

\* Besides the types: a timer is scheduled only behind an emission.
ReportTypeOK ==
    /\ version \in Versions
    /\ installed \in 0 .. MaxInstalls
    /\ last \in {"never", "recent", "old"}
    /\ trailing \in BOOLEAN
    /\ generation \in Nat
    /\ place \in [Actors -> ReportPlaces]
    /\ gen \in [Timers -> Nat]
    /\ holds \in [Actors -> 0 .. MaxInstalls]
    /\ snap \in [Actors -> Versions \cup {0}]
    /\ told \in [Callables -> Versions \cup {0}]
    /\ installs \in 0 .. MaxInstalls
    /\ trailing => last # "never"

ReportInit ==
    /\ version = 1
    /\ installed = 0
    /\ last = "never" /\ trailing = FALSE /\ generation = 0
    /\ place = [x \in Actors |-> "idle"]
    /\ gen = [x \in Timers |-> 0]
    /\ holds = [x \in Actors |-> 0]
    /\ snap = [x \in Actors |-> 0]
    /\ told = [c \in Callables |-> 0]
    /\ installs = 0

GoTo(x, from, to) ==
    /\ place[x] = from
    /\ place' = [place EXCEPT ![x] = to]

-----------------------------------------------------------------------------
(* A change and its notification                                           *)

\* transition, update_from_metadata and the like: under the progress mutex.
Change(t) ==
    /\ version <= MaxChanges
    /\ GoTo(t, "idle", "notify")
    /\ version' = version + 1
    /\ UNCHANGED <<installed, throttle, gen, holds, snap, told, installs>>

\* notify_progress returns at once while no callback is installed.
Notify(t) ==
    /\ GoTo(t, "notify", IF installed = 0 THEN "idle" ELSE "throttle")
    /\ UNCHANGED <<version, installed, throttle, gen, holds, snap, told, installs>>

\* throttle_action: a scheduled timer will report this change too.
Skip(t) ==
    /\ trailing
    /\ GoTo(t, "throttle", "idle")
    /\ UNCHANGED <<version, installed, throttle, gen, holds, snap, told, installs>>

Emit(t) ==
    /\ ~trailing
    /\ last \in {"never", "old"}
    /\ GoTo(t, "throttle", "emit")
    /\ last' = "recent"
    /\ UNCHANGED <<version, installed, trailing, generation, gen, holds, snap, told, installs>>

\* Mutant: what comes within the interval is left out.
ScheduleNothing(t) ==
    /\ ~trailing
    /\ last = "recent"
    /\ GoTo(t, "throttle", "idle")
    /\ UNCHANGED <<version, installed, throttle, gen, holds, snap, told, installs>>

Schedule(t) ==
    /\ ~trailing
    /\ last = "recent"
    /\ place[t] = "throttle"
    /\ trailing' = TRUE
    /\ \E x \in Timers :
          /\ place[x] = "idle"
          /\ place' = [place EXCEPT ![t] = "idle", ![x] = "sleeping"]
          /\ gen' = [gen EXCEPT ![x] = generation]
    /\ UNCHANGED <<version, installed, last, generation, holds, snap, told, installs>>

IntervalPasses ==
    /\ last = "recent"
    /\ last' = "old"
    /\ UNCHANGED <<version, installed, trailing, generation, place, gen, holds, snap, told, installs>>

-----------------------------------------------------------------------------
(* The timer, and the call itself                                          *)

\* Mutant: trailing_scheduled is not taken back.
FireKeepsTrailing(x) ==
    /\ gen[x] = generation
    /\ last = "old"
    /\ GoTo(x, "sleeping", "emit")
    /\ last' = "recent"
    /\ gen' = [gen EXCEPT ![x] = 0]
    /\ UNCHANGED <<version, installed, trailing, generation, holds, snap, told, installs>>

\* emit_scheduled_progress_callback
Fire(x) ==
    /\ gen[x] = generation
    /\ last = "old"
    /\ GoTo(x, "sleeping", "emit")
    /\ last' = "recent"
    /\ trailing' = FALSE
    /\ gen' = [gen EXCEPT ![x] = 0]
    /\ UNCHANGED <<version, installed, generation, holds, snap, told, installs>>

\* ... of a generation that was reset.
Expire(x) ==
    /\ gen[x] # generation
    /\ GoTo(x, "sleeping", "idle")
    /\ gen' = [gen EXCEPT ![x] = 0]
    /\ UNCHANGED <<version, installed, throttle, holds, snap, told, installs>>

\* emit_progress_callback clones the callback, if there still is one,
CloneCallback(x) ==
    /\ GoTo(x, "emit", IF installed = 0 THEN "idle" ELSE "snapshot")
    /\ holds' = [holds EXCEPT ![x] = installed]
    /\ UNCHANGED <<version, installed, throttle, gen, snap, told, installs>>

\* takes a snapshot,
TakeSnapshot(x) ==
    /\ GoTo(x, "snapshot", "call")
    /\ snap' = [snap EXCEPT ![x] = version]
    /\ UNCHANGED <<version, installed, throttle, gen, holds, told, installs>>

\* and calls the one with the other, no mutex held.
Call(x) ==
    /\ GoTo(x, "call", "idle")
    /\ told' = [told EXCEPT ![holds[x]] = IF snap[x] > @ THEN snap[x] ELSE @]
    /\ holds' = [holds EXCEPT ![x] = 0]
    /\ snap' = [snap EXCEPT ![x] = 0]
    /\ UNCHANGED <<version, installed, throttle, gen, installs>>

-----------------------------------------------------------------------------
(* set_progress_callback                                                   *)

Install(t) ==
    /\ installs < MaxInstalls
    /\ installs' = installs + 1
    /\ GoTo(t, "idle", "reset")
    /\ installed' = installs'
    /\ UNCHANGED <<version, throttle, gen, holds, snap, told>>

RemoveCallback(t) ==
    /\ installs < MaxInstalls
    /\ installs' = installs + 1
    /\ GoTo(t, "idle", "resetquiet")
    /\ installed' = 0
    /\ UNCHANGED <<version, throttle, gen, holds, snap, told>>

\* The throttle is reset under its own mutex; a new callback is then told the
\* current state.
ResetThrottle(t) ==
    /\ GoTo(t, "reset", "notify") \/ GoTo(t, "resetquiet", "idle")
    /\ last' = "never"
    /\ trailing' = FALSE
    /\ generation' = generation + 1
    /\ UNCHANGED <<version, installed, gen, holds, snap, told, installs>>

-----------------------------------------------------------------------------
Deliver(x) == CloneCallback(x) \/ TakeSnapshot(x) \/ Call(x)
Report(t) == Notify(t) \/ Skip(t) \/ Emit(t) \/ Schedule(t) \/ ResetThrottle(t)

ReportNext ==
    \/ \E t \in Threads : Change(t) \/ Report(t)
    \/ \E t \in Setters : Install(t) \/ RemoveCallback(t)
    \/ \E x \in Timers : Fire(x) \/ Expire(x)
    \/ \E x \in Actors : Deliver(x)
    \/ IntervalPasses

ReportSpec == ReportInit /\ [][ReportNext]_reportVars

\* Running threads run on, the clock does, and the runtime that holds a timer
\* outlives it.  Nobody has to change anything.
ReportFairness ==
    /\ \A t \in Threads : WF_reportVars(Report(t) \/ Deliver(t))
    /\ \A x \in Timers : WF_reportVars(Fire(x) \/ Expire(x) \/ Deliver(x))
    /\ WF_reportVars(IntervalPasses)

-----------------------------------------------------------------------------
(* Properties                                                              *)

\* The timers of the current generation.
Asleep == {x \in Timers : place[x] = "sleeping" /\ gen[x] = generation}

\* Who will yet call the installed callback with the current state.
Informs(x) ==
    \/ place[x] \in {"reset", "notify", "throttle", "emit"}
    \/ place[x] = "snapshot" /\ holds[x] = installed
    \/ place[x] = "call" /\ holds[x] = installed /\ snap[x] = version

\* state.rs:62, "invoked when download progress changes": the installed
\* callback knows the newest state, or somebody is on the way to tell it.  (Holds
\* while one thread at a time sets callbacks.  With two, the reset of a removal
\* can cancel the timer of the callback that the other has installed meanwhile.)
NoLostReport ==
    installed # 0 =>
        \/ told[installed] = version
        \/ Asleep # {}
        \/ \E x \in Actors : Informs(x)

\* What makes it inductive: what stands in each place, no callback or snapshot
\* from the future, no timer either, and one asleep whenever trailing says so.
ReportInv ==
    /\ \A t \in Threads : /\ place[t] # "sleeping"
                          /\ place[t] \in {"reset", "resetquiet"} => t \in Setters
                          /\ place[t] = "resetquiet" => installed = 0
    /\ \A x \in Timers : /\ place[x] \in {"idle", "sleeping", "emit", "snapshot", "call"}
                         /\ gen[x] <= generation
    /\ \A x \in Actors : /\ place[x] \in {"snapshot", "call"} => holds[x] \in Callables
                         /\ snap[x] <= version
    /\ \A c \in Callables : told[c] <= version
    /\ trailing => Asleep # {}
    /\ NoLostReport

\* The last change is reported, however threads, timers and sets interleave: once
\* changes stop, the callback learns of the state, unless it is replaced.
Reported ==
    \A c \in Callables : installed = c ~> installed # c \/ told[c] = version
=============================================================================
