--------------------------- MODULE BandwidthLimiter ---------------------------
(***************************************************************************)
(* The limit on the bytes per second of one run of a download              *)
(* (takanawa-http downloader.rs, struct BandwidthLimiter).  Every chunk    *)
(* task calls throttle before it hands a fragment of a body to the writer. *)
(* A call reads the clock, then reserves a stretch of time behind the      *)
(* stretches reserved before it, under a mutex, and sleeps until its own   *)
(* begins.  Other tasks run, and time passes, between the three.           *)
(***************************************************************************)
EXTENDS Integers

CONSTANTS
    Tasks,     \* the chunk tasks of a run
    Rates,     \* the values of bytes_per_second_limit; 0 is no limit
    Fragments, \* the lengths of the fragments that throttle is called with
    Second,    \* ticks of the clock per second (the code counts nanoseconds)
    MaxCalls,  \* bound on the calls that reserve
    MaxTime    \* bound on the clock, past which only sleeps are slept out

ASSUME RatesAssumption == Rates \subseteq Nat
ASSUME FragmentsAssumption == Fragments \subseteq Nat
ASSUME SecondAssumption == Second \in Nat \ {0}
ASSUME TimeAssumption == MaxCalls \in Nat /\ MaxTime \in Nat

VARIABLES
    clock,    \* ticks since the limiter was made
    rate,     \* BandwidthLimiter.bytes_per_second
    next,     \* next_available
    pace,     \* per task: "out", "asked" (it has read the clock) or "sleeping"
    now,      \* per task that has asked, the clock as it read it; else 0
    wake,     \* per task that sleeps, wait_until; else 0
    bytesOf,  \* per task inside throttle, the length of its fragment; else 0
    reserved, \* history: bytes reserved so far
    before,   \* history: per task that sleeps, the bytes reserved before its fragment
    through,  \* history: bytes reserved up to the last fragment let through; so
              \* many bytes, at most, have been let through
    calls     \* calls of throttle so far

history == <<reserved, before, through>>
paceVars == <<clock, rate, next, pace, now, wake, bytesOf, history, calls>>

Later(a, b) == IF a >= b THEN a ELSE b

\* Mutant: the stretch is rounded down.
StretchRoundedDown(bytes) == (bytes * Second) \div rate

\* div_ceil: the time that the fragment takes at the configured rate.
Stretch(bytes) == (bytes * Second + rate - 1) \div rate

PaceTypeOK ==
    /\ clock \in Nat
    /\ rate \in Rates
    /\ next \in Nat
    /\ pace \in [Tasks -> {"out", "asked", "sleeping"}]
    /\ now \in [Tasks -> Nat]
    /\ wake \in [Tasks -> Nat]
    /\ bytesOf \in [Tasks -> Fragments \cup {0}]
    /\ reserved \in Nat
    /\ before \in [Tasks -> Nat]
    /\ through \in Nat
    /\ calls \in Nat

PaceInit ==
    /\ clock = 0
    /\ rate \in Rates
    /\ next = 0
    /\ pace = [t \in Tasks |-> "out"]
    /\ now = [t \in Tasks |-> 0]
    /\ wake = [t \in Tasks |-> 0]
    /\ bytesOf = [t \in Tasks |-> 0]
    /\ reserved = 0
    /\ before = [t \in Tasks |-> 0]
    /\ through = 0
    /\ calls = 0

\* The clock is read, before the mutex is taken.  Without a limit, and for an
\* empty fragment, throttle returns and there is no step.
Ask(t) ==
    /\ pace[t] = "out"
    /\ rate # 0
    /\ calls < MaxCalls
    /\ calls' = calls + 1
    /\ \E bytes \in Fragments \ {0} : bytesOf' = [bytesOf EXCEPT ![t] = bytes]
    /\ pace' = [pace EXCEPT ![t] = "asked"]
    /\ now' = [now EXCEPT ![t] = clock]
    /\ UNCHANGED <<clock, rate, next, wake, history>>

\* The start of the stretch that t reserves: behind the others, and not before
\* the moment it has read.
StartOfStretch(t) == Later(next, now[t])

\* Under the mutex.  A stretch that begins in the past, or now, needs no sleep.
Reserve(t) ==
    /\ pace[t] = "asked"
    /\ next' = StartOfStretch(t) + Stretch(bytesOf[t])
    /\ reserved' = reserved + bytesOf[t]
    /\ now' = [now EXCEPT ![t] = 0]
    /\ \/ /\ StartOfStretch(t) > now[t]
          /\ pace' = [pace EXCEPT ![t] = "sleeping"]
          /\ wake' = [wake EXCEPT ![t] = StartOfStretch(t)]
          /\ before' = [before EXCEPT ![t] = reserved]
          /\ UNCHANGED <<bytesOf, through>>
       \/ /\ StartOfStretch(t) <= now[t]
          /\ pace' = [pace EXCEPT ![t] = "out"]
          /\ bytesOf' = [bytesOf EXCEPT ![t] = 0]
          /\ through' = reserved'
          /\ UNCHANGED <<wake, before>>
    /\ UNCHANGED <<clock, rate, calls>>

EndSleep(t) ==
    /\ pace[t] = "sleeping"
    /\ pace' = [pace EXCEPT ![t] = "out"]
    /\ wake' = [wake EXCEPT ![t] = 0]
    /\ bytesOf' = [bytesOf EXCEPT ![t] = 0]
    /\ before' = [before EXCEPT ![t] = 0]
    /\ UNCHANGED <<clock, rate, next, now, reserved, calls>>

\* sleep_until returns.
Wake(t) ==
    /\ clock >= wake[t]
    /\ EndSleep(t)
    /\ through' = Later(through, before[t] + bytesOf[t])

\* A task is aborted, or its attempt times out, in its sleep: the stretch it
\* reserved stays reserved.
GiveUp(t) == EndSleep(t) /\ UNCHANGED through

Tick ==
    /\ clock < MaxTime \/ \E t \in Tasks : clock < wake[t]
    /\ clock' = clock + 1
    /\ UNCHANGED <<rate, next, pace, now, wake, bytesOf, history, calls>>

PaceNext ==
    \/ \E t \in Tasks : Ask(t) \/ Reserve(t) \/ Wake(t) \/ GiveUp(t)
    \/ Tick

PaceSpec == PaceInit /\ [][PaceNext]_paceVars

-----------------------------------------------------------------------------
(* Properties                                                              *)

\* However many tasks throttle, and however stale the clocks they read: from
\* the start of the run to any moment, the bytes let through exceed what the
\* rate allows by one fragment at most.
WithinRate ==
    rate # 0 => \E bytes \in Fragments \cup {0} :
                    through * Second <= rate * clock + bytes * Second

\* What makes it so: the bytes reserved fit before the next free moment, the bytes
\* before a sleeper's fit before its wake, and nobody has read a time to come.
PaceInv ==
    /\ \A t \in Tasks : pace[t] # "out" => rate # 0 /\ bytesOf[t] \in Fragments
    /\ \A t \in Tasks : pace[t] = "asked" => now[t] <= clock
    /\ \A t \in Tasks : pace[t] = "sleeping" => before[t] * Second <= rate * wake[t]
    /\ rate # 0 => reserved * Second <= rate * next
    /\ WithinRate
=============================================================================
