----------------------------- MODULE SpeedWindow -----------------------------
(***************************************************************************)
(* The speed of a download (takanawa-http state.rs): the body bytes that   *)
(* arrived in the last second, kept as a queue of samples.                 *)
(*                                                                         *)
(* A chunk task reads the clock and records what it received under the     *)
(* mutex afterwards; whoever reports reads the clock and then drops the    *)
(* samples too old for it.  Stamps are therefore applied out of order, as  *)
(* far apart as a thread is held up between its two steps.  request_start  *)
(* forgets the samples, while no task of the download is left.             *)
(***************************************************************************)
EXTENDS Integers, Sequences, FiniteSetsExt

CONSTANTS
    Fetchers,    \* chunk tasks
    Reporters,   \* threads that take speed snapshots
    Window,      \* the smoothing window, 1 s in the code
    Delay,       \* bound on how long a thread is held up
    BodyLengths, \* lengths of body fragments, not 0
    MaxMoment,   \* bound on the clock
    MaxReceived  \* bound on the bytes received

ASSUME SpeedAssumption ==
    /\ Fetchers \cap Reporters = {}
    /\ {Window, Delay, MaxMoment, MaxReceived} \subseteq Nat
    /\ BodyLengths \subseteq Nat \ {0}

None == -1

VARIABLES
    moment,
    stamp,    \* per thread, the time it has read, or None
    samples,  \* the queue: [at, bytes], oldest first
    started,  \* started_at, or None
    interval, \* interval_bytes as of the last refresh
    elapsed,  \* elapsed_millis as of the last refresh
    received, \* received_bytes
    arrivals, \* history: every sample recorded since the last reset
    used,     \* history: the stamp of the last refresh
    newest    \* history: the latest stamp used since the last reset

speed == <<samples, started, interval, elapsed, received>>
seen == <<arrivals, used, newest>>
speedVars == <<moment, stamp, speed, seen>>

SpeedThreads == Fetchers \cup Reporters

SpeedInit ==
    /\ moment = 0
    /\ stamp = [t \in SpeedThreads |-> None]
    /\ samples = <<>> /\ started = None
    /\ interval = 0 /\ elapsed = 0 /\ received = 0
    /\ arrivals = <<>> /\ used = 0 /\ newest = 0

Bytes(queue, indexes) == MapThenSumSet(LAMBDA i : queue[i].bytes, indexes)
BytesOf(queue) == Bytes(queue, DOMAIN queue)

-----------------------------------------------------------------------------

\* Mutant: a sample as old as the window is dropped.
RetainedShort(queue, now) ==
    LET young == {i \in DOMAIN queue : queue[i].at > now - Window}
    IN  IF young = {} THEN <<>> ELSE SubSeq(queue, Min(young), Len(queue))

\* Samples are popped from the front until one is young enough.
Retained(queue, now) ==
    LET young == {i \in DOMAIN queue : queue[i].at >= now - Window}
    IN  IF young = {} THEN <<>> ELSE SubSeq(queue, Min(young), Len(queue))

\* refresh_window, of the queue there is then.
Refresh(queue, since, now) ==
    LET from == IF since = None THEN now - Window ELSE Max({since, now - Window})
    IN  /\ samples' = Retained(queue, now)
        /\ started' = since
        /\ interval' = BytesOf(samples')
        /\ elapsed' = Max({0, now - from})
        /\ used' = now
        /\ newest' = Max({newest, now})

\* Instant::now(), before the mutex is taken.
ReadClock(t) ==
    /\ stamp[t] = None
    /\ t \in Fetchers => received < MaxReceived
    /\ stamp' = [stamp EXCEPT ![t] = moment]
    /\ UNCHANGED <<moment, speed, seen>>

\* record_body_bytes.
Record(t) ==
    /\ stamp[t] # None
    /\ \E bytes \in BodyLengths :
          LET sample == [at |-> stamp[t], bytes |-> bytes]
          IN  /\ received' = received + bytes
              /\ arrivals' = Append(arrivals, sample)
              /\ Refresh(Append(samples, sample), IF started = None THEN stamp[t] ELSE started, stamp[t])
    /\ stamp' = [stamp EXCEPT ![t] = None]
    /\ UNCHANGED moment

\* speed_snapshot.
Snapshot(t) ==
    /\ stamp[t] # None
    /\ Refresh(samples, started, stamp[t])
    /\ stamp' = [stamp EXCEPT ![t] = None]
    /\ UNCHANGED <<moment, received, arrivals>>

\* reset_window, from request_start.
ResetWindow ==
    /\ \A t \in Fetchers : stamp[t] = None
    /\ samples' = <<>> /\ started' = moment
    /\ interval' = 0 /\ elapsed' = 0
    /\ arrivals' = <<>> /\ used' = moment /\ newest' = moment
    /\ UNCHANGED <<moment, stamp, received>>

Passes ==
    /\ moment < MaxMoment
    /\ \A t \in SpeedThreads : stamp[t] # None => moment < stamp[t] + Delay
    /\ moment' = moment + 1
    /\ UNCHANGED <<stamp, speed, seen>>

SpeedNext ==
    \/ \E t \in SpeedThreads : ReadClock(t)
    \/ \E t \in Fetchers : Record(t)
    \/ \E t \in Reporters : Snapshot(t)
    \/ ResetWindow \/ Passes

SpeedSpec == SpeedInit /\ [][SpeedNext]_speedVars

-----------------------------------------------------------------------------
(* Properties                                                              *)

Since(time) == {i \in DOMAIN arrivals : arrivals[i].at >= time}

\* However the threads apply their stamps, the interval reported counts every byte
\* of this run that is within the window of the latest stamp used, and none that is
\* older than the window by more than threads are held up; and it is never said to
\* be of a longer time than the window.
SpeedIsOfWindow ==
    /\ interval >= Bytes(arrivals, Since(newest - Window))
    /\ interval <= Bytes(arrivals, Since(used - Window - Delay))
    /\ elapsed <= Window

\* What makes it inductive: the queue is the end of what has arrived, what was popped is
\* older than the window, and a sample recorded later was stamped earlier by no more than
\* threads are held up.
Sample == [at : Nat, bytes : Nat]
Popped == Len(arrivals) - Len(samples)

SpeedInv ==
    /\ moment \in Nat /\ used \in Nat /\ newest \in 0 .. moment
    /\ stamp \in [SpeedThreads -> Nat \cup {None}]
    /\ \A t \in SpeedThreads : stamp[t] # None => moment \in stamp[t] .. stamp[t] + Delay
    /\ started \in Nat \cup {None}
    /\ samples \in Seq(Sample) /\ arrivals \in Seq(Sample)
    /\ Len(samples) <= Len(arrivals)
    /\ \A i \in DOMAIN samples : samples[i] = arrivals[Popped + i]
    /\ \A i \in 1 .. Popped : arrivals[i].at < newest - Window
    /\ \A i \in DOMAIN arrivals : arrivals[i].at <= moment
    /\ \A i, j \in DOMAIN arrivals : i < j => arrivals[i].at <= arrivals[j].at + Delay
    /\ SpeedIsOfWindow
=============================================================================
