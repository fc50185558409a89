------------------------------ MODULE IoLimiter ------------------------------
(***************************************************************************)
(* The limiter every request of an engine passes (takanawa-http            *)
(* limiter.rs): a count of slots behind a mutex, and a tokio Notify on     *)
(* which tasks wait for a slot.  The mutex is released before the Notify   *)
(* is used, by those who wait and by those who wake, so between the two    *)
(* anything may happen; those gaps are separate actions here.              *)
(*                                                                         *)
(* Notify is external and modelled by its documentation: notify_one wakes  *)
(* a registered waiter or else stores one token, never two; a Notified     *)
(* registers when it is first polled, and takes the token instead if there *)
(* is one; notify_waiters completes every Notified created before it; a    *)
(* Notified dropped after notify_one chose it passes the wake on.          *)
(***************************************************************************)
EXTENDS Naturals, FiniteSets

CONSTANTS
    Users,       \* tasks that acquire permits
    Limits,      \* the values set_max and new are called with
    MaxAcquires, \* bound on the calls of acquire
    MaxSets      \* bound on the calls of set_max

ASSUME UsersAssumption == IsFiniteSet(Users)
ASSUME LimitsAssumption == Limits # {} /\ Limits \subseteq Nat
ASSUME BoundsAssumption == MaxAcquires \in Nat /\ MaxSets \in Nat

VARIABLES
    max,       \* State.max
    inflight,  \* State.in_flight
    at,        \* per user, where it stands
    token,     \* the Notify stores a wake for the next Notified polled
    setting,   \* calls of set_max that changed max and have yet to notify_waiters
    acquires,  \* calls of acquire so far
    sets       \* calls of set_max so far

vars == <<max, inflight, at, token, setting, acquires, sets>>

\* "made": the Notified exists, unpolled.  "passed": unpolled, and already
\* completed by notify_waiters.  "chosen": woken by notify_one; "woken": by
\* notify_waiters.  "releasing": the permit is dropped, nobody notified yet.
Places == {"out", "trying", "made", "passed", "waiting", "chosen", "woken",
           "holding", "releasing"}

At(place) == {u \in Users : at[u] = place}

TypeOK ==
    /\ max \in Nat \ {0}
    /\ inflight \in Nat
    /\ at \in [Users -> Places]
    /\ token \in BOOLEAN
    /\ setting \in Nat
    /\ acquires \in 0 .. MaxAcquires
    /\ sets \in 0 .. MaxSets

AtLeastOne(n) == IF n = 0 THEN 1 ELSE n

Init ==
    /\ \E n \in Limits : max = AtLeastOne(n)
    /\ inflight = 0
    /\ at = [u \in Users |-> "out"]
    /\ token = FALSE
    /\ setting = 0
    /\ acquires = 0
    /\ sets = 0

Move(u, from, to) ==
    /\ at[u] = from
    /\ at' = [at EXCEPT ![u] = to]

-----------------------------------------------------------------------------

Acquire(u) ==
    /\ Move(u, "out", "trying")
    /\ acquires < MaxAcquires
    /\ acquires' = acquires + 1
    /\ UNCHANGED <<max, inflight, token, setting, sets>>

\* One turn of the loop in acquire, under the mutex: a slot is taken, or a
\* Notified is created.
Take(u) ==
    /\ Move(u, "trying", "holding")
    /\ inflight < max
    /\ inflight' = inflight + 1
    /\ UNCHANGED <<max, token, setting, acquires, sets>>

MakeNotified(u) ==
    /\ Move(u, "trying", "made")
    /\ inflight >= max
    /\ UNCHANGED <<max, inflight, token, setting, acquires, sets>>

\* The first poll of the Notified, after the mutex is released.
PollTakesToken(u) ==
    /\ Move(u, "made", "trying")
    /\ token
    /\ token' = FALSE
    /\ UNCHANGED <<max, inflight, setting, acquires, sets>>

PollRegisters(u) ==
    /\ Move(u, "made", "waiting")
    /\ ~token
    /\ UNCHANGED <<max, inflight, token, setting, acquires, sets>>

\* A Notified that has completed is polled, and the loop turns again.  A first
\* poll may find both the completion and the token, and use the token up.
Resume(u) ==
    /\ \/ Move(u, "passed", "trying") /\ token' \in {token, FALSE}
       \/ Move(u, "chosen", "trying") /\ UNCHANGED token
       \/ Move(u, "woken", "trying") /\ UNCHANGED token
    /\ UNCHANGED <<max, inflight, setting, acquires, sets>>

\* Drop of an IoPermit, under the mutex.
DropPermit(u) ==
    /\ Move(u, "holding", "releasing")
    /\ inflight' = IF inflight = 0 THEN 0 ELSE inflight - 1
    /\ UNCHANGED <<max, token, setting, acquires, sets>>

\* notify_one, called by a user that is done with the limiter for now.
NotifiesOne(u) ==
    \/ /\ At("waiting") = {}
       /\ token' = TRUE
       /\ at' = [at EXCEPT ![u] = "out"]
    \/ \E w \in At("waiting") :
           /\ at' = [at EXCEPT ![u] = "out", ![w] = "chosen"]
           /\ UNCHANGED token

\* Mutant: nobody is notified when nobody is seen waiting.
NotifyOneIfWaiting(u) ==
    /\ at[u] = "releasing"
    /\ \/ At("waiting") = {} /\ Move(u, "releasing", "out") /\ UNCHANGED token
       \/ At("waiting") # {} /\ NotifiesOne(u)
    /\ UNCHANGED <<max, inflight, setting, acquires, sets>>

\* ... and then, the mutex released, its notify_one.
NotifyOne(u) ==
    /\ at[u] = "releasing"
    /\ NotifiesOne(u)
    /\ UNCHANGED <<max, inflight, setting, acquires, sets>>

\* A task is aborted, or its timeout expires, while it awaits a slot.
Abandon(u) ==
    /\ \/ \E place \in {"waiting", "woken"} : Move(u, place, "out") /\ UNCHANGED token
       \/ at[u] = "chosen" /\ NotifiesOne(u)
    /\ UNCHANGED <<max, inflight, setting, acquires, sets>>

SetMax ==
    /\ sets < MaxSets
    /\ sets' = sets + 1
    /\ \E n \in Limits : max' = AtLeastOne(n)
    /\ setting' = setting + 1
    /\ UNCHANGED <<inflight, at, token, acquires>>

NotifyWaiters ==
    /\ setting > 0
    /\ setting' = setting - 1
    /\ at' = [u \in Users |-> IF at[u] = "made" THEN "passed"
                              ELSE IF at[u] = "waiting" THEN "woken"
                              ELSE at[u]]
    /\ UNCHANGED <<max, inflight, token, acquires, sets>>

-----------------------------------------------------------------------------

\* The steps of a user that is inside acquire or holds a permit.
Advance(u) ==
    \/ Take(u) \/ MakeNotified(u)
    \/ PollTakesToken(u) \/ PollRegisters(u) \/ Resume(u)
    \/ DropPermit(u) \/ NotifyOne(u)

Next ==
    \/ \E u \in Users : Acquire(u) \/ Advance(u) \/ Abandon(u)
    \/ SetMax
    \/ NotifyWaiters

Spec == Init /\ [][Next]_vars

-----------------------------------------------------------------------------
(* Properties                                                              *)

\* in_flight counts the permits that are out, whatever is aborted in between.
CountsHolders == inflight = Cardinality(At("holding"))

\* A permit is granted only while fewer than max permits are out.
GrantedWithinLimit ==
    [][\A u \in Users : (at[u] # "holding" /\ at'[u] = "holding")
                           => (Cardinality(At("holding")) < max)]_vars

\* What will notify, or look for a slot again, without waiting itself.
OnTheWay == At("trying") \cup At("passed") \cup At("chosen") \cup At("releasing") # {}

\* Nobody waits for a wake that will not come: while a task waits, or is about
\* to, a permit is out whose drop will notify, or a wake is on its way.
NoLostWakeup ==
    /\ At("waiting") # {} => inflight > 0 \/ OnTheWay
    /\ At("made") # {} => inflight > 0 \/ OnTheWay \/ token

\* A wake is stored only for want of a waiter: it never lies beside a sleeping
\* task.  What NoLostWakeup rests on.
TokenMeansNobodyWaits == token => At("waiting") = {}

\* limiter.rs:50: acquire "waits until an I/O slot is available".  (Violated: it
\* may wait on beside a free slot, until another permit is dropped.)
AvailableSlotIsOffered ==
    At("waiting") # {} /\ inflight < max => OnTheWay \/ At("woken") # {} \/ token \/ setting > 0
=============================================================================
