-------------------------- MODULE RequestLimitsProofs --------------------------
(***************************************************************************)
(* The bandwidth limiter keeps the rate for every rate, set of tasks and   *)
(* length of fragments.  A stretch is at least as long as its bytes take,  *)
(* and a sleeper wakes no earlier than the bytes reserved before it allow; *)
(* the rest is that products of natural numbers grow with their factors.   *)
(*                                                                         *)
(* The I/O limiter loses no wake: a token that is stored never lies beside *)
(* a task asleep, and who went to sleep did so at a limit that is not 0;   *)
(* in_flight counts the permits out.                                       *)
(*                                                                         *)
(* A step of a request is a step or a stutter of each of its two limiters, *)
(* so what each promises alone holds for both together.                    *)
(***************************************************************************)
EXTENDS RequestLimits, FiniteSetTheorems, TLAPS

\* set_max and new turn a limit into at least one slot.
LEMMA AtLeastOneType == \A n \in Nat : AtLeastOne(n) \in Nat \ {0}
BY DEF AtLeastOne

\* What one call of notify_one, by a user that does not wait, does to the
\* places: that user is out, and a waiting one may be chosen, whom the token
\* stands in for when there is none.
LEMMA NotifiesOnePlaces ==
    ASSUME TypeOK, NEW u \in Users, at[u] # "waiting", NotifiesOne(u)
    PROVE  /\ at' \in [Users -> Places]
           /\ token' \in BOOLEAN
           /\ at'[u] = "out"
           /\ \A v \in Users : (v # u /\ at'[v] # at[v])
                                => (at[v] = "waiting" /\ at'[v] = "chosen")
           /\ \/ At("waiting") = {} /\ token'
              \/ token' = token /\ \E w \in Users : at[w] = "waiting" /\ at'[w] = "chosen"
<1>1. CASE At("waiting") = {} /\ token' = TRUE /\ at' = [at EXCEPT ![u] = "out"]
  BY <1>1 DEF TypeOK, Places
<1>2. CASE \E w \in At("waiting") :
              /\ at' = [at EXCEPT ![u] = "out", ![w] = "chosen"]
              /\ UNCHANGED token
  <2> PICK w \in At("waiting") :
          at' = [at EXCEPT ![u] = "out", ![w] = "chosen"] /\ UNCHANGED token
    BY <1>2
  <2>1. w \in Users /\ at[w] = "waiting" /\ w # u
    BY DEF At
  <2> QED
    BY <2>1 DEF TypeOK, Places
<1> QED
  BY <1>1, <1>2 DEF NotifiesOne

\* The variables have the types the code gives them.
THEOREM TypeCorrect == Spec => []TypeOK
<1>1. Init => TypeOK
  <2> SUFFICES ASSUME Init PROVE TypeOK
    OBVIOUS
  <2>1. max \in Nat \ {0}
    BY LimitsAssumption, AtLeastOneType DEF Init
  <2>2. at \in [Users -> Places] /\ token \in BOOLEAN
    BY DEF Init, Places
  <2>3. inflight \in Nat /\ setting \in Nat
    BY DEF Init
  <2>4. acquires \in 0 .. MaxAcquires /\ sets \in 0 .. MaxSets
    BY BoundsAssumption DEF Init
  <2> QED
    BY <2>1, <2>2, <2>3, <2>4 DEF TypeOK
<1>2. TypeOK /\ [Next]_vars => TypeOK'
  <2> SUFFICES ASSUME TypeOK, [Next]_vars
               PROVE  TypeOK'
    OBVIOUS
  <2>1. ASSUME NEW u \in Users, Acquire(u) PROVE TypeOK'
    BY <2>1, BoundsAssumption DEF Acquire, Move, TypeOK, Places
  <2>2. ASSUME NEW u \in Users, Advance(u) PROVE TypeOK'
    <3>1. CASE Take(u)
      BY <3>1 DEF Take, Move, TypeOK, Places
    <3>2. CASE MakeNotified(u)
      BY <3>2 DEF MakeNotified, Move, TypeOK, Places
    <3>3. CASE PollTakesToken(u)
      BY <3>3 DEF PollTakesToken, Move, TypeOK, Places
    <3>4. CASE PollRegisters(u)
      BY <3>4 DEF PollRegisters, Move, TypeOK, Places
    <3>5. CASE Resume(u)
      BY <3>5 DEF Resume, Move, TypeOK, Places
    <3>6. CASE DropPermit(u)
      BY <3>6 DEF DropPermit, Move, TypeOK, Places
    <3>7. CASE NotifyOne(u)
      BY <3>7, NotifiesOnePlaces DEF NotifyOne, TypeOK
    <3> QED
      BY <2>2, <3>1, <3>2, <3>3, <3>4, <3>5, <3>6, <3>7 DEF Advance
  <2>3. ASSUME NEW u \in Users, Abandon(u) PROVE TypeOK'
    <3>1. CASE at[u] = "chosen" /\ NotifiesOne(u)
      BY <2>3, <3>1, NotifiesOnePlaces DEF Abandon, TypeOK
    <3>2. CASE \E place \in {"waiting", "woken"} : Move(u, place, "out") /\ UNCHANGED token
      BY <2>3, <3>2 DEF Abandon, Move, TypeOK, Places
    <3> QED
      BY <2>3, <3>1, <3>2 DEF Abandon
  <2>4. CASE SetMax
    BY <2>4, LimitsAssumption, BoundsAssumption, AtLeastOneType DEF SetMax, TypeOK
  <2>5. CASE NotifyWaiters
    BY <2>5 DEF NotifyWaiters, TypeOK, Places
  <2>6. CASE UNCHANGED vars
    BY <2>6 DEF vars, TypeOK
  <2> QED
    BY <2>1, <2>2, <2>3, <2>4, <2>5, <2>6 DEF Next
<1> QED
  BY <1>1, <1>2, PTL DEF Spec

-----------------------------------------------------------------------------
(* Nobody waits in vain.  NoLostWakeup alone is not inductive: a stored    *)
(* token wakes only those still to poll, so what makes it one is that the  *)
(* token and a registered waiter never coexist.                            *)

WakeInv == TypeOK /\ NoLostWakeup /\ TokenMeansNobodyWaits

\* WakeInv is kept by every step.
LEMMA WakeInvInductive == TypeOK' /\ WakeInv /\ [Next]_vars => WakeInv'
<1> SUFFICES ASSUME TypeOK', WakeInv, [Next]_vars
             PROVE  NoLostWakeup' /\ TokenMeansNobodyWaits'
  BY DEF WakeInv
<1> USE DEF WakeInv
<1>1. ASSUME NEW u \in Users, Acquire(u) PROVE NoLostWakeup' /\ TokenMeansNobodyWaits'
  BY <1>1 DEF Acquire, Move, TypeOK, NoLostWakeup, TokenMeansNobodyWaits, OnTheWay, At
<1>2. ASSUME NEW u \in Users, Advance(u) PROVE NoLostWakeup' /\ TokenMeansNobodyWaits'
  <2>1. CASE Take(u)
    BY <2>1 DEF Take, Move, TypeOK, NoLostWakeup, TokenMeansNobodyWaits, At
  <2>2. CASE MakeNotified(u)
    BY <2>2 DEF MakeNotified, Move, TypeOK, NoLostWakeup, TokenMeansNobodyWaits, At
  <2>3. CASE PollTakesToken(u)
    BY <2>3 DEF PollTakesToken, Move, TypeOK, NoLostWakeup, TokenMeansNobodyWaits, OnTheWay, At
  <2>4. CASE PollRegisters(u)
    BY <2>4 DEF PollRegisters, Move, TypeOK, NoLostWakeup, TokenMeansNobodyWaits, OnTheWay, At
  <2>5. CASE Resume(u)
    BY <2>5 DEF Resume, Move, TypeOK, NoLostWakeup, TokenMeansNobodyWaits, OnTheWay, At
  <2>6. CASE DropPermit(u)
    BY <2>6 DEF DropPermit, Move, TypeOK, NoLostWakeup, TokenMeansNobodyWaits, OnTheWay, At
  <2>7. CASE NotifyOne(u)
    BY <2>7, NotifiesOnePlaces
    DEF NotifyOne, TypeOK, NoLostWakeup, TokenMeansNobodyWaits, OnTheWay, At
  <2> QED
    BY <1>2, <2>1, <2>2, <2>3, <2>4, <2>5, <2>6, <2>7 DEF Advance
<1>3. ASSUME NEW u \in Users, Abandon(u) PROVE NoLostWakeup' /\ TokenMeansNobodyWaits'
  <2>1. CASE at[u] = "chosen" /\ NotifiesOne(u)
    BY <1>3, <2>1, NotifiesOnePlaces
    DEF Abandon, TypeOK, NoLostWakeup, TokenMeansNobodyWaits, OnTheWay, At
  <2>2. CASE \E place \in {"waiting", "woken"} : Move(u, place, "out") /\ UNCHANGED token
    BY <1>3, <2>2 DEF Abandon, Move, TypeOK, NoLostWakeup, TokenMeansNobodyWaits, OnTheWay, At
  <2> QED
    BY <1>3, <2>1, <2>2 DEF Abandon
<1>4. CASE SetMax
  BY <1>4 DEF SetMax, NoLostWakeup, TokenMeansNobodyWaits, OnTheWay, At
<1>5. CASE NotifyWaiters
  BY <1>5 DEF NotifyWaiters, TypeOK, NoLostWakeup, TokenMeansNobodyWaits, OnTheWay, At
<1>6. CASE UNCHANGED vars
  BY <1>6 DEF vars, NoLostWakeup, TokenMeansNobodyWaits, OnTheWay, At
<1> QED
  BY <1>1, <1>2, <1>3, <1>4, <1>5, <1>6 DEF Next

\* No task waits for a wake that will not come, however drops, aborts, and
\* calls of set_max are timed.
THEOREM WakeupsReach == Spec => [](NoLostWakeup /\ TokenMeansNobodyWaits)
<1>1. Init => NoLostWakeup /\ TokenMeansNobodyWaits
  BY DEF Init, NoLostWakeup, TokenMeansNobodyWaits, At
<1> QED
  BY <1>1, TypeCorrect, WakeInvInductive, PTL DEF Spec, WakeInv

-----------------------------------------------------------------------------
(* The count is the number of permits out                                  *)

HoldersInv == TypeOK /\ CountsHolders

\* The holders are finitely many.
LEMMA HoldersFinite == IsFiniteSet(At("holding"))
<1>1. At("holding") \subseteq Users
  BY DEF At
<1> QED
  BY <1>1, UsersAssumption, FS_Subset

\* A step that moves nobody into or out of "holding" keeps the count.
LEMMA HoldersUntouched ==
    ASSUME HoldersInv, inflight' = inflight,
           \A u \in Users : at[u] = "holding" <=> at'[u] = "holding"
    PROVE  CountsHolders'
<1>1. At("holding")' = At("holding")
  BY DEF At
<1> QED
  BY <1>1 DEF HoldersInv, CountsHolders

\* HoldersInv is kept by every step.
LEMMA HoldersInvInductive == TypeOK' /\ HoldersInv /\ [Next]_vars => HoldersInv'
<1> SUFFICES ASSUME TypeOK', HoldersInv, [Next]_vars
             PROVE  CountsHolders'
  BY DEF HoldersInv
<1>t. TypeOK
  BY DEF HoldersInv
<1>1. ASSUME NEW u \in Users, Acquire(u) PROVE CountsHolders'
  BY <1>1, <1>t, HoldersUntouched DEF Acquire, Move, TypeOK
<1>2. ASSUME NEW u \in Users, Advance(u) PROVE CountsHolders'
  <2>1. CASE Take(u)
    <3>1. At("holding")' = At("holding") \cup {u} /\ u \notin At("holding")
      BY <2>1, <1>t DEF Take, Move, TypeOK, At
    <3>2. Cardinality(At("holding") \cup {u}) = Cardinality(At("holding")) + 1
      BY <3>1, HoldersFinite, FS_AddElement
    <3> QED
      BY <2>1, <3>1, <3>2 DEF Take, HoldersInv, CountsHolders
  <2>2. CASE MakeNotified(u)
    BY <2>2, <1>t, HoldersUntouched DEF MakeNotified, Move, TypeOK
  <2>3. CASE PollTakesToken(u)
    BY <2>3, <1>t, HoldersUntouched DEF PollTakesToken, Move, TypeOK
  <2>4. CASE PollRegisters(u)
    BY <2>4, <1>t, HoldersUntouched DEF PollRegisters, Move, TypeOK
  <2>5. CASE Resume(u)
    BY <2>5, <1>t, HoldersUntouched DEF Resume, Move, TypeOK
  <2>6. CASE DropPermit(u)
    <3>1. At("holding")' = At("holding") \ {u} /\ u \in At("holding")
      BY <2>6, <1>t DEF DropPermit, Move, TypeOK, At
    <3>2. /\ Cardinality(At("holding") \ {u}) = Cardinality(At("holding")) - 1
          /\ At("holding") # {}
      BY <3>1, HoldersFinite, FS_RemoveElement
    <3>3. inflight # 0
      BY <3>2, HoldersFinite, FS_EmptySet DEF HoldersInv, CountsHolders
    <3> QED
      BY <2>6, <3>1, <3>2, <3>3 DEF DropPermit, HoldersInv, CountsHolders
  <2>7. CASE NotifyOne(u)
    BY <2>7, <1>t, NotifiesOnePlaces, HoldersUntouched DEF NotifyOne
  <2> QED
    BY <1>2, <2>1, <2>2, <2>3, <2>4, <2>5, <2>6, <2>7 DEF Advance
<1>3. ASSUME NEW u \in Users, Abandon(u) PROVE CountsHolders'
  <2>1. CASE at[u] = "chosen" /\ NotifiesOne(u)
    BY <1>3, <1>t, <2>1, NotifiesOnePlaces, HoldersUntouched DEF Abandon
  <2>2. CASE \E place \in {"waiting", "woken"} : Move(u, place, "out") /\ UNCHANGED token
    BY <1>3, <1>t, <2>2, HoldersUntouched DEF Abandon, Move, TypeOK
  <2> QED
    BY <1>3, <2>1, <2>2 DEF Abandon
<1>4. CASE SetMax
  BY <1>4, HoldersUntouched DEF SetMax
<1>5. CASE NotifyWaiters
  BY <1>5, <1>t, HoldersUntouched DEF NotifyWaiters, TypeOK
<1>6. CASE UNCHANGED vars
  BY <1>6, HoldersUntouched DEF vars
<1> QED
  BY <1>1, <1>2, <1>3, <1>4, <1>5, <1>6 DEF Next

\* in_flight is at all times the number of permits out, so the saturating
\* subtraction in the drop of a permit never saturates.
THEOREM HoldersCounted == Spec => []CountsHolders
<1>1. Init => CountsHolders
  <2>1. Init => At("holding") = {}
    BY DEF Init, At
  <2> QED
    BY <2>1, FS_EmptySet DEF Init, CountsHolders
<1> QED
  BY <1>1, TypeCorrect, HoldersInvInductive, PTL DEF Spec, HoldersInv

\* A permit is granted only while fewer than max permits are out.
THEOREM WithinLimit == Spec => GrantedWithinLimit
<1>1. TypeOK /\ CountsHolders /\ [Next]_vars
        => [\A u \in Users : (at[u] # "holding" /\ at'[u] = "holding")
                                => (Cardinality(At("holding")) < max)]_vars
  <2> SUFFICES ASSUME TypeOK, CountsHolders, Next,
                      NEW v \in Users, at[v] # "holding", at'[v] = "holding"
               PROVE  inflight < max
    BY DEF CountsHolders
  <2>1. ASSUME NEW u \in Users, Acquire(u) PROVE FALSE
    BY <2>1 DEF Acquire, Move, TypeOK
  <2>2. ASSUME NEW u \in Users, Advance(u) PROVE inflight < max
    <3>1. CASE Take(u)
      BY <3>1 DEF Take
    <3>2. CASE \/ MakeNotified(u) \/ PollTakesToken(u) \/ PollRegisters(u)
               \/ Resume(u) \/ DropPermit(u)
      BY <3>2 DEF MakeNotified, PollTakesToken, PollRegisters, Resume, DropPermit, Move, TypeOK
    <3>3. CASE NotifyOne(u)
      BY <3>3, NotifiesOnePlaces DEF NotifyOne
    <3> QED
      BY <2>2, <3>1, <3>2, <3>3 DEF Advance
  <2>3. ASSUME NEW u \in Users, Abandon(u) PROVE FALSE
    <3>1. CASE at[u] = "chosen" /\ NotifiesOne(u)
      BY <3>1, NotifiesOnePlaces
    <3>2. CASE \E place \in {"waiting", "woken"} : Move(u, place, "out") /\ UNCHANGED token
      BY <3>2 DEF Move, TypeOK
    <3> QED
      BY <2>3, <3>1, <3>2 DEF Abandon
  <2>4. CASE SetMax \/ NotifyWaiters
    BY <2>4 DEF SetMax, NotifyWaiters, TypeOK
  <2> QED
    BY <2>1, <2>2, <2>3, <2>4 DEF Next
<1> QED
  BY <1>1, TypeCorrect, HoldersCounted, PTL DEF Spec, GrantedWithinLimit

-----------------------------------------------------------------------------
(* The bandwidth limiter, and the two together                             *)


USE RatesAssumption, FragmentsAssumption, SecondAssumption

\* A product grows with its factor.
LEMMA ProductMonotone ==
    ASSUME NEW r \in Nat, NEW a \in Nat, NEW b \in Nat, a <= b
    PROVE  r * a <= r * b
<1>1. PICK d \in Nat : b = a + d
  BY SMT
<1>2. r * (a + d) = r * a + r * d
  BY SMT
<1>3. r * d >= 0 /\ r * a \in Int /\ r * d \in Int
  BY SMT
<1> QED
  BY <1>1, <1>2, <1>3, SMT

\* The rounding up: a stretch lasts at least as long as its bytes take.
LEMMA StretchCovers ==
    ASSUME rate \in Nat \ {0}, NEW bytes \in Nat
    PROVE  /\ Stretch(bytes) \in Nat
           /\ bytes * Second <= rate * Stretch(bytes)
<1> DEFINE n == bytes * Second + rate - 1
           q == n \div rate
<1>1. bytes * Second \in Nat
  BY SMT
<1>2. n \in Nat
  BY <1>1, SMT
<1> HIDE DEF n
<1>3. q \in Nat /\ n % rate \in 0 .. rate - 1 /\ n = rate * q + (n % rate)
  BY <1>2, SMT
<1>4. rate * q \in Int
  BY <1>3, SMT
<1>5. Stretch(bytes) = q
  BY DEF Stretch, n
<1> HIDE DEF q
<1>6. n = bytes * Second + rate - 1
  BY DEF n
<1> QED
  BY <1>1, <1>3, <1>4, <1>5, <1>6, SMT

\* Every variable keeps its type, and whoever is inside throttle has a limit and a
\* fragment.
PaceTyped == PaceTypeOK /\ \A t \in Tasks : pace[t] # "out" => rate # 0 /\ bytesOf[t] \in Fragments

\* Types are kept by every step of the bandwidth limiter.
LEMMA PaceTypeInductive ==
    ASSUME PaceTyped, [PaceNext]_paceVars PROVE PaceTyped'
<1> USE DEF PaceTyped, PaceTypeOK
<1>1. ASSUME NEW t \in Tasks, Ask(t) PROVE PaceTyped'
  BY <1>1 DEF Ask, history
<1>2. ASSUME NEW t \in Tasks, Reserve(t) PROVE PaceTyped'
  <2>1. rate \in Nat \ {0} /\ bytesOf[t] \in Nat
    BY <1>2 DEF Reserve
  <2>2. StartOfStretch(t) \in Nat
    BY <1>2 DEF StartOfStretch, Later
  <2>3. Stretch(bytesOf[t]) \in Nat
    BY <2>1, StretchCovers
  <2>4. next' \in Nat /\ reserved' \in Nat
    BY <1>2, <2>1, <2>2, <2>3, SMT DEF Reserve
  <2> QED
    BY <1>2, <2>2, <2>4 DEF Reserve
<1>3. ASSUME NEW t \in Tasks, EndSleep(t), through' \in Nat PROVE PaceTyped'
  BY <1>3 DEF EndSleep
<1>4. ASSUME NEW t \in Tasks, Wake(t) PROVE PaceTyped'
  <2>1. bytesOf[t] \in Nat /\ before[t] \in Nat
    BY <1>4 DEF Wake, EndSleep
  <2>2. through' \in Nat
    BY <1>4, <2>1, SMT DEF Wake, Later
  <2> QED
    BY <1>3, <1>4, <2>2 DEF Wake
<1>5. ASSUME NEW t \in Tasks, GiveUp(t) PROVE PaceTyped'
  BY <1>3, <1>5 DEF GiveUp
<1>6. CASE Tick
  BY <1>6 DEF Tick, history
<1>7. CASE UNCHANGED paceVars
  BY <1>7 DEF paceVars, history
<1> QED
  BY <1>1, <1>2, <1>4, <1>5, <1>6, <1>7 DEF PaceNext

\* The variables of the limiter keep their types.
THEOREM PaceTypeCorrect == PaceSpec => []PaceTyped
<1>1. PaceInit => PaceTyped
  BY DEF PaceInit, PaceTyped, PaceTypeOK
<1> QED
  BY <1>1, PaceTypeInductive, PTL DEF PaceSpec

\* A task that reserves moves the next free moment by as much as its bytes take.
LEMMA ReserveKeepsRate ==
    ASSUME PaceTyped, PaceInv, NEW t \in Tasks, Reserve(t)
    PROVE  /\ rate # 0 /\ reserved * Second <= rate * StartOfStretch(t)
           /\ reserved' * Second <= rate' * next'
<1> USE DEF PaceTyped, PaceTypeOK
<1>1. rate \in Nat \ {0} /\ bytesOf[t] \in Nat /\ now[t] \in Nat /\ next \in Nat /\ reserved \in Nat
  BY DEF Reserve
<1> DEFINE s == StartOfStretch(t)
           l == Stretch(bytesOf[t])
<1>2. s \in Nat /\ next <= s
  BY <1>1, SMT DEF StartOfStretch, Later
<1>3. l \in Nat /\ bytesOf[t] * Second <= rate * l
  BY <1>1, StretchCovers
<1>4. reserved * Second <= rate * next
  BY <1>1 DEF PaceInv
<1>5. reserved' = reserved + bytesOf[t] /\ next' = s + l /\ rate' = rate
  BY DEF Reserve
<1> HIDE DEF s, l
<1>6. rate * next <= rate * s
  BY <1>1, <1>2, ProductMonotone
<1>7. /\ rate * (s + l) = rate * s + rate * l
      /\ (reserved + bytesOf[t]) * Second = reserved * Second + bytesOf[t] * Second
  BY <1>1, <1>2, <1>3, SMT
<1>8. /\ {rate * s, rate * l, rate * next} \subseteq Int
      /\ {reserved * Second, bytesOf[t] * Second} \subseteq Int
  BY <1>1, <1>2, <1>3, SMT
<1>9. reserved * Second <= rate * s
  BY <1>4, <1>6, <1>8, SMT
<1>10. reserved' * Second <= rate' * next'
  BY <1>3, <1>5, <1>7, <1>8, <1>9, SMT
<1> QED
  BY <1>1, <1>9, <1>10 DEF s

\* Bytes let through at a moment by which those before them fit keep the rate.
LEMMA LetThroughKeepsRate ==
    ASSUME rate \in Nat, clock \in Nat, NEW earlier \in Nat, NEW moment \in Nat,
           NEW bytes \in Fragments \cup {0},
           earlier * Second <= rate * moment, moment <= clock
    PROVE  (earlier + bytes) * Second <= rate * clock + bytes * Second
<1>1. rate * moment <= rate * clock
  BY ProductMonotone
<1>2. bytes \in Nat
  OBVIOUS
<1>3. (earlier + bytes) * Second = earlier * Second + bytes * Second
  BY <1>2, SMT
<1>4. {rate * moment, rate * clock, earlier * Second, bytes * Second} \subseteq Int
  BY <1>2, SMT
<1> QED
  BY <1>1, <1>3, <1>4, SMT


\* What is reserved fits the time up to the next free moment, after every step.
LEMMA PaceInvInductive ==
    ASSUME PaceTyped, PaceTyped', PaceInv, [PaceNext]_paceVars PROVE PaceInv'
<1> USE DEF PaceTyped, PaceTypeOK
<1>1. ASSUME NEW t \in Tasks, Ask(t) PROVE PaceInv'
  <2>1. UNCHANGED <<clock, rate, next, wake, reserved, before, through>>
    BY <1>1 DEF Ask, history
  <2>2. \A u \in Tasks : pace'[u] = "sleeping" => pace[u] = "sleeping"
    BY <1>1 DEF Ask
  <2>3. \A u \in Tasks : pace'[u] = "asked" => now'[u] <= clock'
    BY <1>1, <2>1 DEF Ask, PaceInv
  <2>4. \A u \in Tasks : pace'[u] # "out" => rate' # 0 /\ bytesOf'[u] \in Fragments
    BY DEF PaceTyped
  <2>5. WithinRate'
    BY <2>1 DEF PaceInv, WithinRate
  <2> QED
    BY <2>1, <2>2, <2>3, <2>4, <2>5 DEF PaceInv
<1>2. ASSUME NEW t \in Tasks, Reserve(t) PROVE PaceInv'
  <2>1. clock' = clock /\ rate' = rate
    BY <1>2 DEF Reserve
  <2>2. rate # 0 /\ reserved * Second <= rate * StartOfStretch(t) /\ reserved' * Second <= rate' * next'
    BY <1>2, ReserveKeepsRate
  <2>3. \A u \in Tasks : pace'[u] # "out" => rate' # 0 /\ bytesOf'[u] \in Fragments
    BY DEF PaceTyped
  <2>4. \A u \in Tasks : pace'[u] = "asked" => now'[u] <= clock'
    BY <1>2, <2>1 DEF Reserve, PaceInv
  <2>5. \A u \in Tasks : pace'[u] = "sleeping" => before'[u] * Second <= rate' * wake'[u]
    <3> SUFFICES ASSUME NEW u \in Tasks, pace'[u] = "sleeping"
                 PROVE  before'[u] * Second <= rate' * wake'[u]
      OBVIOUS
    <3>1. CASE u = t
      <4>1. before'[u] = reserved /\ wake'[u] = StartOfStretch(t)
        BY <1>2, <3>1 DEF Reserve
      <4> QED
        BY <4>1, <2>1, <2>2
    <3>2. CASE u # t
      <4>1. before'[u] = before[u] /\ wake'[u] = wake[u] /\ pace[u] = "sleeping"
        BY <1>2, <3>2 DEF Reserve
      <4> QED
        BY <4>1, <2>1 DEF PaceInv
    <3> QED
      BY <3>1, <3>2
  <2>6. WithinRate'
    <3>1. CASE through' = through
      BY <2>1, <3>1 DEF PaceInv, WithinRate
    <3>2. CASE StartOfStretch(t) <= now[t] /\ through' = reserved'
      <4>1. /\ pace[t] = "asked" /\ now[t] <= clock /\ bytesOf[t] \in Fragments
            /\ now[t] \in Nat /\ through' = reserved + bytesOf[t]
        BY <1>2, <3>2 DEF Reserve, PaceInv
      <4>2. StartOfStretch(t) \in Nat
        BY <4>1 DEF StartOfStretch, Later
      <4>3. StartOfStretch(t) <= clock
        BY <3>2, <4>1, <4>2, SMT
      <4>4. rate \in Nat /\ clock \in Nat /\ reserved \in Nat
        BY DEF PaceTyped
      <4>5. (reserved + bytesOf[t]) * Second <= rate * clock + bytesOf[t] * Second
        BY <2>2, <4>1, <4>2, <4>3, <4>4, LetThroughKeepsRate
      <4> QED
        BY <2>1, <4>1, <4>5 DEF WithinRate
    <3> QED
      BY <1>2, <3>1, <3>2 DEF Reserve
  <2> QED
    BY <2>2, <2>3, <2>4, <2>5, <2>6 DEF PaceInv
<1>3. ASSUME NEW t \in Tasks, EndSleep(t), WithinRate' PROVE PaceInv'
  <2>1. UNCHANGED <<clock, rate, next, reserved>>
    BY <1>3 DEF EndSleep
  <2>2. \A u \in Tasks : pace'[u] # "out" =>
            /\ pace'[u] = pace[u] /\ now'[u] = now[u] /\ wake'[u] = wake[u]
            /\ before'[u] = before[u]
    BY <1>3 DEF EndSleep
  <2>3. \A u \in Tasks : pace'[u] # "out" => rate' # 0 /\ bytesOf'[u] \in Fragments
    BY DEF PaceTyped
  <2> QED
    BY <1>3, <2>1, <2>2, <2>3 DEF PaceInv
<1>4. ASSUME NEW t \in Tasks, Wake(t) PROVE PaceInv'
  <2>1. /\ pace[t] = "sleeping" /\ wake[t] <= clock /\ clock' = clock /\ rate' = rate
        /\ through' = Later(through, before[t] + bytesOf[t])
    BY <1>4 DEF Wake, EndSleep
  <2>2. /\ before[t] * Second <= rate * wake[t] /\ bytesOf[t] \in Fragments
        /\ before[t] \in Nat /\ wake[t] \in Nat /\ rate \in Nat /\ clock \in Nat
    BY <2>1 DEF PaceInv
  <2>3. (before[t] + bytesOf[t]) * Second <= rate * clock + bytesOf[t] * Second
    BY <2>1, <2>2, LetThroughKeepsRate
  <2>4. through' = through \/ through' = before[t] + bytesOf[t]
    BY <2>1 DEF Later
  <2>5. WithinRate'
    BY <2>1, <2>2, <2>3, <2>4 DEF PaceInv, WithinRate
  <2> QED
    BY <1>3, <1>4, <2>5 DEF Wake
<1>5. ASSUME NEW t \in Tasks, GiveUp(t) PROVE PaceInv'
  <2>1. WithinRate'
    BY <1>5 DEF GiveUp, EndSleep, PaceInv, WithinRate
  <2> QED
    BY <1>3, <1>5, <2>1 DEF GiveUp
<1>6. CASE Tick
  <2>1. clock' = clock + 1 /\ UNCHANGED <<rate, next, pace, now, wake, bytesOf, reserved, before, through>>
    BY <1>6 DEF Tick, history
  <2>2. clock \in Nat /\ rate \in Nat
    BY DEF PaceTyped
  <2>3. \A u \in Tasks : pace'[u] = "asked" => now'[u] <= clock'
    <3> SUFFICES ASSUME NEW u \in Tasks, pace'[u] = "asked" PROVE now'[u] <= clock'
      OBVIOUS
    <3>1. now[u] \in Nat /\ now[u] <= clock /\ now'[u] = now[u]
      BY <2>1 DEF PaceInv
    <3> QED
      BY <2>1, <2>2, <3>1, SMT
  <2>4. WithinRate'
    <3> SUFFICES ASSUME rate # 0
                 PROVE  \E bytes \in Fragments \cup {0} :
                            through * Second <= rate * (clock + 1) + bytes * Second
      BY <2>1 DEF WithinRate
    <3>1. PICK bytes \in Fragments \cup {0} : through * Second <= rate * clock + bytes * Second
      BY DEF PaceInv, WithinRate
    <3>2. rate * clock <= rate * (clock + 1)
      BY <2>2, ProductMonotone
    <3>3. through \in Nat /\ bytes \in Nat
      BY DEF PaceTyped
    <3>4. {through * Second, rate * clock, rate * (clock + 1), bytes * Second} \subseteq Int
      BY <2>2, <3>3, SMT
    <3> QED
      BY <3>1, <3>2, <3>4, SMT
  <2> QED
    BY <2>1, <2>3, <2>4 DEF PaceInv
<1>7. CASE UNCHANGED paceVars
  BY <1>7 DEF paceVars, history, PaceInv, WithinRate
<1> QED
  BY <1>1, <1>2, <1>4, <1>5, <1>6, <1>7 DEF PaceNext

\* The reservations always fit the time they reserve.
THEOREM PaceInvariant == PaceSpec => []PaceInv
<1>1. PaceInit => PaceInv
  <2> SUFFICES ASSUME PaceInit PROVE PaceInv
    OBVIOUS
  <2>1. rate \in Nat
    BY DEF PaceInit
  <2>2. 0 * Second = 0 /\ rate * 0 = 0
    BY <2>1, SMT
  <2>3. 0 * Second <= rate * 0 + 0 * Second
    BY <2>2, SMT
  <2> QED
    BY <2>2, <2>3 DEF PaceInit, PaceInv, WithinRate
<1> QED
  BY <1>1, PaceInvInductive, PaceTypeCorrect, PTL DEF PaceSpec

\* From the start of the run to any moment, the bytes let through exceed what the
\* rate allows by one fragment at most, for every rate and every number of tasks.
THEOREM RateKept == PaceSpec => []WithinRate
<1>1. PaceInv => WithinRate
  BY DEF PaceInv
<1> QED
  BY <1>1, PaceInvariant, PTL

-----------------------------------------------------------------------------
\* A request uses the I/O limiter as its module says,
LEMMA LimitsStepIo == [LimitsNext]_limitsVars => [Next]_vars
<1> SUFFICES ASSUME [LimitsNext]_limitsVars PROVE [Next]_vars
  OBVIOUS
<1>1. CASE UNCHANGED limitsVars
  BY <1>1 DEF limitsVars
<1>2. ASSUME NEW u \in Users, Begin(u) \/ Around(u) \/ Leave(u) PROVE Next
  BY <1>2 DEF Begin, Around, Leave, Next, Advance
<1>3. ASSUME NEW u \in Users, Throttle(u) PROVE UNCHANGED vars
  BY <1>3 DEF Throttle
<1>4. ASSUME NEW u \in Users, EndRequest(u) \/ GiveUpRequest(u) PROVE Next
  BY <1>4 DEF EndRequest, GiveUpRequest, Next, Advance
<1>5. ASSUME ChangeLimit \/ WakeAll PROVE Next
  BY <1>5 DEF ChangeLimit, WakeAll, Next
<1>6. ASSUME TimePasses PROVE UNCHANGED vars
  BY <1>6 DEF TimePasses
<1> QED
  BY <1>1, <1>2, <1>3, <1>4, <1>5, <1>6 DEF LimitsNext

\* and the bandwidth limiter.
LEMMA LimitsStepPace == [LimitsNext]_limitsVars => [PaceNext]_paceVars
<1> SUFFICES ASSUME [LimitsNext]_limitsVars PROVE [PaceNext]_paceVars
  OBVIOUS
<1> USE SameTasksAssumption
<1>1. CASE UNCHANGED limitsVars
  BY <1>1 DEF limitsVars
<1>2. ASSUME NEW u \in Users, Begin(u) \/ Around(u) \/ Leave(u) \/ EndRequest(u)
      PROVE  UNCHANGED paceVars
  BY <1>2 DEF Begin, Around, Leave, EndRequest
<1>3. ASSUME NEW u \in Users, Throttle(u) \/ GiveUpRequest(u) PROVE PaceNext
  BY <1>3 DEF Throttle, GiveUpRequest, PaceNext
<1>4. ASSUME ChangeLimit \/ WakeAll PROVE UNCHANGED paceVars
  BY <1>4 DEF ChangeLimit, WakeAll
<1>5. ASSUME TimePasses PROVE PaceNext
  BY <1>5 DEF TimePasses, PaceNext
<1> QED
  BY <1>1, <1>2, <1>3, <1>4, <1>5 DEF LimitsNext

\* The two limiters of a request are the two limiters.
THEOREM LimitsImplementsBoth == LimitsSpec => Spec /\ PaceSpec
<1>1. LimitsInit => Init /\ PaceInit
  BY DEF LimitsInit
<1> QED
  BY <1>1, LimitsStepIo, LimitsStepPace, PTL DEF LimitsSpec, Spec, PaceSpec

\* Also while permits are held through the bandwidth sleep, and dropped in it, no task
\* waits for a wake that will not come.
THEOREM LimitsWakeupsReach == LimitsSpec => []NoLostWakeup
BY LimitsImplementsBoth, WakeupsReach, PTL

\* Also for tasks that come and go as their permits and attempts do, the bytes let
\* through keep the rate.
THEOREM LimitsRateKept == LimitsSpec => []WithinRate
BY LimitsImplementsBoth, RateKept, PTL
===============================================================================
