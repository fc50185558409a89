--------------------------- MODULE ComponentsProofs ---------------------------
(***************************************************************************)
(* Proofs about the parts around the download task, each for any values of *)
(* its constants: how reports reach the host, what a host learns of an     *)
(* error, the digest that is verified, the blocks it is computed of, the   *)
(* JavaScript facade, the Godot node, the speed; and that the composition  *)
(* is a behaviour of every part.  The lock on the part file has            *)
(* PartLockProofs.                                                         *)
(***************************************************************************)
EXTENDS Components, SequenceTheorems, FiniteSetTheorems, WellFoundedInduction, TLAPS

-----------------------------------------------------------------------------
(* Reports                                                                 *)

\* The variables have the types the code gives them, and a timer is scheduled
\* only behind an emission.
THEOREM TypeCorrect == ReportSpec => []ReportTypeOK
<1>1. ReportInit => ReportTypeOK
  <2> SUFFICES ASSUME ReportInit PROVE ReportTypeOK
    OBVIOUS
  <2>1. version \in Versions /\ installed \in 0 .. MaxInstalls /\ installs \in 0 .. MaxInstalls
    BY ReportBoundsAssumption DEF ReportInit, Versions
  <2>2. place \in [Actors -> ReportPlaces] /\ gen \in [Timers -> Nat]
    BY DEF ReportInit, ReportPlaces
  <2>3. holds \in [Actors -> 0 .. MaxInstalls]
    BY ReportBoundsAssumption DEF ReportInit
  <2>4. snap \in [Actors -> Versions \cup {0}] /\ told \in [Callables -> Versions \cup {0}]
    BY DEF ReportInit
  <2> QED
    BY <2>1, <2>2, <2>3, <2>4 DEF ReportInit, ReportTypeOK
<1>2. ReportTypeOK /\ [ReportNext]_reportVars => ReportTypeOK'
  <2> SUFFICES ASSUME ReportTypeOK, [ReportNext]_reportVars
               PROVE  ReportTypeOK'
    OBVIOUS
  <2>1. ASSUME NEW t \in Threads, Change(t) PROVE ReportTypeOK'
    BY <2>1, ReportBoundsAssumption DEF Change, GoTo, ReportTypeOK, ReportPlaces, Actors, Versions, throttle
  <2>2. ASSUME NEW t \in Threads, Report(t) PROVE ReportTypeOK'
    <3>1. CASE Notify(t)
      BY <3>1 DEF Notify, GoTo, ReportTypeOK, ReportPlaces, Actors, throttle
    <3>2. CASE Skip(t)
      BY <3>2 DEF Skip, GoTo, ReportTypeOK, ReportPlaces, Actors, throttle
    <3>3. CASE Emit(t)
      BY <3>3 DEF Emit, GoTo, ReportTypeOK, ReportPlaces, Actors
    <3>4. CASE Schedule(t)
      <4>1. PICK x \in Timers :
                /\ place' = [place EXCEPT ![t] = "idle", ![x] = "sleeping"]
                /\ gen' = [gen EXCEPT ![x] = generation]
        BY <3>4 DEF Schedule
      <4> QED
        BY <3>4, <4>1 DEF Schedule, ReportTypeOK, ReportPlaces, Actors
    <3>5. CASE ResetThrottle(t)
      <4>1. \E to \in ReportPlaces : place' = [place EXCEPT ![t] = to]
        BY <3>5 DEF ResetThrottle, GoTo, ReportPlaces
      <4>2. place' \in [Actors -> ReportPlaces]
        BY <4>1 DEF ReportTypeOK
      <4>3. /\ last' = "never" /\ trailing' = FALSE /\ generation' = generation + 1
            /\ UNCHANGED <<version, installed, gen, holds, snap, told, installs>>
        BY <3>5 DEF ResetThrottle
      <4>4. ~trailing' /\ trailing' \in BOOLEAN
        BY <4>3
      <4>7. generation' \in Nat /\ last' \in {"never", "recent", "old"}
        BY <4>3 DEF ReportTypeOK
      <4>5. version' \in Versions /\ installed' \in 0 .. MaxInstalls /\ installs' \in 0 .. MaxInstalls
        BY <4>3 DEF ReportTypeOK
      <4>6. /\ gen' \in [Timers -> Nat] /\ holds' \in [Actors -> 0 .. MaxInstalls]
            /\ snap' \in [Actors -> Versions \cup {0}] /\ told' \in [Callables -> Versions \cup {0}]
        BY <4>3 DEF ReportTypeOK
      <4> QED
        BY <4>2, <4>4, <4>5, <4>6, <4>7 DEF ReportTypeOK
    <3> QED
      BY <2>2, <3>1, <3>2, <3>3, <3>4, <3>5 DEF Report
  <2>3. ASSUME NEW t \in Setters, Install(t) \/ RemoveCallback(t) PROVE ReportTypeOK'
    BY <2>3, ThreadsAssumption, ReportBoundsAssumption
       DEF Install, RemoveCallback, GoTo, ReportTypeOK, ReportPlaces, Actors, throttle
  <2>4. ASSUME NEW x \in Timers, Fire(x) \/ Expire(x) PROVE ReportTypeOK'
    <3>1. \E to \in ReportPlaces : place' = [place EXCEPT ![x] = to]
      BY <2>4 DEF Fire, Expire, GoTo, ReportPlaces
    <3>2. place' \in [Actors -> ReportPlaces]
      BY <3>1 DEF ReportTypeOK
    <3>3. gen' \in [Timers -> Nat]
      BY <2>4 DEF Fire, Expire, ReportTypeOK
    <3>4. /\ last' \in {"recent", last} /\ trailing' \in {FALSE, trailing}
          /\ UNCHANGED <<version, installed, generation, holds, snap, told, installs>>
      BY <2>4 DEF Fire, Expire, throttle
    <3>5. trailing' \in BOOLEAN /\ (trailing' => last' # "never")
      <4>1. CASE trailing' = trailing
        BY <3>4, <4>1, Zenon DEF ReportTypeOK
      <4>2. CASE trailing' = FALSE
        BY <4>2
      <4> QED
        BY <3>4, <4>1, <4>2
    <3>6. last' \in {"never", "recent", "old"}
      BY <3>4 DEF ReportTypeOK
    <3>7. /\ version' \in Versions /\ installed' \in 0 .. MaxInstalls /\ installs' \in 0 .. MaxInstalls
          /\ generation' \in Nat
      BY <3>4 DEF ReportTypeOK
    <3>8. /\ holds' \in [Actors -> 0 .. MaxInstalls]
          /\ snap' \in [Actors -> Versions \cup {0}] /\ told' \in [Callables -> Versions \cup {0}]
      BY <3>4 DEF ReportTypeOK
    <3> QED
      BY <3>2, <3>3, <3>5, <3>6, <3>7, <3>8 DEF ReportTypeOK
  <2>5. ASSUME NEW x \in Actors, Deliver(x) PROVE ReportTypeOK'
    <3>1. CASE CloneCallback(x)
      BY <3>1 DEF CloneCallback, GoTo, ReportTypeOK, ReportPlaces, throttle
    <3>2. CASE TakeSnapshot(x)
      BY <3>2 DEF TakeSnapshot, GoTo, ReportTypeOK, ReportPlaces, throttle
    <3>3. CASE Call(x)
      <4>1. told' \in [Callables -> Versions \cup {0}]
        BY <3>3 DEF Call, ReportTypeOK
      <4>2. place' \in [Actors -> ReportPlaces]
        BY <3>3 DEF Call, GoTo, ReportTypeOK, ReportPlaces
      <4>3. holds' \in [Actors -> 0 .. MaxInstalls] /\ snap' \in [Actors -> Versions \cup {0}]
        BY <3>3, ReportBoundsAssumption DEF Call, ReportTypeOK
      <4> QED
        BY <3>3, <4>1, <4>2, <4>3 DEF Call, ReportTypeOK, throttle
    <3> QED
      BY <2>5, <3>1, <3>2, <3>3 DEF Deliver
  <2>6. CASE IntervalPasses
    BY <2>6 DEF IntervalPasses, ReportTypeOK
  <2>7. CASE UNCHANGED reportVars
    BY <2>7 DEF reportVars, throttle, ReportTypeOK
  <2> QED
    BY <2>1, <2>2, <2>3, <2>4, <2>5, <2>6, <2>7 DEF ReportNext
<1> QED
  BY <1>1, <1>2, PTL DEF ReportSpec

\* The set of timers asleep changes only with generation, at and gen.
LEMMA AsleepSame ==
    ASSUME ReportTypeOK, NEW x \in Actors, generation' = generation, gen' = gen,
           \A y \in Actors : y # x => place'[y] = place[y],
           place[x] # "sleeping", place'[x] # "sleeping"
    PROVE  Asleep' = Asleep
BY DEF Asleep, Actors

\* The inductive invariant behind NoLostReport, when one thread at most sets
\* callbacks.
THEOREM ReportInvariant ==
    ASSUME \A s, t \in Setters : s = t
    PROVE  ReportSpec => []ReportInv
<1>1. ReportInit => ReportInv
  BY ThreadsAssumption, ReportBoundsAssumption
     DEF ReportInit, ReportInv, NoLostReport, Actors, Callables
<1>2. ReportTypeOK /\ ReportTypeOK' /\ ReportInv /\ [ReportNext]_reportVars => ReportInv'
  <2> SUFFICES ASSUME ReportTypeOK, ReportTypeOK', ReportInv, [ReportNext]_reportVars
               PROVE  ReportInv'
    OBVIOUS
  <2> USE ThreadsAssumption DEF Actors
  <2>1. ASSUME NEW t \in Threads, Change(t) PROVE ReportInv'
    <3>1. Asleep' = Asleep
      BY <2>1, AsleepSame DEF Change, GoTo, throttle, ReportTypeOK
    <3>2. NoLostReport'
      BY <2>1 DEF Change, GoTo, NoLostReport, Informs, ReportTypeOK
    <3>3. /\ \A x \in Actors : snap'[x] <= version'
          /\ \A c \in Callables : told'[c] <= version'
      BY <2>1, ReportBoundsAssumption DEF Change, ReportInv, ReportTypeOK, Versions
    <3> QED
      BY <2>1, <3>1, <3>2, <3>3 DEF Change, GoTo, throttle, ReportInv, ReportTypeOK
  <2>2. ASSUME NEW t \in Threads, Notify(t) PROVE ReportInv'
    <3>1. Asleep' = Asleep
      BY <2>2, AsleepSame DEF Notify, GoTo, throttle, ReportTypeOK
    <3>2. NoLostReport'
      BY <2>2, <3>1 DEF Notify, GoTo, throttle, NoLostReport, Informs, ReportTypeOK, ReportInv
    <3> QED
      BY <2>2, <3>1, <3>2 DEF Notify, GoTo, throttle, ReportInv, ReportTypeOK
  <2>3. ASSUME NEW t \in Threads, Skip(t) PROVE ReportInv'
    <3>1. Asleep' = Asleep
      BY <2>3, AsleepSame DEF Skip, GoTo, throttle, ReportTypeOK
    <3>2. NoLostReport'
      BY <2>3, <3>1 DEF Skip, throttle, NoLostReport, ReportInv
    <3> QED
      BY <2>3, <3>1, <3>2 DEF Skip, GoTo, throttle, ReportInv, ReportTypeOK
  <2>4. ASSUME NEW t \in Threads, Emit(t) PROVE ReportInv'
    <3>1. Asleep' = Asleep
      BY <2>4, AsleepSame DEF Emit, GoTo, ReportTypeOK
    <3>2. NoLostReport'
      BY <2>4, <3>1 DEF Emit, GoTo, NoLostReport, Informs, ReportTypeOK
    <3> QED
      BY <2>4, <3>1, <3>2 DEF Emit, GoTo, ReportInv, ReportTypeOK
  <2>5. ASSUME NEW t \in Threads, Schedule(t) PROVE ReportInv'
    <3>1. PICK x \in Timers :
              /\ place[x] = "idle"
              /\ place' = [place EXCEPT ![t] = "idle", ![x] = "sleeping"]
              /\ gen' = [gen EXCEPT ![x] = generation]
      BY <2>5 DEF Schedule
    <3>2. x \in Asleep'
      BY <2>5, <3>1 DEF Schedule, Asleep, ReportTypeOK
    <3>3. NoLostReport'
      BY <3>2 DEF NoLostReport
    <3> QED
      BY <2>5, <3>1, <3>2, <3>3 DEF Schedule, ReportInv, ReportTypeOK
  <2>6. ASSUME NEW t \in Threads, ResetThrottle(t) PROVE ReportInv'
    <3>1. NoLostReport'
      <4>1. CASE place[t] = "reset"
        BY <2>6, <4>1 DEF ResetThrottle, GoTo, NoLostReport, Informs, ReportTypeOK
      <4>2. CASE place[t] = "resetquiet"
        BY <2>6, <4>2 DEF ResetThrottle, NoLostReport, ReportInv
      <4> QED
        BY <2>6, <4>1, <4>2 DEF ResetThrottle, GoTo
    <3> QED
      BY <2>6, <3>1 DEF ResetThrottle, GoTo, ReportInv, ReportTypeOK
  <2>7. ASSUME NEW t \in Setters, Install(t) PROVE ReportInv'
    <3>1. Asleep' = Asleep
      BY <2>7, AsleepSame DEF Install, GoTo, throttle, ReportTypeOK
    <3>2. NoLostReport'
      BY <2>7 DEF Install, GoTo, NoLostReport, Informs, ReportTypeOK
    <3>3. \A s \in Threads : place'[s] # "resetquiet"
      BY <2>7 DEF Install, GoTo, ReportInv, ReportTypeOK
    <3> QED
      BY <2>7, <3>1, <3>2, <3>3 DEF Install, GoTo, throttle, ReportInv, ReportTypeOK
  <2>8. ASSUME NEW t \in Setters, RemoveCallback(t) PROVE ReportInv'
    <3>1. Asleep' = Asleep
      BY <2>8, AsleepSame DEF RemoveCallback, GoTo, throttle, ReportTypeOK
    <3>2. NoLostReport'
      BY <2>8 DEF RemoveCallback, NoLostReport
    <3> QED
      BY <2>8, <3>1, <3>2 DEF RemoveCallback, GoTo, throttle, ReportInv, ReportTypeOK
  <2>9. ASSUME NEW x \in Timers, Fire(x) PROVE ReportInv'
    <3>1. NoLostReport'
      BY <2>9 DEF Fire, GoTo, NoLostReport, Informs, ReportTypeOK
    <3> QED
      BY <2>9, <3>1 DEF Fire, GoTo, ReportInv, ReportTypeOK
  <2>10. ASSUME NEW x \in Timers, Expire(x) PROVE ReportInv'
    <3>1. Asleep' = Asleep
      BY <2>10 DEF Expire, GoTo, throttle, Asleep, ReportTypeOK
    <3>2. NoLostReport'
      BY <2>10, <3>1 DEF Expire, GoTo, throttle, NoLostReport, Informs, ReportInv, ReportTypeOK
    <3> QED
      BY <2>10, <3>1, <3>2 DEF Expire, GoTo, throttle, ReportInv, ReportTypeOK
  <2>11. ASSUME NEW x \in Actors, CloneCallback(x) PROVE ReportInv'
    <3>1. Asleep' = Asleep
      BY <2>11, AsleepSame DEF CloneCallback, GoTo, throttle, ReportTypeOK
    <3>2. NoLostReport'
      BY <2>11 DEF CloneCallback, GoTo, NoLostReport, Informs, ReportTypeOK
    <3> QED
      BY <2>11, <3>1, <3>2 DEF CloneCallback, GoTo, throttle, ReportInv, ReportTypeOK, Callables
  <2>12. ASSUME NEW x \in Actors, TakeSnapshot(x) PROVE ReportInv'
    <3>1. Asleep' = Asleep
      BY <2>12, AsleepSame DEF TakeSnapshot, GoTo, throttle, ReportTypeOK
    <3>2. NoLostReport'
      BY <2>12, <3>1 DEF TakeSnapshot, GoTo, NoLostReport, Informs, ReportInv, ReportTypeOK
    <3> QED
      BY <2>12, <3>1, <3>2 DEF TakeSnapshot, GoTo, throttle, ReportInv, ReportTypeOK, Versions
  <2>13. ASSUME NEW x \in Actors, Call(x) PROVE ReportInv'
    <3>1. Asleep' = Asleep
      BY <2>13, AsleepSame DEF Call, GoTo, throttle, ReportTypeOK
    <3>2. \A c \in Callables : told'[c] <= version' /\ (told[c] = version => told'[c] = version)
      BY <2>13 DEF Call, GoTo, ReportInv, ReportTypeOK, Versions
    <3>3. NoLostReport'
      BY <2>13, <3>1, <3>2 DEF Call, GoTo, NoLostReport, Informs, ReportInv, ReportTypeOK, Versions
    <3> QED
      BY <2>13, <3>1, <3>2, <3>3 DEF Call, GoTo, throttle, ReportInv, ReportTypeOK, Versions
  <2>14. CASE IntervalPasses
    BY <2>14 DEF IntervalPasses, ReportInv, NoLostReport, Informs, Asleep
  <2>15. CASE UNCHANGED reportVars
    BY <2>15 DEF reportVars, throttle, ReportInv, NoLostReport, Informs, Asleep
  <2> QED
    BY <2>1, <2>2, <2>3, <2>4, <2>5, <2>6, <2>7, <2>8, <2>9, <2>10, <2>11, <2>12, <2>13,
       <2>14, <2>15 DEF ReportNext, Report, Deliver
<1> QED
  BY <1>1, <1>2, TypeCorrect, PTL DEF ReportSpec

\* While one thread at most sets callbacks, no change of the state is lost on
\* the way to the installed callback.
THEOREM NoReportLost ==
    ASSUME \A s, t \in Setters : s = t
    PROVE  ReportSpec => []NoLostReport
<1>1. ReportInv => NoLostReport
  BY DEF ReportInv
<1> QED
  BY <1>1, ReportInvariant, PTL
-----------------------------------------------------------------------------
(* What a host learns of an error                                          *)

Errors == TaskErrors \cup CallErrors
ReaderPlaces == {"idle", "size", "size_own", "copy", "copy_own", "done"}
ReaderStates == [at : ReaderPlaces, len : Nat, result : [of : Errors \cup {NoError}, len : Nat]]

\* What a reader that is under way could have found by the end of a step: what was recorded
\* before and what is recorded now.
LEMMA WitnessedHolds ==
    ASSUME ErrorInv, NEW p \in TaskErrors \cup {NoError}, NEW m \in CallErrors \cup {NoError},
           Witnessed(p, m)
    PROVE  /\ held' \in [Readers -> SUBSET (Errors \cup {NoError})]
           /\ \A r \in Readers : held[r] \subseteq held'[r]
           /\ \A r \in Readers : reader[r].at \in {"idle", "done"} => held'[r] = held[r]
           /\ \A r \in Readers : reader[r].at \notin {"idle", "done"} =>
                 /\ {p, m} \ {NoError} \subseteq held'[r]
                 /\ Effective(p, m) = NoError => NoError \in held'[r]
<1>1. held \in [Readers -> SUBSET (Errors \cup {NoError})]
  BY DEF ErrorInv, Errors
<1>2. \A r \in Readers : held'[r] =
          IF reader[r].at \in {"idle", "done"} THEN held[r]
          ELSE held[r] \cup ({p, m} \ {NoError}) \cup ({Effective(p, m)} \cap {NoError})
  BY DEF Witnessed
<1>3. DOMAIN held' = Readers /\ held' = [r \in Readers |-> held'[r]]
  BY DEF Witnessed
<1>4. \A r \in Readers : held'[r] \in SUBSET (Errors \cup {NoError})
  <2> SUFFICES ASSUME NEW r \in Readers PROVE held'[r] \subseteq Errors \cup {NoError}
    OBVIOUS
  <2>1. held[r] \subseteq Errors \cup {NoError} /\ {p, m} \subseteq Errors \cup {NoError}
    BY <1>1 DEF Errors
  <2>2. QED
    BY <1>2, <2>1
<1>5. held' \in [Readers -> SUBSET (Errors \cup {NoError})]
  BY <1>3, <1>4
<1>6. QED
  BY <1>2, <1>5

\* A step that records an error, or clears one; readers stay where they are.
LEMMA ErrorRecorded ==
    ASSUME ErrorInv, NEW p \in TaskErrors \cup {NoError}, NEW m \in CallErrors \cup {NoError},
           Witnessed(p, m), progress' = p, message' = m, reader' = reader,
           m = NoError => message = NoError
    PROVE  ErrorInv'
<1>1. /\ held' \in [Readers -> SUBSET (Errors \cup {NoError})]
      /\ \A r \in Readers : held[r] \subseteq held'[r]
      /\ \A r \in Readers : reader[r].at \in {"idle", "done"} => held'[r] = held[r]
      /\ \A r \in Readers : reader[r].at \notin {"idle", "done"} =>
            /\ {p, m} \ {NoError} \subseteq held'[r]
            /\ Effective(p, m) = NoError => NoError \in held'[r]
  BY WitnessedHolds
<1>2. ASSUME NEW r \in Readers
      PROVE  /\ reader[r].at \in {"size_own", "copy_own"} /\ m = NoError => NoError \in held'[r]
             /\ reader[r].at \in {"copy", "copy_own"} =>
                   \/ reader[r].len = 1 /\ NoError \in held'[r]
                   \/ \E error \in held'[r] \ {NoError} : reader[r].len = MessageLen(error) + 1
  BY <1>1 DEF ErrorInv
<1>3. MessageIsWhole'
  BY <1>1 DEF ErrorInv, MessageIsWhole
<1>4. QED
  BY <1>1, <1>2, <1>3 DEF ErrorInv, Errors

\* Its length of an error, or of none.
LEMMA ErrorSized ==
    ASSUME ErrorAssumption, ErrorInv, NEW r \in Readers, NEW error \in Errors \cup {NoError},
           reader[r].at \in {"size", "size_own"}, error \in held[r], Sized(r, error),
           UNCHANGED <<progress, message, held>>
    PROVE  ErrorInv'
<1> DEFINE n == IF error = NoError THEN 1 ELSE MessageLen(error) + 1
<1>1. n \in Nat /\ (error # NoError => n = MessageLen(error) + 1) /\ (error = NoError => n = 1)
  BY ErrorAssumption DEF Errors
<1>2. reader \in [Readers -> ReaderStates]
  BY DEF ErrorInv, ReaderStates, ReaderPlaces, Errors
<1>3. reader' = [reader EXCEPT ![r].at = "copy", ![r].len = n]
  BY DEF Sized
<1> HIDE DEF n
<1>4. /\ reader' \in [Readers -> ReaderStates]
      /\ reader'[r].at = "copy" /\ reader'[r].len = n
      /\ \A q \in Readers : q # r => reader'[q] = reader[q]
  BY <1>1, <1>2, <1>3 DEF ReaderStates, ReaderPlaces
<1>5. \/ n = 1 /\ NoError \in held[r]
      \/ \E e \in held[r] \ {NoError} : n = MessageLen(e) + 1
  BY <1>1
<1>6. {progress, message} \ {NoError} \subseteq held[r] /\ (Effective(progress, message) = NoError => NoError \in held[r])
  BY DEF ErrorInv
<1>7. MessageIsWhole'
  BY <1>4 DEF ErrorInv, MessageIsWhole
<1>8. QED
  BY <1>4, <1>5, <1>6, <1>7 DEF ErrorInv, ReaderStates, ReaderPlaces, Errors

\* Its copy of an error, or of none.
LEMMA ErrorCopied ==
    ASSUME ErrorAssumption, ErrorInv, NEW r \in Readers, NEW error \in Errors \cup {NoError},
           reader[r].at \in {"copy", "copy_own"}, error \in held[r], Copied(r, error),
           UNCHANGED <<progress, message, held>>
    PROVE  ErrorInv'
<1> DEFINE found == IF error = NoError \/ MessageLen(error) + 1 > reader[r].len
                    THEN Copy(NoError, 0) ELSE Whole(error)
<1>1. reader \in [Readers -> ReaderStates] /\ reader[r].len \in Nat
  BY DEF ErrorInv, ReaderStates, ReaderPlaces, Errors
<1>2. found \in [of : Errors \cup {NoError}, len : Nat]
  BY ErrorAssumption DEF Copy, Whole, Errors
<1>3. reader' = [reader EXCEPT ![r].at = "done", ![r].result = found]
  BY DEF Copied
<1>4. \/ found.of # NoError /\ found.of \in held[r] /\ found = Whole(found.of)
      \/ /\ found.of = NoError
         /\ \/ NoError \in held[r]
            \/ \E a, b \in held[r] \ {NoError} : MessageLen(a) < MessageLen(b)
  <2>1. CASE error = NoError
    BY <2>1 DEF Copy
  <2>2. CASE error # NoError /\ MessageLen(error) + 1 > reader[r].len
    <3>1. found.of = NoError
      BY <2>2 DEF Copy
    <3>2. CASE NoError \in held[r]
      BY <3>1, <3>2
    <3>3. CASE \E e \in held[r] \ {NoError} : reader[r].len = MessageLen(e) + 1
      <4>1. PICK e \in held[r] \ {NoError} : reader[r].len = MessageLen(e) + 1
        BY <3>3
      <4>2. e \in Errors /\ error \in Errors
        BY <2>2 DEF ErrorInv, Errors
      <4>3. MessageLen(e) \in Nat /\ MessageLen(error) \in Nat
        BY <4>2, ErrorAssumption DEF Errors
      <4>4. MessageLen(e) < MessageLen(error)
        BY <2>2, <4>1, <4>3
      <4>5. QED
        BY <2>2, <3>1, <4>1, <4>4
    <3>4. QED
      BY <3>2, <3>3 DEF ErrorInv
  <2>3. CASE error # NoError /\ ~(MessageLen(error) + 1 > reader[r].len)
    BY <2>3 DEF Copy, Whole
  <2>4. QED
    BY <2>1, <2>2, <2>3
<1> HIDE DEF found
<1>5. /\ reader' \in [Readers -> ReaderStates]
      /\ reader'[r].at = "done" /\ reader'[r].result = found
      /\ \A q \in Readers : q # r => reader'[q] = reader[q]
  BY <1>1, <1>2, <1>3 DEF ReaderStates, ReaderPlaces
<1>6. MessageIsWhole'
  <2> SUFFICES ASSUME NEW q \in Readers, reader'[q].at = "done"
               PROVE  LET result == reader'[q].result
                      IN  IF result.of # NoError THEN result.of \in held'[q] /\ result = Whole(result.of)
                          ELSE \/ NoError \in held'[q]
                               \/ \E a, b \in held'[q] \ {NoError} : MessageLen(a) < MessageLen(b)
    BY DEF MessageIsWhole
  <2>1. CASE q = r
    BY <1>4, <1>5, <2>1
  <2>2. CASE q # r
    BY <1>5, <2>2 DEF ErrorInv, MessageIsWhole
  <2>3. QED
    BY <2>1, <2>2
<1>7. QED
  BY <1>5, <1>6 DEF ErrorInv, ReaderStates, ReaderPlaces, Errors

\* Errors come and go, and what each reader holds stays among those it may have found.
LEMMA ErrorInductive ==
    ASSUME ErrorAssumption, ErrorInv, [ErrorNext]_errorVars
    PROVE  ErrorInv'
<1>1. progress \in TaskErrors \cup {NoError} /\ message \in CallErrors \cup {NoError}
  BY DEF ErrorInv
<1>2. CASE Starts
  BY <1>1, <1>2, ErrorRecorded DEF Starts
<1>3. CASE RunEnds
  <2>1. message' = message /\ reader' = reader
    BY <1>3 DEF RunEnds
  <2>2. CASE UNCHANGED <<progress, errors, held>>
    BY <2>1, <2>2 DEF ErrorInv, MessageIsWhole
  <2>3. CASE progress' \in TaskErrors /\ Witnessed(progress', message)
    <3>1. PICK p \in TaskErrors : p = progress' /\ Witnessed(p, message)
      BY <2>3
    <3>2. QED
      BY <1>1, <2>1, <3>1, ErrorRecorded
  <2>4. QED
    BY <1>3, <2>2, <2>3 DEF RunEnds
<1>4. CASE StoreMessage
  <2>1. PICK m \in CallErrors : m = message' /\ Witnessed(progress, m)
    BY <1>4 DEF StoreMessage
  <2>2. progress' = progress /\ reader' = reader /\ m # NoError
    BY <1>4, ErrorAssumption DEF StoreMessage
  <2>3. QED
    BY <1>1, <2>1, <2>2, ErrorRecorded
<1>5. CASE StoreStatus \/ UNCHANGED errorVars
  BY <1>5 DEF StoreStatus, errorVars, recorded, ErrorInv, MessageIsWhole
<1>6. ASSUME NEW r \in Readers, AskForMessage(r) PROVE ErrorInv'
  <2> DEFINE now == ({progress, message} \ {NoError}) \cup ({Effective(progress, message)} \cap {NoError})
             first == [at |-> "size", len |-> 0, result |-> Copy(NoError, 0)]
  <2>1. reader \in [Readers -> ReaderStates] /\ held \in [Readers -> SUBSET (Errors \cup {NoError})]
    BY DEF ErrorInv, ReaderStates, ReaderPlaces, Errors
  <2>2. /\ reader' = [reader EXCEPT ![r] = first] /\ held' = [held EXCEPT ![r] = now]
        /\ progress' = progress /\ message' = message
    BY <1>6 DEF AskForMessage, recorded
  <2>3. now \in SUBSET (Errors \cup {NoError}) /\ first \in ReaderStates /\ first.at = "size"
    BY <1>1 DEF Errors, ReaderStates, ReaderPlaces, Copy
  <2>4. {progress, message} \ {NoError} \subseteq now /\ (Effective(progress, message) = NoError => NoError \in now)
    OBVIOUS
  <2> HIDE DEF now, first
  <2>5. /\ reader' \in [Readers -> ReaderStates] /\ held' \in [Readers -> SUBSET (Errors \cup {NoError})]
        /\ reader'[r].at = "size" /\ held'[r] = now
        /\ \A q \in Readers : q # r => reader'[q] = reader[q] /\ held'[q] = held[q]
    BY <2>1, <2>2, <2>3
  <2>6. MessageIsWhole'
    BY <2>5 DEF ErrorInv, MessageIsWhole
  <2>7. QED
    BY <1>1, <2>2, <2>4, <2>5, <2>6 DEF ErrorInv, ReaderStates, ReaderPlaces, Errors
<1>7. ASSUME NEW r \in Readers, ReadProgress(r) PROVE ErrorInv'
  <2>1. reader[r].at \in {"size", "copy"} /\ UNCHANGED <<progress, message, held>>
    BY <1>7 DEF ReadProgress, recorded
  <2>2. CASE progress # NoError
    <3>1. progress \in Errors \cup {NoError} /\ progress \in held[r] /\ Answer(r, progress)
      BY <1>1, <1>7, <2>1, <2>2 DEF ReadProgress, ErrorInv, Errors
    <3>2. PICK e \in Errors \cup {NoError} : e = progress /\ e \in held[r] /\ Answer(r, e)
      BY <3>1
    <3>3. QED
      BY <2>1, <3>2, ErrorSized, ErrorCopied DEF Answer
  <2>3. CASE progress = NoError
    <3>1. PICK next \in {"size_own", "copy_own"} :
              /\ reader' = [reader EXCEPT ![r].at = next]
              /\ next = "copy_own" => reader[r].at = "copy"
      BY <1>7, <2>1, <2>3 DEF ReadProgress
    <3>2. reader \in [Readers -> ReaderStates]
      BY DEF ErrorInv, ReaderStates, ReaderPlaces, Errors
    <3>3. /\ reader' \in [Readers -> ReaderStates]
          /\ reader'[r].at = next /\ reader'[r].len = reader[r].len
          /\ \A q \in Readers : q # r => reader'[q] = reader[q]
      BY <3>1, <3>2 DEF ReaderStates, ReaderPlaces
    <3>4. message = NoError => NoError \in held[r]
      BY <2>1, <2>3 DEF ErrorInv, Effective
    <3>5. next = "copy_own" =>
              \/ reader[r].len = 1 /\ NoError \in held[r]
              \/ \E error \in held[r] \ {NoError} : reader[r].len = MessageLen(error) + 1
      BY <3>1 DEF ErrorInv
    <3>6. {progress, message} \ {NoError} \subseteq held[r] /\ (Effective(progress, message) = NoError => NoError \in held[r])
      BY <2>1 DEF ErrorInv
    <3>7. MessageIsWhole'
      BY <2>1, <3>3 DEF ErrorInv, MessageIsWhole
    <3>8. QED
      BY <1>1, <2>1, <3>3, <3>4, <3>5, <3>6, <3>7 DEF ErrorInv, ReaderStates, ReaderPlaces, Errors
  <2>4. QED
    BY <2>2, <2>3
<1>8. ASSUME NEW r \in Readers, ReadMessage(r) PROVE ErrorInv'
  <2>1. reader[r].at \in {"size_own", "copy_own"} /\ UNCHANGED <<progress, message, held>> /\ Answer(r, message)
    BY <1>8 DEF ReadMessage, recorded
  <2>2. PICK e \in Errors \cup {NoError} : e = message /\ e \in held[r] /\ Answer(r, e)
    BY <1>1, <2>1 DEF ErrorInv, Errors
  <2>3. QED
    BY <2>1, <2>2, ErrorSized, ErrorCopied DEF Answer
<1>9. QED
  BY <1>2, <1>3, <1>4, <1>5, <1>6, <1>7, <1>8 DEF ErrorNext

\* What a reader of an error has found, and the length it was told, are those of errors
\* recorded since it began, for any number of readers and errors of any lengths.
THEOREM ErrorInvariant == ErrorSpec => []ErrorInv
<1>1. ErrorInit => ErrorInv
  BY DEF ErrorInit, ErrorInv, MessageIsWhole, Copy
<1>2. QED
  BY <1>1, ErrorInductive, ErrorAssumption, PTL DEF ErrorSpec

\* A message read through last_error is whole and of an error recorded meanwhile, and none
\* only for the reasons MessageIsWhole names.
THEOREM MessageAlwaysWhole == ErrorSpec => []MessageIsWhole
<1>1. ErrorInv => MessageIsWhole
  BY DEF ErrorInv
<1>2. QED
  BY <1>1, ErrorInvariant, PTL
-----------------------------------------------------------------------------
(* The digest that is verified                                             *)

\* What a binding may make of options: a refusal, or a configuration that says all the
\* options say.
Sound(outcome) ==
    \/ outcome.config = Refused
    \/ /\ outcome.config \in Digests
       /\ outcome.wanted \subseteq {outcome.config} \ {NoHash}

\* from_expected_bytes has the value it was given, or refuses.
LEMMA ExpectedBytes ==
    ASSUME NEW k \in Kinds \cup {"sha256"}, NEW len, NEW value
    PROVE  FromExpectedBytes(k, len, value) \in {Refused, Hash(k, value)}
  BY OptionAssumption DEF FromExpectedBytes

\* A configuration that says what its text says is sound.
LEMMA HashSound ==
    ASSUME NEW k \in Kinds \cup {"sha256"}, NEW value \in Contents
    PROVE  /\ Sound(Outcome(Refused, {Hash(k, value)}))
           /\ Sound(Outcome(Hash(k, value), {Hash(k, value)}))
<1>1. k # "none" /\ k # "refused"
  BY OptionAssumption
<1>2. Hash(k, value) # NoHash /\ Hash(k, value) # Refused
  BY <1>1 DEF Hash, NoHash, Refused
<1>3. Hash(k, value) \in Digests
  BY DEF Digests
<1>4. QED
  BY <1>2, <1>3 DEF Sound, Outcome

\* No hash is a configuration, too.
LEMMA NoHashSound ==
    /\ Sound(Outcome(NoHash, {}))
    /\ \A wanted : Sound(Outcome(Refused, wanted))
  BY DEF Sound, Outcome, Digests

\* A text that is not refused says its own value, of the algorithm asked for.
LEMMA PartsSound ==
    ASSUME NEW k \in Kinds \cup {"sha256"}, NEW text \in Texts
    PROVE  Sound(Outcome(HashConfigFromParts(k, text), {Hash(k, text.value)}))
<1>1. Stripped(k, text).value = text.value
  BY DEF Stripped, Texts
<1>2. CASE HashConfigFromParts(k, text) = Refused
  BY <1>2 DEF Sound, Outcome
<1>3. CASE HashConfigFromParts(k, text) # Refused
  <2>1. text.value # Garbage
    BY <1>3 DEF HashConfigFromParts
  <2>2. text.value \in Contents
    BY <2>1 DEF Texts
  <2>3. PICK len : HashConfigFromParts(k, text) = FromExpectedBytes(k, len, text.value)
    BY <1>3 DEF HashConfigFromParts
  <2>4. HashConfigFromParts(k, text) = Hash(k, text.value)
    BY <1>3, <2>3, ExpectedBytes
  <2>5. QED
    BY <2>2, <2>4, HashSound
<1>4. QED
  BY <1>2, <1>3

\* The options of Node, Tauri and Godot.
LEMMA StringsSound ==
    ASSUME NEW outcome \in StringOutcomes \cup {Outcome(Refused, {})}
    PROVE  Sound(outcome)
<1>1. CASE outcome = Outcome(Refused, {})
  BY <1>1, NoHashSound
<1>2. ASSUME NEW o \in StringOptions PROVE Sound(Outcome(HashConfig(o), Wanted(o)))
  <2>1. CASE o.hash = Nothing /\ o.sha256 = Nothing
    BY <2>1, NoHashSound DEF HashConfig, Wanted
  <2>2. CASE o.hash = Nothing /\ o.sha256 # Nothing
    <3>1. o.sha256 \in Texts
      BY <2>2 DEF StringOptions
    <3>2. HashConfig(o) = HashConfigFromParts("sha256", o.sha256)
      BY <2>2 DEF HashConfig
    <3>3. Wanted(o) = {Hash("sha256", o.sha256.value)}
      BY <2>2 DEF Wanted
    <3>4. QED
      BY <3>1, <3>2, <3>3, PartsSound
  <2>3. CASE o.hash # Nothing /\ o.sha256 = Nothing
    <3>1. o.hash.expected \in Texts
      BY <2>3 DEF StringOptions
    <3>2. Wanted(o) = {Hash(o.hash.kind, o.hash.expected.value)}
      BY <2>3 DEF Wanted
    <3>3. CASE o.hash.kind \in Kinds
      <4>1. HashConfig(o) = HashConfigFromParts(o.hash.kind, o.hash.expected)
        BY <2>3, <3>3 DEF HashConfig
      <4>2. QED
        BY <3>1, <3>2, <3>3, <4>1, PartsSound
    <3>4. CASE o.hash.kind \notin Kinds
      <4>1. HashConfig(o) = Refused
        BY <2>3, <3>4 DEF HashConfig
      <4>2. QED
        BY <4>1, NoHashSound
    <3>5. QED
      BY <3>3, <3>4
  <2>4. CASE o.hash # Nothing /\ o.sha256 # Nothing
    <3>1. HashConfig(o) = Refused
      BY <2>4 DEF HashConfig
    <3>2. QED
      BY <3>1, NoHashSound
  <2>5. QED
    BY <2>1, <2>2, <2>3, <2>4
<1>3. QED
  BY <1>1, <1>2 DEF StringOutcomes

\* The arguments of the command line.
LEMMA ArgumentsSound == \A outcome \in CliOutcomes : Sound(outcome)
<1>1. ASSUME NEW text \in Texts, NEW name \in Names,
             text.prefix = "none" /\ text.value # Garbage /\ name \in Kinds
      PROVE  Sound(Outcome(FromExpectedBytes(name, ExpectedLen(text.of), text.value),
                           {Hash(name, text.value)}))
  <2>1. text.value \in Contents
    BY <1>1 DEF Texts
  <2>2. FromExpectedBytes(name, ExpectedLen(text.of), text.value)
            \in {Refused, Hash(name, text.value)}
    BY <1>1, ExpectedBytes
  <2>3. QED
    BY <1>1, <2>1, <2>2, HashSound
<1>2. ASSUME NEW text \in Texts, NEW name \in Names
      PROVE  Sound(Outcome(IF text.prefix = "none" /\ text.value # Garbage /\ name \in Kinds
                           THEN FromExpectedBytes(name, ExpectedLen(text.of), text.value)
                           ELSE Refused,
                           {Hash(name, text.value)}))
  BY <1>1, NoHashSound
<1>3. SUFFICES ASSUME NEW outcome \in CliOutcomes, outcome # Outcome(NoHash, {})
               PROVE  Sound(outcome)
  BY NoHashSound
<1>4. PICK text \in Texts, name \in Names :
          outcome = Outcome(IF text.prefix = "none" /\ text.value # Garbage /\ name \in Kinds
                            THEN FromExpectedBytes(name, ExpectedLen(text.of), text.value)
                            ELSE Refused,
                            {Hash(name, text.value)})
  BY <1>3 DEF CliOutcomes
<1>5. QED
  BY <1>2, <1>4

\* The arguments of the C ABI.
LEMMA PointersSound == \A outcome \in COutcomes : Sound(outcome)
<1>1. ASSUME NEW code \in {Code(k) : k \in Kinds} \cup {0, 6}
      PROVE  FromCode(code) \in Kinds \cup {"none", "refused"}
  <2>1. FromCode(0) = "none" /\ FromCode(6) = "refused"
    BY DEF FromCode
  <2>2. \A k \in Kinds : FromCode(Code(k)) = k
    BY OptionAssumption DEF FromCode, Code
  <2>3. QED
    BY <2>1, <2>2
<1>2. ASSUME NEW k \in Kinds \cup {"none", "refused"}, NEW pointer \in BOOLEAN,
             NEW len, NEW value \in Contents
      PROVE  Sound(Outcome(IF k # "none" /\ ~pointer THEN Refused
                           ELSE FromExpectedBytes(k, len, value),
                           IF k = "none" THEN {} ELSE {Hash(k, value)}))
  <2>1. CASE k = "none"
    <3>1. FromExpectedBytes(k, len, value) \in {Refused, NoHash}
      BY <2>1 DEF FromExpectedBytes
    <3>2. QED
      BY <2>1, <3>1, NoHashSound
  <2>2. CASE k = "refused"
    <3>1. FromExpectedBytes(k, len, value) = Refused
      BY <2>2 DEF FromExpectedBytes
    <3>2. QED
      BY <2>2, <3>1, NoHashSound
  <2>3. CASE k \in Kinds
    <3>1. FromExpectedBytes(k, len, value) \in {Refused, Hash(k, value)}
      BY <2>3, ExpectedBytes
    <3>2. k # "none"
      BY <2>3, OptionAssumption
    <3>3. QED
      BY <2>3, <3>1, <3>2, HashSound, NoHashSound
  <2>4. QED
    BY <2>1, <2>2, <2>3
<1>3. SUFFICES ASSUME NEW o \in COutcomes PROVE Sound(o)
  OBVIOUS
<1>4. PICK code \in {Code(k) : k \in Kinds} \cup {0, 6}, pointer \in BOOLEAN,
           of \in Kinds \cup {"none"}, value \in Contents :
          o = COutcome(FromCode(code), pointer, of, value)
  BY DEF COutcomes
<1>5. PICK k \in Kinds \cup {"none", "refused"} : k = FromCode(code)
  BY <1>1
<1>6. PICK len : len = ExpectedLen(of)
  OBVIOUS
<1>7. o = Outcome(IF k # "none" /\ ~pointer THEN Refused
                        ELSE FromExpectedBytes(k, len, value),
                        IF k = "none" THEN {} ELSE {Hash(k, value)})
  BY <1>4, <1>5, <1>6 DEF COutcome
<1>8. QED
  BY <1>2, <1>7

\* What is stored of a hash is read back as the same hash.
LEMMA HashRoundTrip ==
    ASSUME NEW config \in Digests
    PROVE  Decoded(Encoded(config)) = config /\ Encoded(config) # NoSlot
<1>1. config.kind \in {"none", "sha1", "sha256", "sha512", "md5", "crc32"}
  BY OptionAssumption DEF Digests, NoHash, Hash
<1>2. config = Hash(config.kind, config.value)
  BY DEF Digests, NoHash, Hash
<1>3. config.kind = "none" => config = NoHash
  BY OptionAssumption DEF Digests, NoHash, Hash
<1>4. FromCode(Code(config.kind)) = config.kind /\ Code(config.kind) # -1
  BY <1>1 DEF FromCode, Code
<1>5. Decoded(Encoded(config)) =
          FromExpectedBytes(config.kind, ExpectedLen(config.kind), config.value)
  BY <1>4 DEF Decoded, Encoded
<1>6. config.kind # "refused"
  BY <1>1
<1>7. QED
  BY <1>2, <1>3, <1>4, <1>5, <1>6 DEF FromExpectedBytes, Encoded, NoSlot

\* Whoever has made a handle wants what its configuration says, and has nothing open.
LEMMA ConfiguredKeeps ==
    ASSUME OptionInv, NEW c \in Askers, NEW outcome, Sound(outcome), Configured(c, outcome)
    PROVE  OptionInv'
<1>1. PICK mine \in [at : {"idle", "configured"}, config : Digests, wanted : SUBSET Digests,
                     got : Contents \cup {Nothing}] :
          /\ caller' = [caller EXCEPT ![c] = mine]
          /\ mine.wanted \subseteq {mine.config} \ {NoHash}
  <2>1. CASE outcome.config = Refused
    <3>1. NoHash \in Digests
      BY DEF Digests
    <3>2. PICK mine \in [at : {"idle", "configured"}, config : Digests, wanted : SUBSET Digests,
                         got : Contents \cup {Nothing}] :
              mine = [at |-> "idle", config |-> NoHash, wanted |-> {}, got |-> Nothing]
      BY <3>1
    <3>3. caller' = [caller EXCEPT ![c] = mine]
      BY <2>1, <3>2 DEF Configured
    <3>4. QED
      BY <3>2, <3>3
  <2>2. CASE outcome.config # Refused
    <3>1. outcome.config \in Digests /\ outcome.wanted \subseteq {outcome.config} \ {NoHash}
      BY <2>2 DEF Sound
    <3>2. outcome.wanted \in SUBSET Digests
      BY <3>1
    <3>3. QED
      <4>1. PICK mine \in [at : {"idle", "configured"}, config : Digests, wanted : SUBSET Digests,
                           got : Contents \cup {Nothing}] :
                mine = [at |-> "configured", config |-> outcome.config,
                        wanted |-> outcome.wanted, got |-> Nothing]
        BY <3>1, <3>2
      <4>2. caller' = [caller EXCEPT ![c] = mine]
        BY <2>2, <4>1 DEF Configured
      <4>3. QED
        BY <3>1, <4>1, <4>2
  <2>3. QED
    BY <2>1, <2>2
<1>2. UNCHANGED slot
  BY DEF Configured
<1>3. /\ caller' \in [Askers -> [at : {"idle", "configured", "open", "done"}, config : Digests,
                                 wanted : SUBSET Digests, got : Contents \cup {Nothing}]]
      /\ caller'[c] = mine /\ \A d \in Askers : d # c => caller'[d] = caller[d]
  BY <1>1 DEF OptionInv
<1>4. mine.at \notin {"open", "done"}
  OBVIOUS
<1>5. QED
  BY <1>1, <1>2, <1>3, <1>4 DEF OptionInv, AskedIsVerified

\* No step lets a caller on a part file whose digest is another than its own.
LEMMA OptionInductive == OptionInv /\ [OptionNext]_optionVars => OptionInv'
<1>1. SUFFICES ASSUME OptionInv, [OptionNext]_optionVars PROVE OptionInv'
  OBVIOUS
<1>2. CASE UNCHANGED optionVars
  BY <1>1, <1>2 DEF OptionInv, AskedIsVerified, optionVars
<1>3. ASSUME NEW c \in Askers,
             \/ NodeConfigure(c) \/ TauriConfigure(c) \/ GodotConfigure(c)
             \/ CliConfigure(c) \/ CConfigure(c)
      PROVE  OptionInv'
  <2>1. PICK outcome : Sound(outcome) /\ Configured(c, outcome)
    BY <1>3, StringsSound, ArgumentsSound, PointersSound
       DEF NodeConfigure, TauriConfigure, GodotConfigure, CliConfigure, CConfigure
  <2>2. QED
    BY <1>1, <2>1, ConfiguredKeeps
<1>4. ASSUME NEW c \in Askers, Open(c) PROVE OptionInv'
  <2>1. caller[c].config \in Digests /\ caller' = [caller EXCEPT ![c].at = "open"]
    BY <1>1, <1>4 DEF OptionInv, Open
  <2>2. slot' = Encoded(caller[c].config)
    <3>1. CASE slot = NoSlot
      BY <1>4, <3>1 DEF Open
    <3>2. CASE slot # NoSlot
      <4>1. PICK config \in Digests : slot = Encoded(config)
        BY <1>1, <3>2 DEF OptionInv
      <4>2. Decoded(slot) = caller[c].config /\ slot' = slot
        BY <1>4, <3>2 DEF Open, Compatible
      <4>3. QED
        BY <4>1, <4>2, HashRoundTrip
    <3>3. QED
      BY <3>1, <3>2
  <2>3. /\ caller' \in [Askers -> [at : {"idle", "configured", "open", "done"}, config : Digests,
                                 wanted : SUBSET Digests, got : Contents \cup {Nothing}]]
        /\ caller'[c].at = "open" /\ caller'[c].config = caller[c].config
        /\ caller'[c].wanted = caller[c].wanted
        /\ \A d \in Askers : d # c => caller'[d] = caller[d]
    BY <1>1, <2>1 DEF OptionInv
  <2>4. \A d \in Askers : caller[d].at # "open"
    BY <1>4 DEF Open
  <2>5. QED
    BY <1>1, <2>1, <2>2, <2>3, <2>4 DEF OptionInv, AskedIsVerified
<1>5. ASSUME NEW c \in Askers, LeaveRun(c) PROVE OptionInv'
  BY <1>1, <1>5 DEF OptionInv, LeaveRun, AskedIsVerified
<1>6. ASSUME NEW c \in Askers, FinalizeRun(c) PROVE OptionInv'
  <2>1. caller[c].at = "open" /\ caller[c].config \in Digests /\ slot = Encoded(caller[c].config)
    BY <1>1, <1>6 DEF OptionInv, FinalizeRun
  <2>2. Decoded(slot) = caller[c].config
    BY <2>1, HashRoundTrip
  <2>3. PICK content \in Contents :
            IF Decoded(slot) = NoHash \/ Decoded(slot).value = content
            THEN /\ slot' = NoSlot
                 /\ caller' = [caller EXCEPT ![c].at = "done", ![c].got = content]
            ELSE caller' = [caller EXCEPT ![c].at = "configured"] /\ UNCHANGED slot
    BY <1>6 DEF FinalizeRun
  <2>4. CASE ~(Decoded(slot) = NoHash \/ Decoded(slot).value = content)
    BY <1>1, <2>1, <2>3, <2>4 DEF OptionInv, AskedIsVerified
  <2>5. CASE Decoded(slot) = NoHash \/ Decoded(slot).value = content
    <3>1. \A w \in caller[c].wanted : w.value = content
      BY <1>1, <2>2, <2>5 DEF OptionInv
    <3>2. /\ caller' \in [Askers -> [at : {"idle", "configured", "open", "done"}, config : Digests,
                                 wanted : SUBSET Digests, got : Contents \cup {Nothing}]]
          /\ caller'[c].at = "done" /\ caller'[c].config = caller[c].config
          /\ caller'[c].wanted = caller[c].wanted /\ caller'[c].got = content
          /\ \A d \in Askers : d # c => caller'[d] = caller[d]
      BY <1>1, <2>3, <2>5 DEF OptionInv
    <3>3. \A d \in Askers : caller'[d].at # "open"
      BY <1>1, <2>1, <3>2 DEF OptionInv
    <3>4. QED
      BY <1>1, <2>3, <2>5, <3>1, <3>2, <3>3 DEF OptionInv, AskedIsVerified
  <2>6. QED
    BY <2>4, <2>5
<1>7. CASE Clear
  BY <1>1, <1>7 DEF OptionInv, Clear, AskedIsVerified
<1>8. QED
  BY <1>1, <1>2, <1>3, <1>4, <1>5, <1>6, <1>7 DEF OptionNext

\* Whoever has a handle wants what its configuration says, in whichever binding's form it
\* said so, and whoever has the part file open has that stored, for any algorithms and
\* contents and any number of callers.
THEOREM OptionInvariant == OptionSpec => []OptionInv
<1>1. OptionInit => OptionInv
  BY DEF OptionInit, OptionInv, AskedIsVerified, Digests, NoHash
<1>2. QED
  BY <1>1, OptionInductive, PTL DEF OptionSpec

\* A caller that is told its download is complete has the content it asked for.
THEOREM AskedAlwaysVerified == OptionSpec => []AskedIsVerified
<1>1. OptionInv => AskedIsVerified
  BY DEF OptionInv
<1>2. QED
  BY <1>1, OptionInvariant, PTL
-----------------------------------------------------------------------------
(* The JavaScript facade                                                   *)

\* A method begins: it awaits the promise there is, or makes one when no create is
\* under way.
LEMMA EnsureKeeps ==
    ASSUME JsInv, NEW c \in Callers, NEW op \in {"start", "progress", "speed"},
           EnsureTask(c, op)
    PROVE  JsInv'
<1>1. PICK p \in Creates :
          /\ call' = [call EXCEPT ![c] = [Idle EXCEPT !.op = op, !.at = "task", !.p = p]]
          /\ \/ p = promise /\ UNCHANGED <<promise, creation>>
             \/ /\ promise = 0 /\ promise' = p
                /\ creation' = [creation EXCEPT ![p] = "sent"]
  BY DEF EnsureTask, JsInv
<1>2. PICK mine \in CallStates : mine = [Idle EXCEPT !.op = op, !.at = "task", !.p = p]
  BY DEF CallStates, Idle
<1>3. mine.at = "task"
  BY <1>2 DEF Idle
<1>4. /\ call' \in [Callers -> CallStates]
      /\ call'[c] = mine /\ \A d \in Callers : d # c => call'[d] = call[d]
  BY <1>1, <1>2 DEF JsInv
<1>5. ~closed /\ UNCHANGED <<closed, registry>>
  BY DEF EnsureTask, native
<1>6. \A d \in Callers : Stands(d, "removing")' => closed'
  BY <1>3, <1>4, <1>5 DEF JsInv, Stands
<1>7. CASE p = promise /\ UNCHANGED <<promise, creation>>
  BY <1>4, <1>5, <1>6, <1>7 DEF JsInv, Begun
<1>8. CASE promise = 0 /\ promise' = p /\ creation' = [creation EXCEPT ![p] = "sent"]
  <2>1. Begun = {}
    BY <1>5, <1>8 DEF JsInv, Begun, Creates
  <2>2. /\ creation' \in [Creates -> {"none", "sent", "made", "refused", "fulfilled", "rejected"}]
        /\ creation'[p] = "sent" /\ \A q \in Creates : q # p => creation'[q] = creation[q]
    BY <1>8 DEF JsInv
  <2>3. Begun' = {p}
    BY <2>1, <2>2 DEF Begun
  <2>4. registry = {}
    BY <2>1 DEF JsInv, Begun
  <2>5. QED
    BY <1>4, <1>5, <1>6, <1>8, <2>2, <2>3, <2>4 DEF JsInv
<1>9. QED
  BY <1>1, <1>7, <1>8

\* A create is executed, or its promise settles.
LEMMA CreationKeeps ==
    ASSUME JsInv, NEW p \in Creates, CreateCommand(p) \/ Settle(p)
    PROVE  JsInv'
<1>1. /\ UNCHANGED <<closed, call>>
      /\ \A d \in Callers : Stands(d, "removing")' = Stands(d, "removing")
  BY DEF CreateCommand, Settle, Stands
<1>2. PICK made \in {"made", "refused", "fulfilled", "rejected"} :
          /\ creation' = [creation EXCEPT ![p] = made]
          /\ creation[p] \notin {"none", "rejected", "fulfilled"}
          /\ made = "rejected" => creation[p] = "refused" /\ promise' = 0
          /\ made # "rejected" => promise' = promise
          /\ made = "refused" => creation[p] = "sent"
          /\ registry' = IF made = "made" THEN registry \cup {p} ELSE registry
  <2>1. CASE CreateCommand(p)
    BY <2>1 DEF CreateCommand
  <2>2. CASE Settle(p)
    BY <2>2 DEF Settle, native
  <2>3. QED
    BY <2>1, <2>2
<1>3. /\ creation' \in [Creates -> {"none", "sent", "made", "refused", "fulfilled", "rejected"}]
      /\ creation'[p] = made /\ \A q \in Creates : q # p => creation'[q] = creation[q]
  BY <1>2 DEF JsInv
<1>4. p \in Begun
  BY <1>2 DEF Begun
<1>5. Begun' = IF made = "rejected" THEN Begun \ {p} ELSE Begun
  BY <1>2, <1>3, <1>4 DEF Begun
<1>6. \A q \in Begun : q = p
  BY <1>4 DEF JsInv
<1>7. registry' \subseteq {q \in Creates : creation'[q] \in {"made", "fulfilled"}}
  BY <1>2, <1>3 DEF JsInv
<1>8. promise' \in Creates \cup {0}
  BY <1>2 DEF JsInv
<1>9. QED
  BY <1>1, <1>2, <1>3, <1>5, <1>6, <1>7, <1>8 DEF JsInv

\* A call goes on.
LEMMA CallKeeps ==
    ASSUME JsInv, NEW c \in Callers, GoesOn(c) \/ CloseBegins(c)
    PROVE  JsInv'
<1>1. PICK mine \in CallStates :
          /\ call' = [call EXCEPT ![c] = mine]
          /\ mine.at = "removing" => closed'
  <2>1. Idle \in CallStates /\ Idle.at = "idle"
    BY DEF Idle, CallStates
  <2>2. call[c] \in CallStates
    BY DEF JsInv
  <2>3. CASE Return(c)
    BY <2>1, <2>3 DEF Return
  <2>4. ASSUME NEW next \in {"command", "snapshot"}, GoesTo(c, next)
        PROVE  \E mine \in CallStates : call' = [call EXCEPT ![c] = mine] /\ mine.at # "removing"
    <3>1. PICK mine \in CallStates : mine = [call[c] EXCEPT !.at = next]
      BY <2>2 DEF CallStates
    <3>2. mine.at = next
      BY <2>2, <3>1 DEF CallStates
    <3>3. call' = [call EXCEPT ![c] = mine]
      BY <2>4, <3>1 DEF GoesTo
    <3>4. QED
      BY <3>2, <3>3
  <2>5. ASSUME NEW l \in Listeners, call' = [call EXCEPT ![c].at = "listening", ![c].l = l]
        PROVE  \E mine \in CallStates : call' = [call EXCEPT ![c] = mine] /\ mine.at # "removing"
    <3>1. PICK mine \in CallStates : mine = [call[c] EXCEPT !.at = "listening", !.l = l]
      BY <2>2 DEF CallStates
    <3>2. mine.at = "listening"
      BY <2>2, <3>1 DEF CallStates
    <3>3. call' = [call EXCEPT ![c] = mine]
      BY <2>5, <3>1 DEF JsInv
    <3>4. QED
      BY <3>2, <3>3
  <2>6. ASSUME call' = [call EXCEPT ![c].at = "closing", ![c].p = promise]
        PROVE  \E mine \in CallStates : call' = [call EXCEPT ![c] = mine] /\ mine.at # "removing"
    <3>1. PICK mine \in CallStates : mine = [call[c] EXCEPT !.at = "closing", !.p = promise]
      BY <2>2 DEF CallStates, JsInv
    <3>2. mine.at = "closing"
      BY <2>2, <3>1 DEF CallStates
    <3>3. call' = [call EXCEPT ![c] = mine]
      BY <2>6, <3>1 DEF JsInv
    <3>4. QED
      BY <3>2, <3>3
  <2>7. CASE CloseBegins(c)
    <3>1. PICK mine \in CallStates : mine = [Idle EXCEPT !.op = "close", !.at = "removing"]
      BY DEF CallStates, Idle
    <3>2. call' = [call EXCEPT ![c] = mine] /\ closed'
      BY <2>7, <3>1 DEF CloseBegins
    <3>3. QED
      BY <3>2
  <2>8. CASE GoesOn(c)
    <3>1. \/ Return(c) \/ GoesTo(c, "command") \/ GoesTo(c, "snapshot")
          \/ \E l \in Listeners : call' = [call EXCEPT ![c].at = "listening", ![c].l = l]
          \/ call' = [call EXCEPT ![c].at = "closing", ![c].p = promise]
      BY <2>8 DEF GoesOn, Awaited, StartCommand, Listen, SpeedListened, ProgressListened,
                  FirstSnapshot, CloseTakesPromise, CloseCommand
    <3>2. QED
      BY <2>1, <2>3, <2>4, <2>5, <2>6, <3>1
  <2>9. QED
    BY <2>7, <2>8
<1>2. /\ call' \in [Callers -> CallStates]
      /\ call'[c] = mine /\ \A d \in Callers : d # c => call'[d] = call[d]
  BY <1>1 DEF JsInv
<1>3. /\ UNCHANGED creation /\ registry' \subseteq registry
      /\ closed' = (closed \/ CloseBegins(c))
      /\ promise' = promise \/ (promise' = 0 /\ closed)
  <2>1. CASE CloseBegins(c)
    BY <2>1 DEF CloseBegins, JsInv
  <2>2. CASE CloseTakesPromise(c)
    BY <2>2 DEF CloseTakesPromise, JsInv, CloseBegins, native
  <2>3. CASE CloseCommand(c)
    BY <2>3 DEF CloseCommand, CloseBegins, JsInv
  <2>4. CASE ProgressListened(c) \/ FirstSnapshot(c) \/ Listen(c) \/ SpeedListened(c)
    BY <2>4 DEF ProgressListened, FirstSnapshot, Listen, SpeedListened, CloseBegins, JsInv, native
  <2>5. CASE Awaited(c) \/ StartCommand(c)
    BY <2>5 DEF Awaited, StartCommand, CloseBegins, JsInv, native
  <2>6. QED
    BY <2>1, <2>2, <2>3, <2>4, <2>5 DEF GoesOn
<1>4. \A d \in Callers : Stands(d, "removing")' => closed'
  BY <1>1, <1>2, <1>3 DEF JsInv, Stands
<1>5. Begun' = Begun
  BY <1>3 DEF Begun
<1>6. closed' \in BOOLEAN /\ promise' \in Creates \cup {0}
  BY <1>3 DEF JsInv
<1>7. registry' \subseteq {p \in Creates : creation'[p] \in {"made", "fulfilled"}}
  BY <1>3 DEF JsInv
<1>8. closed' \/ \A p \in Begun' : promise' = p
  BY <1>3, <1>5 DEF JsInv
<1>9. QED
  BY <1>2, <1>3, <1>4, <1>5, <1>6, <1>7, <1>8 DEF JsInv

\* No await leaves a create without its promise or a promise without its create.
LEMMA JsInductive == JsInv /\ [JsNext]_jsVars => JsInv'
<1>1. SUFFICES ASSUME JsInv, [JsNext]_jsVars PROVE JsInv'
  OBVIOUS
<1>2. CASE UNCHANGED jsVars
  <2>1. /\ UNCHANGED <<promise, closed, call, creation, registry>>
        /\ \A c \in Callers : Stands(c, "removing")' = Stands(c, "removing")
        /\ Begun' = Begun
    BY <1>2 DEF jsVars, native, Stands, Begun
  <2>2. QED
    BY <1>1, <2>1 DEF JsInv
<1>3. ASSUME NEW l \in Listeners, RemoveListener(l) PROVE JsInv'
  <2>1. /\ UNCHANGED <<promise, closed, call, creation, registry>>
        /\ \A c \in Callers : Stands(c, "removing")' = Stands(c, "removing")
        /\ Begun' = Begun
    BY <1>3 DEF RemoveListener, Stands, Begun
  <2>2. QED
    BY <1>1, <2>1 DEF JsInv
<1>4. QED
  BY <1>1, <1>2, <1>3, EnsureKeeps, CreationKeeps, CallKeeps DEF JsNext

\* One create at most is under way or has its native task, and until the close its promise
\* is the facade's, for any number of calls, creates and listeners.
THEOREM JsInvariant == JsSpec => []JsInv
<1>1. JsInit => JsInv
  <2>1. SUFFICES ASSUME JsInit PROVE JsInv
    OBVIOUS
  <2>2. PICK mine \in CallStates : mine = Idle /\ mine.at = "idle"
    <3>1. Idle \in CallStates /\ Idle.at = "idle"
      BY DEF Idle, CallStates
    <3>2. QED
      BY <3>1
  <2>3. call = [c \in Callers |-> mine]
    BY <2>1, <2>2 DEF JsInit
  <2>4. Begun = {}
    BY <2>1 DEF JsInit, Begun
  <2>5. QED
    BY <2>1, <2>2, <2>3, <2>4 DEF JsInit, JsInv, Stands
<1>2. QED
  BY <1>1, JsInductive, PTL DEF JsSpec

\* However many methods are called before the native task is there, and however many
\* creates are refused, a DownloadTask has one native task at most.
THEOREM AtMostOneTask == JsSpec => []OneNativeTask
<1>1. JsInv => OneNativeTask
  <2>1. SUFFICES ASSUME JsInv PROVE Cardinality(registry) <= 1
    BY DEF OneNativeTask
  <2>2. \A p, q \in registry : p = q
    BY <2>1 DEF JsInv, Begun
  <2>3. CASE registry = {}
    BY <2>3, FS_EmptySet
  <2>4. CASE registry # {}
    <3>1. PICK p : registry = {p}
      BY <2>2, <2>4
    <3>2. QED
      BY <3>1, FS_Singleton
  <2>5. QED
    BY <2>3, <2>4
<1>2. QED
  BY <1>1, JsInvariant, PTL
-----------------------------------------------------------------------------
(* The Godot node                                                          *)

\* What a channel carries.
Events == [of : Configs, ends : BOOLEAN]

\* A batch of events is of the configuration it was sent for.
LEMMA EventOf ==
    \A c \in Configs, ends \in BOOLEAN : Event(c, ends) \in Events /\ Event(c, ends).of = c
  BY DEF Event, Events

\* The tail of what is left to emit is of the same task.
LEMMA TailSilent ==
    ASSUME GodotInv, batch # <<>>
    PROVE  /\ Tail(batch) \in Seq(Events)
           /\ \A i \in DOMAIN Tail(batch) : Tail(batch)[i].of = drained
<1>1. batch \in Seq(Events) /\ \A i \in DOMAIN batch : batch[i].of = drained
  BY DEF GodotInv, OldTasksSilent, Events
<1>2. PICK b \in Seq(Events) : b = batch
  BY <1>1
<1>3. /\ b # <<>> /\ \A i \in 1 .. Len(b) : b[i].of = drained
  BY <1>1, <1>2
<1>4. /\ Tail(b) \in Seq(Events) /\ Len(Tail(b)) = Len(b) - 1
      /\ \A i \in 1 .. Len(Tail(b)) : Tail(b)[i] = b[i + 1] /\ i + 1 \in 1 .. Len(b)
  BY <1>3
<1>5. DOMAIN Tail(b) = 1 .. Len(Tail(b))
  BY <1>4
<1>6. QED
  BY <1>2, <1>3, <1>4, <1>5

\* The methods and what the node is told leave the batch alone, and every channel but
\* that of the node's configuration empty.
LEMMA MethodKeeps ==
    ASSUME GodotInv, Configure \/ Refuse \/ CloseNode \/ Ready \/ StartNode
    PROVE  GodotInv'
<1>1. UNCHANGED <<sending, batch, drained, frame>>
  BY DEF Configure, Refuse, CloseNode, Ready, StartNode, CloseTask, draining
<1>2. CASE Configure
  <2>1. /\ configs' = configs + 1 /\ node' = configs' /\ configs' \in Configs
        /\ channel' = [c \in Configs |-> IF c = configs'
                                   THEN <<Event(c, FALSE), Event(c, FALSE)>> ELSE <<>>]
    BY <1>2, GodotBoundsAssumption DEF Configure, GodotInv, Configs
  <2>2. ASSUME NEW c \in Configs
        PROVE  /\ <<Event(c, FALSE), Event(c, FALSE)>> \in Seq(Events)
               /\ \A i \in DOMAIN <<Event(c, FALSE), Event(c, FALSE)>> :
                      <<Event(c, FALSE), Event(c, FALSE)>>[i].of = c
    <3>1. PICK event \in Events : event = Event(c, FALSE) /\ event.of = c
      BY EventOf
    <3>2. /\ <<event, event>> \in Seq(Events)
          /\ \A i \in DOMAIN <<event, event>> : <<event, event>>[i] = event
      OBVIOUS
    <3>3. QED
      BY <3>1, <3>2
  <2>3. <<>> \in Seq(Events) /\ DOMAIN <<>> = {}
    OBVIOUS
  <2>4. /\ channel' \in [Configs -> Seq(Events)]
        /\ \A c \in Configs : /\ \A i \in DOMAIN channel'[c] : channel'[c][i].of = c
                              /\ c # node' => channel'[c] = <<>>
    BY <2>1, <2>2, <2>3
  <2>5. node' \in 0 .. MaxConfigs /\ configs' \in 0 .. MaxConfigs
    BY <2>1, GodotBoundsAssumption DEF Configs
  <2>6. QED
    BY <1>1, <2>4, <2>5 DEF GodotInv, OldTasksSilent, Events
<1>3. CASE Refuse \/ CloseNode
  <2>1. node' = 0 /\ configs' = configs /\ channel' = [c \in Configs |-> <<>>]
    BY <1>3 DEF Refuse, CloseNode
  <2>2. <<>> \in Seq(Events) /\ DOMAIN <<>> = {}
    OBVIOUS
  <2>3. /\ channel' \in [Configs -> Seq(Events)]
        /\ \A c \in Configs : /\ \A i \in DOMAIN channel'[c] : channel'[c][i].of = c
                              /\ c # node' => channel'[c] = <<>>
    BY <2>1, <2>2
  <2>4. node' \in 0 .. MaxConfigs /\ configs' \in 0 .. MaxConfigs
    BY <2>1, GodotBoundsAssumption DEF GodotInv
  <2>5. QED
    BY <1>1, <2>3, <2>4 DEF GodotInv, OldTasksSilent, Events
<1>4. CASE Ready \/ StartNode
  BY <1>1, <1>4 DEF Ready, StartNode, GodotInv, OldTasksSilent
<1>5. QED
  BY <1>2, <1>3, <1>4

\* A thread of the node's download adds an event of its own.
LEMMA ThreadKeeps ==
    ASSUME GodotInv, Reports \/ TaskEnds \/ EndsAgain
    PROVE  GodotInv'
<1>1. PICK ends \in BOOLEAN : sending' = [sending EXCEPT ![node] = @ \cup {Event(node, ends)}]
  BY DEF Reports, TaskEnds, EndsAgain, Sends
<1>2. node \in Configs
  <2>1. node # 0
    BY DEF Reports, TaskEnds, EndsAgain
  <2>2. QED
    BY <2>1, GodotBoundsAssumption DEF GodotInv, Configs
<1>3. PICK event \in Events : event = Event(node, ends) /\ event.of = node
  BY <1>2, EventOf
<1>4. sending \in [Configs -> SUBSET Events]
  BY DEF GodotInv, Events
<1>5. /\ sending' \in [Configs -> SUBSET Events]
      /\ sending'[node] = sending[node] \cup {event}
      /\ \A c \in Configs : c # node => sending'[c] = sending[c]
  BY <1>1, <1>2, <1>3, <1>4
<1>6. UNCHANGED <<node, configs, channel, batch, drained, frame>>
  BY DEF Reports, TaskEnds, EndsAgain, draining
<1>7. \A c \in Configs : \A e \in sending'[c] : e.of = c
  BY <1>3, <1>5 DEF GodotInv
<1>8. QED
  BY <1>5, <1>6, <1>7 DEF GodotInv, OldTasksSilent, Events

\* An event reaches the channel it was meant for, if its handle is the node's.
LEMMA SendKeeps ==
    ASSUME GodotInv, NEW c \in Configs, TrySend(c)
    PROVE  GodotInv'
<1>1. PICK event \in sending[c] :
          /\ sending' = [sending EXCEPT ![c] = @ \ {event}]
          /\ \/ node = c /\ channel' = [channel EXCEPT ![c] = Append(@, event)]
             \/ UNCHANGED channel
  BY DEF TrySend
<1>2. /\ sending \in [Configs -> SUBSET Events] /\ channel \in [Configs -> Seq(Events)]
      /\ event \in Events /\ event.of = c
  BY DEF GodotInv, Events
<1>3. UNCHANGED <<node, configs, batch, drained, frame>>
  BY DEF TrySend, draining
<1>4. /\ sending' \in [Configs -> SUBSET Events]
      /\ \A d \in Configs : \A e \in sending'[d] : e.of = d
  BY <1>1, <1>2 DEF GodotInv
<1>5. CASE UNCHANGED channel
  BY <1>3, <1>4, <1>5 DEF GodotInv, OldTasksSilent, Events
<1>6. CASE node = c /\ channel' = [channel EXCEPT ![c] = Append(@, event)]
  <2>1. PICK s \in Seq(Events) : s = channel[c] /\ \A i \in 1 .. Len(s) : s[i].of = c
    BY <1>2 DEF GodotInv
  <2>2. PICK t \in Seq(Events) : t = Append(s, event)
    <3>1. Append(s, event) \in Seq(Events)
      BY <1>2
    <3>2. QED
      BY <3>1
  <2>3. Len(t) = Len(s) + 1 /\ t[Len(t)] = event /\ \A i \in 1 .. Len(s) : t[i] = s[i]
    BY <1>2, <2>2
  <2>4. \A i \in DOMAIN t : t[i].of = c
    BY <1>2, <2>1, <2>3
  <2>5. channel' = [channel EXCEPT ![c] = t]
    BY <1>6, <2>1, <2>2
  <2>6. /\ channel' \in [Configs -> Seq(Events)]
        /\ channel'[c] = t /\ \A d \in Configs : d # c => channel'[d] = channel[d]
    BY <1>2, <2>5
  <2>7. \A d \in Configs : /\ \A i \in DOMAIN channel'[d] : channel'[d][i].of = d
                           /\ d # node' => channel'[d] = <<>>
    BY <1>3, <1>6, <2>4, <2>6 DEF GodotInv
  <2>8. QED
    BY <1>3, <1>4, <2>6, <2>7 DEF GodotInv, OldTasksSilent, Events
<1>7. QED
  BY <1>1, <1>5, <1>6

\* A frame takes the node's channel, and emits what it has taken.
LEMMA FrameKeeps == ASSUME GodotInv, Frame PROVE GodotInv'
<1>1. UNCHANGED <<node, configs, sending>>
  BY DEF Frame, Collect, EmitEvent, EmitTerminal, FrameEnds
<1>2. CASE Collect
  <2>1. node \in Configs /\ channel' = [channel EXCEPT ![node] = <<>>] /\ batch' = channel[node]
        /\ drained' = node /\ frame' = "draining"
    BY <1>2, GodotBoundsAssumption DEF Collect, GodotInv, Configs
  <2>2. channel \in [Configs -> Seq(Events)] /\ <<>> \in Seq(Events) /\ DOMAIN <<>> = {}
    <3>1. channel \in [Configs -> Seq(Events)]
      BY DEF GodotInv, Events
    <3>2. QED
      BY <3>1
  <2>3. /\ channel' \in [Configs -> Seq(Events)]
        /\ channel'[node] = <<>> /\ \A d \in Configs : d # node => channel'[d] = channel[d]
    BY <2>1, <2>2
  <2>4. \A d \in Configs : /\ \A i \in DOMAIN channel'[d] : channel'[d][i].of = d
                           /\ d # node' => channel'[d] = <<>>
    BY <1>1, <2>2, <2>3 DEF GodotInv
  <2>5. batch' \in Seq(Events) /\ \A i \in DOMAIN batch' : batch'[i].of = drained'
    BY <2>1, <2>2 DEF GodotInv
  <2>6. QED
    BY <1>1, <2>1, <2>3, <2>4, <2>5 DEF GodotInv, OldTasksSilent, Events
<1>3. CASE EmitEvent
  <2>1. /\ UNCHANGED <<channel, drained>> /\ frame = "draining" /\ batch # <<>>
        /\ \/ frame' = "terminal" /\ UNCHANGED batch
           \/ batch' = Tail(batch) /\ UNCHANGED frame
    BY <1>3 DEF EmitEvent
  <2>2. CASE frame' = "terminal" /\ UNCHANGED batch
    BY <1>1, <2>1, <2>2 DEF GodotInv, OldTasksSilent
  <2>3. CASE batch' = Tail(batch) /\ UNCHANGED frame
    BY <1>1, <2>1, <2>3, TailSilent DEF GodotInv, OldTasksSilent, Events
  <2>4. QED
    BY <2>1, <2>2, <2>3
<1>4. CASE EmitTerminal
  <2>1. /\ UNCHANGED <<channel, drained>> /\ batch # <<>>
        /\ batch' = Tail(batch) /\ frame' = "draining"
    BY <1>4 DEF EmitTerminal, GodotInv
  <2>2. QED
    BY <1>1, <2>1, TailSilent DEF GodotInv, OldTasksSilent, Events
<1>5. CASE FrameEnds
  <2>1. UNCHANGED <<channel, batch>> /\ batch = <<>> /\ frame' = "outside"
    BY <1>5 DEF FrameEnds
  <2>2. DOMAIN batch' = {}
    BY <2>1
  <2>3. QED
    BY <1>1, <2>1, <2>2 DEF GodotInv, OldTasksSilent
<1>6. QED
  BY <1>2, <1>3, <1>4, <1>5 DEF Frame

\* A frame, a configure or a callback leaves the queue and the batch of the task they say.
LEMMA GodotInductive == GodotInv /\ [GodotNext]_godotVars => GodotInv'
<1>1. SUFFICES ASSUME GodotInv, [GodotNext]_godotVars PROVE GodotInv'
  OBVIOUS
<1>2. CASE UNCHANGED godotVars
  BY <1>1, <1>2 DEF godotVars, draining, GodotInv, OldTasksSilent
<1>3. QED
  BY <1>1, <1>2, MethodKeeps, ThreadKeeps, SendKeeps, FrameKeeps DEF GodotNext

\* Only the channel of the node's configuration holds anything, and what it holds, and
\* what any callback is about to send, is its own, for any number of configurations and
\* channels of any length.
THEOREM GodotInvariant == GodotSpec => []GodotInv
<1>1. GodotInit => GodotInv
  <2>1. SUFFICES ASSUME GodotInit PROVE GodotInv
    OBVIOUS
  <2>2. <<>> \in Seq(Events) /\ DOMAIN <<>> = {}
    OBVIOUS
  <2>3. channel \in [Configs -> Seq(Events)] /\ sending \in [Configs -> SUBSET Events]
    BY <2>1, <2>2 DEF GodotInit
  <2>4. \A c \in Configs : channel[c] = <<>> /\ sending[c] = {}
    BY <2>1 DEF GodotInit
  <2>5. node \in 0 .. MaxConfigs /\ configs \in 0 .. MaxConfigs
    BY <2>1, GodotBoundsAssumption DEF GodotInit
  <2>6. QED
    BY <2>1, <2>2, <2>3, <2>4, <2>5 DEF GodotInit, GodotInv, OldTasksSilent, Events
<1>2. QED
  BY <1>1, GodotInductive, PTL DEF GodotSpec

\* What a callback of a closed task sends never comes through.
THEOREM OldTasksStaySilent == GodotSpec => []OldTasksSilent
<1>1. GodotInv => OldTasksSilent
  BY DEF GodotInv
<1>2. QED
  BY <1>1, GodotInvariant, PTL
-----------------------------------------------------------------------------
(* The blocks of a digest                                                  *)

\* Pieces of sequences, by names of their own: the provers then reason by the facts below
\* instead of element by element.
Joined(s, t) == s \o t
FirstOf(s, n) == SubSeq(s, 1, n)
RestOf(s, n) == SubSeq(s, n + 1, Len(s))

\* Everything a hasher was given: the blocks compressed, and what waits in the buffer.
Stream(h) == Joined(h.compressed, FirstOf(h.buffer, h.buffer_len))

\* A buffer, and a hasher, of bytes in S.
Buffers(S) == [1 .. Block -> S]
Hashers(S) ==
    [len : Nat, buffer : Buffers(S), buffer_len : 0 .. Block - 1, compressed : Seq(S)]

\* So many whole blocks, and how much is left.
LEMMA WholeBlocks ==
    ASSUME NEW n \in Nat
    PROVE  /\ n \div Block \in Nat
           /\ Block * (n \div Block) \in 0 .. n
           /\ n - Block * (n \div Block) \in 0 .. Block - 1
  BY BlockAssumption

\* Less than a block behind whole blocks is nothing, if that is of whole blocks, too.
LEMMA NothingLeft ==
    ASSUME NEW j \in Nat, NEW k \in Nat, NEW b \in 0 .. Block - 1, Block * j + b = Block * k
    PROVE  b = 0
<1>1. Block \in Nat \ {0}
  BY BlockAssumption
<1>2. b = Block * (k - j)
  BY <1>1
<1>3. CASE k - j >= 1
  <2>1. Block * (k - j) >= Block
    BY <1>1, <1>3
  <2>2. QED
    BY <1>1, <1>2, <2>1
<1>4. CASE k - j <= -1
  <2>1. Block * (k - j) <= -Block
    BY <1>1, <1>4
  <2>2. QED
    BY <1>1, <1>2, <2>1
<1>5. CASE k - j = 0
  BY <1>1, <1>2, <1>5
<1>6. QED
  BY <1>3, <1>4, <1>5

\* What is of whole blocks is a multiple.
LEMMA WholeIsMultiple ==
    /\ \A n \in Nat : n % Block = 0 => \E k \in Nat : n = Block * k
    /\ \A k \in Nat : Block * k \in Nat /\ (Block * k) % Block = 0
<1>1. Block \in Nat \ {0}
  BY BlockAssumption
<1>2. ASSUME NEW n \in Nat
      PROVE  /\ n \div Block \in Nat /\ n % Block \in 0 .. Block - 1
             /\ n = Block * (n \div Block) + (n % Block)
  BY <1>1
<1>3. ASSUME NEW n \in Nat, n % Block = 0 PROVE \E k \in Nat : n = Block * k
  <2>1. PICK k \in Nat : k = n \div Block
    BY <1>2
  <2>2. n = Block * k + 0 /\ Block * k \in Int
    BY <1>1, <1>2, <1>3, <2>1
  <2>3. QED
    BY <2>2
<1>4. ASSUME NEW k \in Nat PROVE Block * k \in Nat /\ (Block * k) % Block = 0
  <2>1. PICK n \in Nat : n = Block * k
    BY <1>1
  <2>2. PICK q \in Nat : q = n \div Block
    BY <1>2
  <2>3. PICK b \in 0 .. Block - 1 : b = n % Block
    BY <1>2
  <2>4. Block * q + b = Block * k
    BY <1>2, <2>1, <2>2, <2>3
  <2>5. b = 0
    BY <2>4, NothingLeft
  <2>6. QED
    BY <2>1, <2>3, <2>5
<1>5. QED
  BY <1>3, <1>4

\* The first elements of a sequence or a buffer.
LEMMA Prefix ==
    ASSUME NEW S, NEW s, NEW m \in Nat, \A i \in 1 .. m : s[i] \in S
    PROVE  /\ SubSeq(s, 1, m) \in Seq(S) /\ Len(SubSeq(s, 1, m)) = m
           /\ \A i \in 1 .. m : SubSeq(s, 1, m)[i] = s[i]
<1>1. /\ SubSeq(s, 1, m) \in Seq(S)
      /\ Len(SubSeq(s, 1, m)) = IF 1 <= m THEN m - 1 + 1 ELSE 0
      /\ \A i \in 1 .. m - 1 + 1 : SubSeq(s, 1, m)[i] = s[1 + i - 1]
  BY SubSeqProperties
<1>2. m - 1 + 1 = m /\ \A i \in 1 .. m : 1 + i - 1 = i
  OBVIOUS
<1>3. QED
  BY <1>1, <1>2

\* A buffer is a sequence of a block's length.
LEMMA BufferIsSeq ==
    ASSUME NEW S, NEW buffer \in Buffers(S)
    PROVE  buffer \in Seq(S) /\ Len(buffer) = Block
  BY BlockAssumption DEF Buffers

\* What is copied into a buffer stands behind what was there.
LEMMA Copying ==
    \A S : \A buffer \in Buffers(S) : \A at \in 0 .. Block : \A bytes \in Seq(S) :
        \A end \in 0 .. Block : end = at + Len(bytes) =>
            /\ CopyTo(buffer, at, bytes) \in Buffers(S)
            /\ FirstOf(CopyTo(buffer, at, bytes), end) = Joined(FirstOf(buffer, at), bytes)
            /\ bytes = <<>> => CopyTo(buffer, at, bytes) = buffer
<1> SUFFICES ASSUME NEW S, NEW buffer \in Buffers(S), NEW at \in 0 .. Block,
                    NEW bytes \in Seq(S), at + Len(bytes) <= Block
             PROVE  /\ CopyTo(buffer, at, bytes) \in Buffers(S)
                    /\ SubSeq(CopyTo(buffer, at, bytes), 1, at + Len(bytes)) =
                           SubSeq(buffer, 1, at) \o bytes
                    /\ bytes = <<>> => CopyTo(buffer, at, bytes) = buffer
  BY BlockAssumption DEF FirstOf, Joined
<1>1. Block \in Nat /\ Len(bytes) \in Nat /\ DOMAIN bytes = 1 .. Len(bytes)
  BY BlockAssumption
<1>2. PICK copy : copy = CopyTo(buffer, at, bytes)
  OBVIOUS
<1>3. copy \in Buffers(S)
  BY <1>1, <1>2 DEF CopyTo, Buffers
<1>4. \A i \in 1 .. at : copy[i] = buffer[i]
  BY <1>1, <1>2 DEF CopyTo
<1>5. \A i \in at + 1 .. at + Len(bytes) : copy[i] = bytes[i - at]
  BY <1>1, <1>2 DEF CopyTo
<1>6. PICK s \in Seq(S) : s = SubSeq(copy, 1, at + Len(bytes)) /\ Len(s) = at + Len(bytes)
                          /\ \A i \in 1 .. at + Len(bytes) : s[i] = copy[i]
  <2>1. at + Len(bytes) \in Nat /\ \A i \in 1 .. at + Len(bytes) : copy[i] \in S
    BY <1>1, <1>3 DEF Buffers
  <2>2. PICK n \in Nat : n = at + Len(bytes)
    BY <2>1
  <2>3. /\ SubSeq(copy, 1, n) \in Seq(S) /\ Len(SubSeq(copy, 1, n)) = n
        /\ \A i \in 1 .. n : SubSeq(copy, 1, n)[i] = copy[i]
    BY <2>1, <2>2, Prefix
  <2>4. QED
    BY <2>2, <2>3
<1>7. PICK t \in Seq(S) : t = SubSeq(buffer, 1, at) /\ Len(t) = at
                          /\ \A i \in 1 .. at : t[i] = buffer[i]
  <2>1. at \in Nat /\ \A i \in 1 .. at : buffer[i] \in S
    BY <1>1 DEF Buffers
  <2>2. /\ SubSeq(buffer, 1, at) \in Seq(S) /\ Len(SubSeq(buffer, 1, at)) = at
        /\ \A i \in 1 .. at : SubSeq(buffer, 1, at)[i] = buffer[i]
    BY <2>1, Prefix
  <2>3. QED
    BY <2>2
<1>8. /\ t \o bytes \in Seq(S) /\ Len(t \o bytes) = at + Len(bytes)
      /\ \A i \in 1 .. at + Len(bytes) :
             (t \o bytes)[i] = IF i <= at THEN t[i] ELSE bytes[i - at]
  <2>1. /\ t \o bytes \in Seq(S) /\ Len(t \o bytes) = Len(t) + Len(bytes)
        /\ \A i \in 1 .. Len(t) + Len(bytes) :
               (t \o bytes)[i] = IF i <= Len(t) THEN t[i] ELSE bytes[i - Len(t)]
    BY ConcatProperties
  <2>2. QED
    BY <1>7, <2>1
<1>9. \A i \in 1 .. at + Len(bytes) : s[i] = (t \o bytes)[i]
  BY <1>1, <1>4, <1>5, <1>6, <1>7, <1>8
<1>10. s = t \o bytes
  BY <1>6, <1>8, <1>9, SeqEqual
<1>11. bytes = <<>> => copy = buffer
  BY <1>1, <1>2 DEF CopyTo, Buffers
<1>12. QED
  BY <1>2, <1>3, <1>6, <1>7, <1>10, <1>11

\* A sequence is what is before a place, and what is behind it.
LEMMA SplitAt ==
    ASSUME NEW S, NEW s \in Seq(S), NEW n \in 0 .. Len(s)
    PROVE  /\ SubSeq(s, 1, n) \in Seq(S) /\ Len(SubSeq(s, 1, n)) = n
           /\ SubSeq(s, n + 1, Len(s)) \in Seq(S)
           /\ Len(SubSeq(s, n + 1, Len(s))) = Len(s) - n
           /\ s = SubSeq(s, 1, n) \o SubSeq(s, n + 1, Len(s))
<1>1. Len(s) \in Nat /\ n \in Nat /\ n <= Len(s)
  OBVIOUS
<1>2. \A i \in 1 .. Len(s) : s[i] \in S
  OBVIOUS
<1>3. /\ SubSeq(s, 1, n) \in Seq(S) /\ Len(SubSeq(s, 1, n)) = n
      /\ \A i \in 1 .. n : SubSeq(s, 1, n)[i] = s[i]
  BY <1>1, <1>2, Prefix
<1>4. /\ SubSeq(s, n + 1, Len(s)) \in Seq(S)
      /\ Len(SubSeq(s, n + 1, Len(s))) = IF n + 1 <= Len(s) THEN Len(s) - (n + 1) + 1 ELSE 0
      /\ \A i \in 1 .. Len(s) - (n + 1) + 1 : SubSeq(s, n + 1, Len(s))[i] = s[n + 1 + i - 1]
  <2>1. n + 1 \in Int /\ Len(s) \in Int /\ \A i \in n + 1 .. Len(s) : s[i] \in S
    BY <1>1, <1>2
  <2>2. QED
    BY <2>1, SubSeqProperties
<1>5. PICK a \in Seq(S) : a = SubSeq(s, 1, n) /\ Len(a) = n /\ \A i \in 1 .. n : a[i] = s[i]
  BY <1>3
<1>6. PICK b : b = SubSeq(s, n + 1, Len(s))
  OBVIOUS
<1>7. PICK len \in Nat : len = Len(s) /\ n <= len
  BY <1>1
<1>8. /\ b \in Seq(S)
      /\ Len(b) = IF n + 1 <= len THEN len - (n + 1) + 1 ELSE 0
      /\ \A i \in 1 .. len - (n + 1) + 1 : b[i] = s[n + 1 + i - 1]
  BY <1>4, <1>6, <1>7
<1>9. Len(b) = len - n /\ \A i \in 1 .. len - n : b[i] = s[n + i]
  <2>1. len - (n + 1) + 1 = len - n /\ \A i \in Int : n + 1 + i - 1 = n + i
    BY <1>1, <1>7
  <2>2. (IF n + 1 <= len THEN len - (n + 1) + 1 ELSE 0) = len - n
    BY <1>1, <1>7
  <2>3. Len(b) = len - n
    BY <1>8, <2>2
  <2>4. \A i \in 1 .. len - n : b[i] = s[n + i]
    BY <1>8, <2>1
  <2>5. QED
    BY <2>3, <2>4
<1>10. a \o b = s
  <2>1. PICK t : t = a \o b
    OBVIOUS
  <2>2. /\ t \in Seq(S) /\ Len(t) = Len(a) + Len(b)
        /\ \A i \in 1 .. Len(a) + Len(b) : t[i] = IF i <= Len(a) THEN a[i] ELSE b[i - Len(a)]
    BY <1>8, <2>1, ConcatProperties
  <2>3. Len(t) = len
    BY <1>1, <1>5, <1>7, <1>9, <2>2
  <2>4. ASSUME NEW i \in 1 .. len PROVE t[i] = s[i]
    <3>1. CASE i <= n
      BY <1>1, <1>5, <1>7, <1>9, <2>2, <3>1
    <3>2. CASE i > n
      <4>1. t[i] = b[i - n] /\ i - n \in 1 .. len - n /\ n + (i - n) = i
        BY <1>1, <1>5, <1>7, <1>9, <2>2, <3>2
      <4>2. QED
        BY <1>9, <4>1
    <3>3. QED
      BY <1>1, <3>1, <3>2
  <2>5. QED
    BY <1>7, <2>1, <2>2, <2>3, <2>4, SeqEqual
<1>11. SubSeq(s, n + 1, Len(s)) \in Seq(S) /\ Len(SubSeq(s, n + 1, Len(s))) = Len(s) - n
  BY <1>6, <1>7, <1>8, <1>9
<1>12. s = SubSeq(s, 1, n) \o SubSeq(s, n + 1, Len(s))
  BY <1>5, <1>6, <1>10
<1>13. QED
  BY <1>3, <1>11, <1>12

\* Joining byte sequences: the empty one changes nothing, lengths add, brackets do not matter.
LEMMA Joining ==
    \A S : /\ <<>> \in Seq(S) /\ Len(<<>>) = 0
           /\ \A s \in Seq(S) : /\ Joined(s, <<>>) = s /\ Joined(<<>>, s) = s
                                /\ Len(s) \in Nat /\ (Len(s) = 0 => s = <<>>)
           /\ \A s, t \in Seq(S) : Joined(s, t) \in Seq(S) /\ Len(Joined(s, t)) = Len(s) + Len(t)
           /\ \A s, t, u \in Seq(S) : Joined(Joined(s, t), u) = Joined(s, Joined(t, u))
<1>1. SUFFICES ASSUME NEW S
               PROVE  /\ <<>> \in Seq(S) /\ Len(<<>>) = 0
                      /\ \A s \in Seq(S) : /\ s \o <<>> = s /\ <<>> \o s = s
                                           /\ Len(s) \in Nat /\ (Len(s) = 0 => s = <<>>)
                      /\ \A s, t \in Seq(S) : s \o t \in Seq(S) /\ Len(s \o t) = Len(s) + Len(t)
                      /\ \A s, t, u \in Seq(S) : (s \o t) \o u = s \o (t \o u)
  BY DEF Joined
<1>2. <<>> \in Seq(S) /\ Len(<<>>) = 0
  BY EmptySeq
<1>3. \A s \in Seq(S) : /\ s \o <<>> = s /\ <<>> \o s = s
                        /\ Len(s) \in Nat /\ (Len(s) = 0 => s = <<>>)
  BY ConcatEmptySeq, EmptySeq
<1>4. \A s, t \in Seq(S) : s \o t \in Seq(S) /\ Len(s \o t) = Len(s) + Len(t)
  BY ConcatProperties
<1>5. \A s, t, u \in Seq(S) : (s \o t) \o u = s \o (t \o u)
  BY ConcatAssociative
<1>6. QED
  BY <1>2, <1>3, <1>4, <1>5

\* Four sequences joined from the left are the four joined from the right.
LEMMA JoiningFour ==
    \A S : \A s, t, u, v \in Seq(S) :
        Joined(Joined(Joined(s, t), u), v) = Joined(s, Joined(t, Joined(u, v)))
<1>1. SUFFICES ASSUME NEW S, NEW s \in Seq(S), NEW t \in Seq(S), NEW u \in Seq(S), NEW v \in Seq(S)
               PROVE  Joined(Joined(Joined(s, t), u), v) = Joined(s, Joined(t, Joined(u, v)))
  OBVIOUS
<1>2. PICK st \in Seq(S) : st = Joined(s, t)
  BY Joining
<1>3. PICK uv \in Seq(S) : uv = Joined(u, v)
  BY Joining
<1>4. Joined(Joined(st, u), v) = Joined(st, Joined(u, v))
  BY Joining
<1>5. Joined(Joined(s, t), uv) = Joined(s, Joined(t, uv))
  BY Joining
<1>6. QED
  BY <1>2, <1>3, <1>4, <1>5

\* A sequence is its first bytes joined with the rest.
LEMMA Splitting ==
    \A S : \A s \in Seq(S) : \A n \in 0 .. Len(s) :
        /\ FirstOf(s, n) \in Seq(S) /\ Len(FirstOf(s, n)) = n
        /\ RestOf(s, n) \in Seq(S) /\ Len(RestOf(s, n)) = Len(s) - n
        /\ s = Joined(FirstOf(s, n), RestOf(s, n))
  BY SplitAt, ZenonT(30) DEF FirstOf, RestOf, Joined

\* All of a sequence, and none of it.
LEMMA Beginnings ==
    \A S : \A s \in Seq(S) : FirstOf(s, Len(s)) = s /\ FirstOf(s, 0) = <<>>
<1>1. SUFFICES ASSUME NEW S, NEW s \in Seq(S)
               PROVE  SubSeq(s, 1, Len(s)) = s /\ SubSeq(s, 1, 0) = <<>>
  BY DEF FirstOf
<1>2. QED
  BY SubSeqFull, SubSeqEmpty

\* update takes every byte of the slice, once and in order, and compresses whole blocks.
LEMMA Updated ==
    ASSUME NEW S, NEW h \in Hashers(S), NEW bytes \in Seq(S), Len(h.compressed) % Block = 0
    PROVE  /\ Update(h, bytes) \in Hashers(S)
           /\ Len(Update(h, bytes).compressed) % Block = 0
           /\ Update(h, bytes).len = h.len + Len(bytes)
           /\ Stream(Update(h, bytes)) = Joined(Stream(h), bytes)
<1>1. Block \in Nat \ {0} /\ Len(bytes) \in Nat
  BY BlockAssumption
<1>2. PICK before \in Buffers(S), filled \in 0 .. Block - 1, done \in Seq(S) :
          before = h.buffer /\ filled = h.buffer_len /\ done = h.compressed
  BY DEF Hashers
<1>3. PICK take \in 0 .. Len(bytes) :
          /\ take = IF filled > 0 THEN Least(Block - filled, Len(bytes)) ELSE 0
          /\ filled + take \in 0 .. Block
          /\ filled + take # Block => (filled = 0 /\ take = 0) \/ take = Len(bytes)
  BY <1>1 DEF Least
<1>4. PICK first \in Seq(S), rest \in Seq(S) :
          /\ first = FirstOf(bytes, take) /\ rest = RestOf(bytes, take)
          /\ Len(first) = take /\ Len(rest) = Len(bytes) - take /\ bytes = Joined(first, rest)
  BY Splitting
<1>5. PICK whole \in 0 .. Len(rest) :
          /\ whole = Block * (Len(rest) \div Block) /\ Len(rest) - whole \in 0 .. Block - 1
          /\ whole % Block = 0
  <2>1. PICK n \in Nat : n = Len(rest)
    BY Joining
  <2>2. PICK k \in Nat : k = n \div Block
    BY WholeBlocks
  <2>3. Block * k \in 0 .. n /\ n - Block * k \in 0 .. Block - 1
    BY <2>2, WholeBlocks
  <2>4. (Block * k) % Block = 0
    BY WholeIsMultiple
  <2>5. QED
    BY <2>1, <2>2, <2>3, <2>4
<1>6. PICK blocks \in Seq(S), remainder \in Seq(S) :
          /\ blocks = FirstOf(rest, whole) /\ remainder = RestOf(rest, whole)
          /\ Len(blocks) = whole /\ Len(remainder) = Len(rest) - whole
          /\ rest = Joined(blocks, remainder)
  BY Splitting
<1>7. Len(remainder) \in 0 .. Block - 1
  BY <1>5, <1>6
<1>8. before \in Seq(S) /\ Len(before) = Block
  BY BufferIsSeq
<1>9. PICK start \in Seq(S) : start = FirstOf(before, filled)
  <2>1. filled \in 0 .. Len(before)
    BY <1>1, <1>8
  <2>2. QED
    BY <1>8, <2>1, Splitting
<1>10. PICK topped \in Buffers(S) :
          topped = CopyTo(before, filled, first) /\ FirstOf(topped, filled + take) = Joined(start, first)
  <2>1. PICK end \in 0 .. Block : end = filled + Len(first) /\ end = filled + take
    BY <1>3, <1>4
  <2>2. filled \in 0 .. Block
    BY <1>1
  <2>3. /\ CopyTo(before, filled, first) \in Buffers(S)
        /\ FirstOf(CopyTo(before, filled, first), end) = Joined(FirstOf(before, filled), first)
    BY <2>1, <2>2, Copying
  <2>4. QED
    BY <1>9, <2>1, <2>3
<1>11. topped \in Seq(S) /\ Len(topped) = Block
  BY BufferIsSeq
<1>12. PICK buffer \in Buffers(S) :
          /\ buffer = CopyTo(topped, 0, remainder)
          /\ FirstOf(buffer, Len(remainder)) = remainder
          /\ remainder = <<>> => buffer = topped
  <2>1. PICK end \in 0 .. Block : end = 0 + Len(remainder) /\ end = Len(remainder)
    BY <1>1, <1>7
  <2>2. 0 \in 0 .. Block
    BY <1>1
  <2>3. /\ CopyTo(topped, 0, remainder) \in Buffers(S)
        /\ FirstOf(CopyTo(topped, 0, remainder), end) = Joined(FirstOf(topped, 0), remainder)
        /\ remainder = <<>> => CopyTo(topped, 0, remainder) = topped
    BY <2>1, <2>2, Copying
  <2>4. Joined(FirstOf(topped, 0), remainder) = remainder
    BY <1>11, Beginnings, Joining
  <2>5. QED
    BY <2>1, <2>3, <2>4
<1>13. buffer \in Seq(S) /\ FirstOf(buffer, 0) = <<>>
  BY BufferIsSeq, Beginnings
<1>14. PICK full \in BOOLEAN : full <=> filled + take = Block
  OBVIOUS
<1>15. PICK head \in Seq(S) : /\ head = IF full THEN topped ELSE <<>>
                              /\ Len(head) = IF full THEN Block ELSE 0
  BY <1>11, Joining
<1>16. PICK left \in 0 .. Block - 1 :
          left = IF remainder # <<>> THEN Len(remainder) ELSE IF full THEN 0 ELSE filled + take
  <2>1. CASE remainder # <<>>
    BY <1>7, <2>1
  <2>2. CASE remainder = <<>> /\ full
    BY <1>1, <2>2
  <2>3. CASE remainder = <<>> /\ ~full
    <3>1. filled + take \in 0 .. Block - 1
      BY <1>1, <1>3, <1>14, <2>3, SMTT(30)
    <3>2. QED
      BY <2>3, <3>1
  <2>4. QED
    BY <2>1, <2>2, <2>3
<1>17. PICK compressed \in Seq(S) :
          /\ compressed = Joined(Joined(done, head), blocks)
          /\ Len(compressed) = Len(done) + Len(head) + whole
  <2>1. PICK s \in Seq(S) : s = Joined(done, head) /\ Len(s) = Len(done) + Len(head)
    BY Joining
  <2>2. Joined(s, blocks) \in Seq(S) /\ Len(Joined(s, blocks)) = Len(s) + Len(blocks)
    BY Joining
  <2>3. QED
    BY <1>6, <2>1, <2>2
<1>18. Update(h, bytes) = [len |-> h.len + Len(bytes), buffer |-> buffer, buffer_len |-> left,
                           compressed |-> compressed]
  <2>1. Update(h, bytes) = [len |-> h.len + Len(bytes), buffer |-> buffer,
          buffer_len |-> IF remainder # <<>> THEN Len(remainder)
                         ELSE IF full THEN 0 ELSE filled + take,
          compressed |-> (done \o (IF full THEN topped ELSE <<>>)) \o blocks]
    BY <1>2, <1>3, <1>4, <1>5, <1>6, <1>10, <1>12, <1>14, ZenonT(30) DEF Update, FirstOf, RestOf
  <2>2. compressed = (done \o (IF full THEN topped ELSE <<>>)) \o blocks
    BY <1>15, <1>17 DEF Joined
  <2>3. QED
    BY <1>16, <2>1, <2>2
<1>19. Len(compressed) % Block = 0
  <2>1. PICK j \in Nat : Len(done) = Block * j
    BY <1>2, Joining, WholeIsMultiple
  <2>2. PICK k \in Nat : whole = Block * k
    BY <1>5, WholeIsMultiple
  <2>3. PICK m \in {0, 1} : Len(head) = Block * m
    BY <1>1, <1>15
  <2>4. PICK n \in Nat : n = j + m + k
    BY <2>3
  <2>5. Block * n = Block * j + Block * m + Block * k
    BY <1>1, <2>3, <2>4
  <2>6. Len(compressed) = Block * n
    BY <1>17, <2>1, <2>2, <2>3, <2>5
  <2>7. QED
    BY <2>6, WholeIsMultiple
<1>20. Joined(compressed, FirstOf(buffer, left)) = Joined(Joined(done, start), bytes)
  <2>1. CASE full
    <3>1. head = Joined(start, first)
      <4>1. FirstOf(topped, Block) = topped
        BY <1>11, Beginnings
      <4>2. QED
        BY <1>10, <1>14, <1>15, <2>1, <4>1
    <3>2. FirstOf(buffer, left) = remainder
      BY <1>12, <1>13, <1>16, <2>1
    <3>3. Joined(done, head) = Joined(Joined(done, start), first)
      BY <3>1, Joining, SMTT(30)
    <3>4. PICK all \in Seq(S) : all = Joined(done, start)
      BY Joining
    <3>5. Joined(Joined(Joined(all, first), blocks), remainder) =
              Joined(all, Joined(first, Joined(blocks, remainder)))
      BY JoiningFour
    <3>6. QED
      BY <1>4, <1>6, <1>17, <3>2, <3>3, <3>4, <3>5
  <2>2. CASE ~full /\ take = Len(bytes)
    <3>1. Len(rest) = 0 /\ whole = 0 /\ Len(blocks) = 0 /\ Len(remainder) = 0
      <4>1. Len(rest) = 0
        BY <1>1, <1>4, <2>2
      <4>2. whole = 0
        BY <1>5, <4>1
      <4>3. QED
        BY <1>6, <4>1, <4>2
    <3>2. rest = <<>> /\ blocks = <<>> /\ remainder = <<>>
      BY <3>1, Joining
    <3>3. bytes = first
      BY <1>4, <3>2, Joining
    <3>4. FirstOf(buffer, left) = Joined(start, first)
      BY <1>10, <1>12, <1>16, <2>2, <3>2
    <3>5. compressed = done
      BY <1>15, <1>17, <2>2, <3>2, Joining
    <3>6. QED
      BY <3>3, <3>4, <3>5, Joining
  <2>3. CASE ~full /\ filled = 0 /\ take = 0
    <3>1. first = <<>> /\ start = <<>>
      BY <1>4, <1>8, <1>9, <2>3, Beginnings
    <3>2. bytes = Joined(blocks, remainder)
      BY <1>4, <1>6, <3>1, Joining
    <3>3. FirstOf(buffer, left) = remainder
      BY <1>12, <1>13, <1>16, <2>3
    <3>4. compressed = Joined(done, blocks) /\ Joined(done, start) = done
      BY <1>15, <1>17, <2>3, <3>1, Joining
    <3>5. QED
      BY <3>2, <3>3, <3>4, Joining
  <2>4. QED
    BY <1>3, <1>14, <2>1, <2>2, <2>3
<1>21. QED
  <2>1. h.len \in Nat
    BY DEF Hashers
  <2>2. PICK u : u = Update(h, bytes)
    OBVIOUS
  <2>3. /\ u.len = h.len + Len(bytes) /\ u.buffer = buffer /\ u.buffer_len = left
        /\ u.compressed = compressed
    BY <1>18, <2>2
  <2>4. u \in Hashers(S)
    <3>1. h.len + Len(bytes) \in Nat
      BY <1>1, <2>1
    <3>2. QED
      BY <1>18, <2>2, <3>1 DEF Hashers
  <2>5. Stream(u) = Joined(compressed, FirstOf(buffer, left))
    BY <2>3 DEF Stream
  <2>6. Stream(h) = Joined(done, start)
    BY <1>2, <1>9 DEF Stream
  <2>7. QED
    BY <1>19, <1>20, <2>2, <2>3, <2>4, <2>5, <2>6

\* The content fed so far, and the next slice of the content.
LEMMA ContentGrows ==
    \A n, m, k \in Nat : m <= k /\ k <= n =>
        /\ Content(m) \in Seq(Nat) /\ Len(Content(m)) = m
        /\ SubSeq(Content(n), m + 1, k) \in Seq(Nat) /\ Len(SubSeq(Content(n), m + 1, k)) = k - m
        /\ Joined(Content(m), SubSeq(Content(n), m + 1, k)) = Content(k)
<1>1. SUFFICES ASSUME NEW n \in Nat, NEW m \in Nat, NEW k \in Nat, m <= k, k <= n
               PROVE  /\ Content(m) \in Seq(Nat) /\ Len(Content(m)) = m
                      /\ SubSeq(Content(n), m + 1, k) \in Seq(Nat)
                      /\ Len(SubSeq(Content(n), m + 1, k)) = k - m
                      /\ Joined(Content(m), SubSeq(Content(n), m + 1, k)) = Content(k)
  OBVIOUS
<1>2. \A j \in Nat : /\ Content(j) \in Seq(Nat) /\ Len(Content(j)) = j
                     /\ \A i \in 1 .. j : Content(j)[i] = i
  BY DEF Content
<1>3. PICK slice : slice = SubSeq(Content(n), m + 1, k)
  OBVIOUS
<1>4. /\ slice \in Seq(Nat)
      /\ Len(slice) = IF m + 1 <= k THEN k - (m + 1) + 1 ELSE 0
      /\ \A i \in 1 .. k - (m + 1) + 1 : slice[i] = Content(n)[m + 1 + i - 1]
  <2>1. m + 1 \in Int /\ k \in Int /\ \A i \in m + 1 .. k : Content(n)[i] \in Nat
    BY <1>1, <1>2
  <2>2. QED
    BY <1>3, <2>1, SubSeqProperties
<1>5. Len(slice) = k - m /\ \A i \in 1 .. k - m : slice[i] = m + i
  <2>1. (IF m + 1 <= k THEN k - (m + 1) + 1 ELSE 0) = k - m /\ k - (m + 1) + 1 = k - m
    BY <1>1
  <2>2. ASSUME NEW i \in 1 .. k - m PROVE slice[i] = m + i
    <3>1. m + 1 + i - 1 = m + i /\ m + i \in 1 .. n
      BY <1>1
    <3>2. QED
      BY <1>2, <1>4, <2>1, <3>1
  <2>3. QED
    BY <1>4, <2>1, <2>2
<1>6. PICK c \in Seq(Nat) : c = Content(m) /\ Len(c) = m /\ \A i \in 1 .. m : c[i] = i
  BY <1>2
<1>6a. PICK t : t = c \o slice
  OBVIOUS
<1>7. /\ t \in Seq(Nat) /\ Len(t) = m + Len(slice)
      /\ \A i \in 1 .. m + Len(slice) : t[i] = IF i <= m THEN c[i] ELSE slice[i - m]
  <2>1. /\ t \in Seq(Nat) /\ Len(t) = Len(c) + Len(slice)
        /\ \A i \in 1 .. Len(c) + Len(slice) : t[i] = IF i <= Len(c) THEN c[i] ELSE slice[i - Len(c)]
    BY <1>4, <1>6a, ConcatProperties
  <2>2. QED
    BY <1>6, <2>1
<1>8. Len(t) = k /\ \A i \in 1 .. k : t[i] = i
  <2>1. m + Len(slice) = k
    BY <1>1, <1>5
  <2>2. ASSUME NEW i \in 1 .. k PROVE t[i] = i
    <3>1. CASE i <= m
      <4>1. i \in 1 .. m
        BY <1>1, <3>1
      <4>2. QED
        BY <1>6, <1>7, <2>1, <3>1, <4>1
    <3>2. CASE i > m
      <4>1. i - m \in 1 .. k - m /\ m + (i - m) = i /\ ~(i <= m)
        BY <1>1, <3>2
      <4>2. QED
        BY <1>5, <1>7, <2>1, <4>1
    <3>3. QED
      BY <1>1, <3>1, <3>2
  <2>3. QED
    BY <1>7, <2>1, <2>2
<1>9. t = Content(k)
  BY <1>2, <1>7, <1>8, SeqEqual
<1>10. QED
  BY <1>2, <1>3, <1>4, <1>5, <1>6, <1>6a, <1>9 DEF Joined

\* The padding is 0x80 and as many zeros as are left of its length.
LEMMA Padding ==
    \A n \in 1 .. Block :
        /\ <<128>> \in Seq(Nat) /\ Zeros(n - 1) \in Seq(Nat)
        /\ Joined(<<128>>, Zeros(n - 1)) \in Seq(Nat) /\ Len(Joined(<<128>>, Zeros(n - 1))) = n
        /\ SubSeq(<<128>> \o Zeros(2 * Block), 1, n) = Joined(<<128>>, Zeros(n - 1))
<1>1. SUFFICES ASSUME NEW n \in 1 .. Block
               PROVE  /\ <<128>> \in Seq(Nat) /\ Zeros(n - 1) \in Seq(Nat)
                      /\ <<128>> \o Zeros(n - 1) \in Seq(Nat) /\ Len(<<128>> \o Zeros(n - 1)) = n
                      /\ SubSeq(<<128>> \o Zeros(2 * Block), 1, n) = <<128>> \o Zeros(n - 1)
  BY DEF Joined
<1>2. Block \in Nat \ {0}
  BY BlockAssumption
<1>3. \A k \in Nat : /\ Zeros(k) \in Seq(Nat) /\ Len(Zeros(k)) = k
                     /\ \A i \in 1 .. k : Zeros(k)[i] = 0
  BY DEF Zeros
<1>4. <<128>> \in Seq(Nat) /\ Len(<<128>>) = 1 /\ <<128>>[1] = 128
  OBVIOUS
<1>5. ASSUME NEW k \in Nat
      PROVE  /\ <<128>> \o Zeros(k) \in Seq(Nat) /\ Len(<<128>> \o Zeros(k)) = k + 1
             /\ \A i \in 1 .. k + 1 : (<<128>> \o Zeros(k))[i] = IF i = 1 THEN 128 ELSE 0
  <2>1. PICK z \in Seq(Nat) : z = Zeros(k) /\ Len(z) = k /\ \A i \in 1 .. k : z[i] = 0
    BY <1>3
  <2>2. PICK t : t = <<128>> \o z
    OBVIOUS
  <2>3. /\ t \in Seq(Nat) /\ Len(t) = Len(<<128>>) + Len(z)
        /\ \A i \in 1 .. Len(<<128>>) + Len(z) :
               t[i] = IF i <= Len(<<128>>) THEN <<128>>[i] ELSE z[i - Len(<<128>>)]
    BY <1>4, <2>2, ConcatProperties
  <2>4. Len(t) = k + 1 /\ \A i \in 1 .. k + 1 : t[i] = IF i = 1 THEN 128 ELSE 0
    <3>1. Len(<<128>>) + Len(z) = k + 1
      BY <1>4, <2>1
    <3>2. ASSUME NEW i \in 1 .. k + 1 PROVE t[i] = IF i = 1 THEN 128 ELSE 0
      <4>1. CASE i = 1
        BY <1>4, <2>3, <3>1, <4>1
      <4>2. CASE i # 1
        <5>1. i - 1 \in 1 .. k /\ ~(i <= 1)
          BY <4>2
        <5>2. t[i] = z[i - 1]
          BY <1>4, <2>3, <3>1, <5>1
        <5>3. QED
          BY <2>1, <4>2, <5>1, <5>2
      <4>3. QED
        BY <4>1, <4>2
    <3>3. QED
      BY <2>3, <3>1, <3>2
  <2>5. QED
    BY <2>1, <2>2, <2>3, <2>4
<1>6. n - 1 \in Nat /\ (n - 1) + 1 = n /\ 2 * Block \in Nat /\ n <= 2 * Block + 1
  BY <1>2
<1>7. PICK long \in Seq(Nat) :
          /\ long = <<128>> \o Zeros(2 * Block) /\ Len(long) = 2 * Block + 1
          /\ \A i \in 1 .. 2 * Block + 1 : long[i] = IF i = 1 THEN 128 ELSE 0
  BY <1>5, <1>6, ZenonT(30)
<1>8. PICK short \in Seq(Nat) :
          /\ short = <<128>> \o Zeros(n - 1) /\ Len(short) = n
          /\ \A i \in 1 .. n : short[i] = IF i = 1 THEN 128 ELSE 0
  <2>1. PICK k \in Nat : k = n - 1 /\ k + 1 = n
    BY <1>6
  <2>2. /\ <<128>> \o Zeros(k) \in Seq(Nat) /\ Len(<<128>> \o Zeros(k)) = k + 1
        /\ \A i \in 1 .. k + 1 : (<<128>> \o Zeros(k))[i] = IF i = 1 THEN 128 ELSE 0
    BY <1>5
  <2>3. QED
    BY <2>1, <2>2, ZenonT(30)
<1>9. PICK cut \in Seq(Nat) :
          cut = SubSeq(long, 1, n) /\ Len(cut) = n /\ \A i \in 1 .. n : cut[i] = long[i]
  <2>1. n \in Nat /\ \A i \in 1 .. n : long[i] \in Nat
    BY <1>6, <1>7
  <2>2. /\ SubSeq(long, 1, n) \in Seq(Nat) /\ Len(SubSeq(long, 1, n)) = n
        /\ \A i \in 1 .. n : SubSeq(long, 1, n)[i] = long[i]
    BY <2>1, Prefix
  <2>3. QED
    BY <2>2
<1>10. ASSUME NEW i \in 1 .. n PROVE cut[i] = short[i]
  <2>1. i \in 1 .. 2 * Block + 1
    BY <1>2, <1>6
  <2>2. cut[i] = long[i] /\ long[i] = IF i = 1 THEN 128 ELSE 0
    BY <1>7, <1>9, <2>1
  <2>3. QED
    BY <1>8, <2>2
<1>11. cut = short
  BY <1>8, <1>9, <1>10, SeqEqual
<1>12. QED
  BY <1>3, <1>4, <1>6, <1>7, <1>8, <1>9, <1>11

\* With the length behind it the padding fills the last block, and nothing shorter does.
LEMMA PadFills ==
    ASSUME NEW h, h.buffer_len \in 0 .. Block - 1, NEW k \in Nat, NEW n \in Nat,
           n = Block * k + h.buffer_len
    PROVE  /\ PadLen(h) \in 1 .. Block
           /\ (n + PadLen(h) + LengthBytes) % Block = 0
           /\ PadLen(h) - 1 = CHOOSE z \in 0 .. Block - 1 : (n + 1 + z + LengthBytes) % Block = 0
<1>1. Block \in Nat \ {0} /\ LengthBytes \in Nat \ {0} /\ LengthBytes < Block
  BY BlockAssumption
<1>2. PICK b \in 0 .. Block - 1 : b = h.buffer_len
  OBVIOUS
<1>3. PICK p \in 1 .. Block, m \in {1, 2} :
          p = PadLen(h) /\ b + p + LengthBytes = m * Block
  <2>1. CASE b < Block - LengthBytes
    <3>1. PadLen(h) = Block - LengthBytes - b
      BY <1>2, <2>1 DEF PadLen
    <3>2. PadLen(h) \in 1 .. Block /\ b + PadLen(h) + LengthBytes = 1 * Block
      BY <1>1, <2>1, <3>1
    <3>3. QED
      BY <3>2
  <2>2. CASE ~(b < Block - LengthBytes)
    <3>1. PadLen(h) = 2 * Block - LengthBytes - b
      BY <1>2, <2>2 DEF PadLen
    <3>2. PadLen(h) \in 1 .. Block /\ b + PadLen(h) + LengthBytes = 2 * Block
      BY <1>1, <2>2, <3>1
    <3>3. QED
      BY <3>2
  <2>3. QED
    BY <2>1, <2>2
<1>4. PICK total \in Nat : total = k + m
  OBVIOUS
<1>5. n + p + LengthBytes = Block * total
  <2>1. Block * total = Block * k + m * Block
    BY <1>1, <1>4
  <2>2. Block * k \in Int
    BY <1>1
  <2>3. QED
    BY <1>1, <1>2, <1>3, <2>1, <2>2
<1>6. ASSUME NEW z \in 0 .. Block - 1, (n + 1 + z + LengthBytes) % Block = 0
      PROVE  z = p - 1
  <2>1. PICK s \in Nat : s = n + 1 + z + LengthBytes
    BY <1>1
  <2>2. PICK j \in Nat : s = Block * j
    BY <1>6, <2>1, WholeIsMultiple
  <2>3. CASE z >= p - 1
    <3>1. PICK d \in 0 .. Block - 1 : d = z - (p - 1)
      BY <1>1, <2>3
    <3>2. Block * total + d = Block * j
      <4>1. s = (n + p + LengthBytes) + d
        BY <1>1, <2>1, <3>1
      <4>2. QED
        BY <1>5, <2>2, <4>1
    <3>3. d = 0
      BY <3>2, NothingLeft
    <3>4. QED
      BY <3>1, <3>3
  <2>4. CASE z < p - 1
    <3>1. PICK d \in 0 .. Block - 1 : d = (p - 1) - z
      BY <1>1, <2>4
    <3>2. Block * j + d = Block * total
      <4>1. s + d = n + p + LengthBytes
        BY <1>1, <2>1, <3>1
      <4>2. QED
        BY <1>5, <2>2, <4>1
    <3>3. d = 0
      BY <3>2, NothingLeft
    <3>4. QED
      BY <3>1, <3>3
  <2>5. QED
    BY <1>1, <2>3, <2>4
<1>7. p - 1 \in 0 .. Block - 1 /\ (n + p + LengthBytes) % Block = 0
  <2>1. p - 1 \in 0 .. Block - 1
    BY <1>1
  <2>2. (Block * total) % Block = 0
    BY WholeIsMultiple
  <2>3. QED
    BY <1>5, <2>1, <2>2
<1>8. (n + 1 + (p - 1) + LengthBytes) % Block = 0
  <2>1. n + 1 + (p - 1) + LengthBytes = n + p + LengthBytes
    BY <1>1
  <2>2. QED
    BY <1>7, <2>1
<1>9. p - 1 = CHOOSE z \in 0 .. Block - 1 : (n + 1 + z + LengthBytes) % Block = 0
  BY <1>6, <1>7, <1>8
<1>10. QED
  BY <1>3, <1>7, <1>9

\* The padded message, in the pieces the hasher is given.
LEMMA MessageInPieces ==
    ASSUME NEW n \in Nat, NEW p \in 1 .. Block,
           p - 1 = CHOOSE z \in 0 .. Block - 1 : (n + 1 + z + LengthBytes) % Block = 0
    PROVE  Message(n) = Joined(Joined(Content(n), Joined(<<128>>, Zeros(p - 1))), LengthField(8 * n))
<1>1. PICK content \in Seq(Nat), mark \in Seq(Nat), zeros \in Seq(Nat) :
          content = Content(n) /\ mark = <<128>> /\ zeros = Zeros(p - 1)
  <2>1. Content(n) \in Seq(Nat)
    BY ContentGrows
  <2>2. <<128>> \in Seq(Nat) /\ Zeros(p - 1) \in Seq(Nat)
    BY Padding
  <2>3. QED
    BY <2>1, <2>2
<1>2. Joined(Joined(content, mark), zeros) = Joined(content, Joined(mark, zeros))
  BY Joining
<1>3. Message(n) = Joined(Joined(Joined(content, mark), zeros), LengthField(8 * n))
  BY <1>1 DEF Message, Joined
<1>4. QED
  BY <1>1, <1>2, <1>3

\* The length field is a sequence of bytes, whichever end of the length is first.
LEMMA FieldIsSeq ==
    ASSUME NEW bits, NEW S, \A i \in 1 .. LengthBytes : LengthField(bits)[i] \in S
    PROVE  LengthField(bits) \in Seq(S) /\ Len(LengthField(bits)) = LengthBytes
<1>1. PICK f : f = LengthField(bits)
  OBVIOUS
<1>2. f = [i \in 1 .. LengthBytes |-> f[i]]
  BY <1>1 DEF LengthField
<1>3. f \in [1 .. LengthBytes -> S]
  BY <1>1, <1>2
<1>4. LengthBytes \in Nat
  BY BlockAssumption
<1>5. f \in Seq(S) /\ Len(f) = LengthBytes
  BY <1>3, <1>4
<1>6. QED
  BY <1>1, <1>5

\* The invariant before the end, in the terms of the lemmas.
LEMMA WhileFeeding ==
    ASSUME BlockInv, ~finalized
    PROVE  /\ hasher \in Hashers(Nat) /\ hasher.len = fed /\ Len(hasher.compressed) % Block = 0
           /\ Stream(hasher) = Content(fed)
           /\ fed \in Nat /\ contentLen \in Nat /\ readSize \in Nat \ {0} /\ fed <= contentLen
<1>1. fed \in Nat /\ contentLen \in Nat /\ readSize \in Nat \ {0} /\ fed <= contentLen
  BY DEF BlockInv
<1>2. hasher \in Hashers(Nat) /\ hasher.len = fed /\ Len(hasher.compressed) % Block = 0
  BY <1>1 DEF BlockInv, Hashers, Buffers
<1>3. Stream(hasher) = Content(fed)
  BY DEF BlockInv, BlocksOfMessage, Stream, Joined, FirstOf
<1>4. QED
  BY <1>1, <1>2, <1>3

\* One buffer is read and fed.
LEMMA FeedKeeps == ASSUME BlockInv, Feed PROVE BlockInv'
<1>1. /\ hasher \in Hashers(Nat) /\ hasher.len = fed /\ Len(hasher.compressed) % Block = 0
      /\ Stream(hasher) = Content(fed)
      /\ fed \in Nat /\ contentLen \in Nat /\ readSize \in Nat \ {0} /\ fed <= contentLen
  BY WhileFeeding DEF Feed
<1>2. PICK bytes : bytes = SubSeq(Content(contentLen), fed + 1, fed')
  OBVIOUS
<1>3. hasher' = Update(hasher, bytes) /\ UNCHANGED <<contentLen, readSize, finalized>> /\ ~finalized
  BY <1>2 DEF Feed
<1>4. fed' \in fed .. contentLen
  BY <1>1 DEF Feed, Least
<1>5. PICK to \in Nat : to = fed' /\ fed <= to /\ to <= contentLen
  BY <1>1, <1>4
<1>6. bytes \in Seq(Nat) /\ Len(bytes) = to - fed /\ Joined(Content(fed), bytes) = Content(to)
  <2>1. PICK n \in Nat, m \in Nat : n = contentLen /\ m = fed /\ m <= to /\ to <= n
    BY <1>1, <1>5
  <2>2. /\ SubSeq(Content(n), m + 1, to) \in Seq(Nat)
        /\ Len(SubSeq(Content(n), m + 1, to)) = to - m
        /\ Joined(Content(m), SubSeq(Content(n), m + 1, to)) = Content(to)
    <3>1. m \in Nat /\ to \in Nat /\ n \in Nat /\ m <= to /\ to <= n
      BY <2>1, <1>5
    <3>2. m <= to /\ to <= n =>
            /\ SubSeq(Content(n), m + 1, to) \in Seq(Nat)
            /\ Len(SubSeq(Content(n), m + 1, to)) = to - m
            /\ Joined(Content(m), SubSeq(Content(n), m + 1, to)) = Content(to)
      BY ContentGrows, Zenon
    <3>3. QED
      BY <3>1, <3>2, Zenon
  <2>3. bytes = SubSeq(Content(n), m + 1, to)
    BY <1>2, <1>5, <2>1
  <2>4. QED
    BY <2>1, <2>2, <2>3
<1>7. /\ Update(hasher, bytes) \in Hashers(Nat)
      /\ Len(Update(hasher, bytes).compressed) % Block = 0
      /\ Update(hasher, bytes).len = hasher.len + Len(bytes)
      /\ Stream(Update(hasher, bytes)) = Joined(Stream(hasher), bytes)
  BY <1>1, <1>6, Updated
<1>8. PICK u : u = Update(hasher, bytes) /\ u = hasher'
  BY <1>3
<1>9. u \in Hashers(Nat) /\ u.len = to /\ Len(u.compressed) % Block = 0 /\ Stream(u) = Content(to)
  BY <1>1, <1>5, <1>6, <1>7, <1>8
<1>10. u \in [len : {to}, buffer : [1 .. Block -> Nat], buffer_len : 0 .. Block - 1,
              compressed : Seq(Nat)]
  BY <1>9 DEF Hashers, Buffers
<1>11. u.compressed \o SubSeq(u.buffer, 1, u.buffer_len) = Content(to)
  BY <1>9 DEF Stream, Joined, FirstOf
<1>12. BlocksOfMessage'
  BY <1>3, <1>5, <1>8, <1>11 DEF BlocksOfMessage
<1>13. QED
  BY <1>1, <1>3, <1>5, <1>8, <1>9, <1>10, <1>12 DEF BlockInv

\* The padding and the length end the message with its last block.
LEMMA FinalizeKeeps == ASSUME BlockInv, FinalizeDigest PROVE BlockInv'
<1>1. /\ hasher \in Hashers(Nat) /\ hasher.len = fed /\ Len(hasher.compressed) % Block = 0
      /\ Stream(hasher) = Content(fed)
      /\ fed \in Nat /\ contentLen \in Nat /\ readSize \in Nat \ {0} /\ fed <= contentLen
  BY WhileFeeding DEF FinalizeDigest
<1>2. PICK n \in Nat : n = contentLen /\ n = fed
  BY <1>1 DEF FinalizeDigest
<1>3. PICK field, S : /\ field = LengthField(8 * n)
                      /\ S = Nat \cup {field[i] : i \in 1 .. LengthBytes}
  OBVIOUS
<1>4. field \in Seq(S) /\ Len(field) = LengthBytes
  <2>1. \A i \in 1 .. LengthBytes : LengthField(8 * n)[i] \in S
    BY <1>3
  <2>2. QED
    BY <1>3, <2>1, FieldIsSeq
<1>5. \A s \in Seq(Nat) : s \in Seq(S)
  BY <1>3, SeqMonotonic
<1>6. hasher \in Hashers(S)
  <2>1. Buffers(Nat) \subseteq Buffers(S)
    BY <1>3 DEF Buffers
  <2>2. QED
    BY <1>1, <1>5, <2>1 DEF Hashers
<1>7. PICK k \in Nat, b \in 0 .. Block - 1 : b = hasher.buffer_len /\ n = Block * k + b
  <2>1. PICK done \in Seq(Nat), b \in 0 .. Block - 1 :
            done = hasher.compressed /\ b = hasher.buffer_len
    <3>1. hasher.compressed \in Seq(Nat) /\ hasher.buffer_len \in 0 .. Block - 1
      BY <1>1 DEF Hashers
    <3>2. QED
      BY <3>1
  <2>2. PICK start \in Seq(Nat) : start = FirstOf(hasher.buffer, b) /\ Len(start) = b
    <3>1. PICK buffer \in Buffers(Nat) : buffer = hasher.buffer
      BY <1>1 DEF Hashers
    <3>2. buffer \in Seq(Nat) /\ Len(buffer) = Block
      BY BufferIsSeq
    <3>3. b \in 0 .. Len(buffer)
      BY <3>2, BlockAssumption
    <3>4. FirstOf(buffer, b) \in Seq(Nat) /\ Len(FirstOf(buffer, b)) = b
      BY <3>2, <3>3, Splitting
    <3>5. QED
      BY <2>1, <3>1, <3>4
  <2>3. Content(n) = Joined(done, start)
    BY <1>1, <1>2, <2>1, <2>2 DEF Stream
  <2>4. Len(Content(n)) = n
    BY ContentGrows
  <2>5. n = Len(done) + b
    <3>1. Len(Joined(done, start)) = Len(done) + Len(start)
      BY Joining
    <3>2. QED
      BY <2>2, <2>3, <2>4, <3>1
  <2>6. PICK k \in Nat : Len(done) = Block * k
    BY <1>1, <2>1, Joining, WholeIsMultiple
  <2>7. QED
    BY <2>1, <2>5, <2>6
<1>8. PICK p \in 1 .. Block :
          /\ p = PadLen(hasher) /\ (n + p + LengthBytes) % Block = 0
          /\ p - 1 = CHOOSE z \in 0 .. Block - 1 : (n + 1 + z + LengthBytes) % Block = 0
  <2>1. hasher.buffer_len \in 0 .. Block - 1 /\ n = Block * k + hasher.buffer_len
    BY <1>7
  <2>2. /\ PadLen(hasher) \in 1 .. Block
        /\ (n + PadLen(hasher) + LengthBytes) % Block = 0
        /\ PadLen(hasher) - 1 = CHOOSE z \in 0 .. Block - 1 : (n + 1 + z + LengthBytes) % Block = 0
    BY <2>1, PadFills
  <2>3. QED
    BY <2>2
<1>9. PICK pad \in Seq(S) :
          /\ pad = SubSeq(<<128>> \o Zeros(2 * Block), 1, PadLen(hasher))
          /\ pad = Joined(<<128>>, Zeros(p - 1)) /\ Len(pad) = p
  BY <1>5, <1>8, Padding, ZenonT(30)
<1>10. PICK one : one = Update(hasher, pad)
  OBVIOUS
<1>11. one \in Hashers(S) /\ Len(one.compressed) % Block = 0 /\ Stream(one) = Joined(Stream(hasher), pad)
  BY <1>1, <1>6, <1>10, Updated
<1>12. PICK two : two = Update(one, field)
  OBVIOUS
<1>13. two \in Hashers(S) /\ Len(two.compressed) % Block = 0 /\ Stream(two) = Joined(Stream(one), field)
  BY <1>4, <1>11, <1>12, Updated
<1>14. hasher' = two /\ finalized' /\ UNCHANGED <<contentLen, readSize, bigEndian, fed>>
  BY <1>1, <1>2, <1>3, <1>9, <1>10, <1>12 DEF FinalizeDigest, Padded
<1>15. Stream(two) = Message(n)
  <2>1. Message(n) = Joined(Joined(Content(n), Joined(<<128>>, Zeros(p - 1))), LengthField(8 * n))
    BY <1>8, MessageInPieces
  <2>2. QED
    BY <1>1, <1>2, <1>3, <1>9, <1>11, <1>13, <2>1
<1>16. Len(Stream(two)) = n + p + LengthBytes
  <2>1. PICK c \in Seq(S) : c = Stream(hasher) /\ Len(c) = n
    BY <1>1, <1>2, <1>5, ContentGrows
  <2>2. PICK padded \in Seq(S) : padded = Stream(one) /\ Len(padded) = n + p
    <3>1. Joined(c, pad) \in Seq(S) /\ Len(Joined(c, pad)) = Len(c) + Len(pad)
      BY Joining
    <3>2. QED
      BY <1>9, <1>11, <2>1, <3>1
  <2>3. Len(Joined(padded, field)) = n + p + LengthBytes
    <3>1. Len(Joined(padded, field)) = Len(padded) + Len(field)
      BY <1>4, Joining
    <3>2. QED
      BY <1>4, <2>2, <3>1
  <2>4. QED
    BY <1>13, <2>2, <2>3
<1>17. PICK done \in Seq(S), buffer \in Buffers(S), left \in 0 .. Block - 1 :
          done = two.compressed /\ buffer = two.buffer /\ left = two.buffer_len
  BY <1>13 DEF Hashers
<1>18. buffer \in Seq(S) /\ Len(buffer) = Block /\ Stream(two) = Joined(done, FirstOf(buffer, left))
  BY <1>17, BufferIsSeq DEF Stream
<1>19. left = 0
  <2>1. left \in 0 .. Len(buffer)
    BY <1>18, BlockAssumption
  <2>2. PICK tail \in Seq(S) : tail = FirstOf(buffer, left) /\ Len(tail) = left
    BY <1>18, <2>1, Splitting
  <2>3. Len(done) + left = n + p + LengthBytes
    <3>1. Len(Joined(done, tail)) = Len(done) + Len(tail)
      BY Joining
    <3>2. QED
      BY <1>16, <1>18, <2>2, <3>1
  <2>4. PICK j \in Nat : Len(done) = Block * j
    BY <1>13, <1>17, Joining, WholeIsMultiple
  <2>5. PICK total \in Nat : total = n + p + LengthBytes
    BY BlockAssumption
  <2>6. PICK i \in Nat : total = Block * i
    BY <1>8, <2>5, WholeIsMultiple
  <2>7. Block * j + left = Block * i
    BY <2>3, <2>4, <2>5, <2>6
  <2>8. QED
    BY <2>7, NothingLeft
<1>20. done = Message(n)
  BY <1>15, <1>18, <1>19, Beginnings, Joining
<1>21. Message(contentLen)' = Message(n)
  BY <1>2, <1>14, ZenonT(30) DEF Message, LengthField
<1>22. BlocksOfMessage'
  BY <1>14, <1>17, <1>19, <1>20, <1>21 DEF BlocksOfMessage
<1>23. QED
  BY <1>1, <1>14, <1>22 DEF BlockInv

\* Reading, feeding and finalizing keep what the hasher holds the content fed so far.
LEMMA BlockInductive == BlockInv /\ [BlockNext]_blockVars => BlockInv'
<1>1. SUFFICES ASSUME BlockInv, [BlockNext]_blockVars PROVE BlockInv'
  OBVIOUS
<1>2. CASE UNCHANGED blockVars
  BY <1>1, <1>2, ZenonT(30) DEF BlockInv, BlocksOfMessage, Message, LengthField, blockVars
<1>3. QED
  BY <1>1, <1>2, FeedKeeps, FinalizeKeeps DEF BlockNext

\* A hasher has compressed whole blocks, and what it has compressed and holds is what it
\* was fed, for blocks and length fields of any size, content of any length and read
\* buffers of any size.
THEOREM BlockInvariant == BlockSpec => []BlockInv
<1>1. BlockInit => BlockInv
  <2>1. SUFFICES ASSUME BlockInit PROVE BlockInv
    OBVIOUS
  <2>2. Block \in Nat \ {0} /\ 0 % Block = 0
    BY BlockAssumption
  <2>3. contentLen \in Nat /\ readSize \in Nat \ {0} /\ fed \in 0 .. contentLen /\ fed = 0
    BY <2>1, BlockAssumption DEF BlockInit
  <2>4. /\ hasher = [len |-> 0, buffer |-> Zeros(Block), buffer_len |-> 0, compressed |-> <<>>]
        /\ ~finalized
    BY <2>1 DEF BlockInit
  <2>5. Zeros(Block) \in [1 .. Block -> Nat] /\ <<>> \in Seq(Nat) /\ Len(<<>>) = 0 /\ 0 \in 0 .. Block - 1
    BY <2>2 DEF Zeros
  <2>6. hasher \in [len : {fed}, buffer : [1 .. Block -> Nat], buffer_len : 0 .. Block - 1,
                    compressed : Seq(Nat)]
    BY <2>3, <2>4, <2>5
  <2>7. BlocksOfMessage
    <3>1. SubSeq(hasher.buffer, 1, 0) = <<>>
      BY SubSeqEmpty
    <3>2. Content(0) = <<>>
      BY ContentGrows, Joining
    <3>3. hasher.compressed \o SubSeq(hasher.buffer, 1, hasher.buffer_len) = <<>>
      BY <2>4, <3>1
    <3>4. QED
      BY <2>3, <2>4, <3>2, <3>3 DEF BlocksOfMessage
  <2>8. QED
    BY <2>2, <2>3, <2>4, <2>5, <2>6, <2>7 DEF BlockInv
<1>2. QED
  BY <1>1, BlockInductive, PTL DEF BlockSpec

\* Whatever slices the content comes in, and however its length lies to the blocks, the
\* blocks compressed are those of the padded message of the standards.
THEOREM MessageIsHashed == BlockSpec => []BlocksOfMessage
<1>1. BlockInv => BlocksOfMessage
  BY DEF BlockInv
<1>2. QED
  BY <1>1, BlockInvariant, PTL

-----------------------------------------------------------------------------
(* The speed                                                               *)

\* Induction on the natural numbers, for a set of them.
LEMMA EveryNumber ==
    ASSUME NEW N, 0 \in N, \A n \in Nat : n \in N => n + 1 \in N
    PROVE  Nat \subseteq N
<1>1. SUFFICES ASSUME Nat \ N # {} PROVE FALSE
  OBVIOUS
<1>2. PICK least \in Nat \ N : \A n \in Nat \ N : ~(<<n, least>> \in OpToRel(<, Nat))
  BY <1>1, NatLessThanWellFounded, WFMin
<1>3. \A n \in Nat \ N : ~(n < least)
  BY <1>2 DEF OpToRel
<1>4. least # 0 /\ least \in Nat
  BY <1>2
<1>5. least - 1 \in Nat /\ least - 1 < least /\ (least - 1) + 1 = least
  BY <1>4, SMT
<1>6. least - 1 \in N
  BY <1>3, <1>5
<1>7. least \in N
  BY <1>5, <1>6
<1>8. QED
  BY <1>2, <1>7

\* Min is a least member, for sets of naturals.
LEMMA LeastOf ==
    ASSUME NEW S \in SUBSET Nat, S # {}
    PROVE  Min(S) \in S /\ \A n \in S : Min(S) <= n
<1>1. PICK least \in S : \A n \in S : ~(<<n, least>> \in OpToRel(<, Nat))
  BY NatLessThanWellFounded, WFMin
<1>2. \A n \in S : ~(n < least)
  BY <1>1 DEF OpToRel
<1>3. \A n \in S : least <= n
  BY <1>2, SMT
<1>4. QED
  BY <1>1, <1>3 DEF Min

\* Max of two integers is one of them, and no less than either.
LEMMA LargerOf ==
    ASSUME NEW m \in Int, NEW n \in Int
    PROVE  /\ Max({m, n}) \in {m, n} /\ Max({m, n}) >= m /\ Max({m, n}) >= n
<1>1. \E x \in {m, n} : \A y \in {m, n} : x >= y
  BY SMT
<1>2. QED
  BY <1>1 DEF Max

\* The choice the fold makes of each set, and the recursive function it is the value of.
Chosen(s) == CHOOSE x \in s : TRUE

IsSum(F, q, Sets) ==
    F = [s \in Sets |-> IF s = {} THEN 0 ELSE q[Chosen(s)].bytes + F[s \ {Chosen(s)}]]

\* The sum, as the community modules define it, in terms of the recursive function.
LEMMA BytesIs ==
    ASSUME NEW q, NEW S
    PROVE  Bytes(q, S) = (CHOOSE F : IsSum(F, q, SUBSET S))[S]
BY DEF Bytes, MapThenSumSet, MapThenFoldSet, IsSum, Chosen

\* A choice from a set that is not empty is one of it.
LEMMA ChosenIs == \A s : s # {} => Chosen(s) \in s
BY DEF Chosen

\* The recursive function of a sum is there: of all sets up to a size, hence of all.
LEMMA SumExists ==
    ASSUME NEW q, NEW S, IsFiniteSet(S)
    PROVE  \E F : IsSum(F, q, SUBSET S)
<1> DEFINE Small(n) == {s \in SUBSET S : Cardinality(s) <= n}
           N == {n \in Nat : \E F : IsSum(F, q, Small(n))}
<1>1. \A s \in SUBSET S : IsFiniteSet(s) /\ Cardinality(s) \in Nat
  BY FS_Subset, FS_CardinalityType
<1>2. \A s \in SUBSET S : s # {} => /\ s \ {Chosen(s)} \in SUBSET S
                                    /\ Cardinality(s \ {Chosen(s)}) = Cardinality(s) - 1
  BY <1>1, ChosenIs, FS_RemoveElement
<1>3. 0 \in N
  <2>1. \A s \in Small(0) : s = {}
    BY <1>1, FS_EmptySet
  <2>2. IsSum([s \in Small(0) |-> 0], q, Small(0))
    <3> HIDE DEF Small
    <3> QED
      BY <2>1 DEF IsSum
  <2>3. QED
    BY <2>2
<1>4. ASSUME NEW n \in Nat, n \in N PROVE n + 1 \in N
  <2>1. PICK F : IsSum(F, q, Small(n))
    BY <1>4
  <2> DEFINE G == [s \in Small(n + 1) |-> IF s = {} THEN 0 ELSE q[Chosen(s)].bytes + F[s \ {Chosen(s)}]]
  <2>2. \A s \in Small(n) : s \in Small(n + 1) /\ G[s] = F[s]
    <3>1. \A s \in Small(n) : s \in Small(n + 1)
      BY <1>1, SMT
    <3> HIDE DEF Small
    <3> QED
      BY <2>1, <3>1 DEF IsSum
  <2>3. \A s \in Small(n + 1) : s # {} => s \ {Chosen(s)} \in Small(n)
    BY <1>1, <1>2
  <2>4. IsSum(G, q, Small(n + 1))
    <3> HIDE DEF Small
    <3>1. \A s \in Small(n + 1) : s # {} => G[s \ {Chosen(s)}] = F[s \ {Chosen(s)}]
      BY <2>2, <2>3
    <3> QED
      BY <3>1 DEF IsSum
  <2> HIDE DEF G, Small
  <2>5. QED
    BY <2>4
<1>5. Cardinality(S) \in N
  <2> HIDE DEF N
  <2> QED
    BY <1>1, <1>3, <1>4, EveryNumber
<1>6. Small(Cardinality(S)) = SUBSET S
  <2>1. \A s \in SUBSET S : Cardinality(s) <= Cardinality(S)
    BY FS_Subset
  <2> QED
    BY <2>1
<1>7. QED
  BY <1>5, <1>6

\* Two such functions agree where both are defined.
LEMMA SumsAgree ==
    ASSUME NEW q, NEW S, IsFiniteSet(S), NEW T \in SUBSET S, NEW F, NEW G,
           IsSum(F, q, SUBSET S), IsSum(G, q, SUBSET T)
    PROVE  \A s \in SUBSET T : F[s] = G[s]
<1> DEFINE N == {n \in Nat : \A s \in SUBSET T : Cardinality(s) = n => F[s] = G[s]}
<1>1. \A s \in SUBSET T : IsFiniteSet(s) /\ Cardinality(s) \in Nat /\ s \in SUBSET S
  BY FS_Subset, FS_CardinalityType
<1>2. 0 \in N
  <2>1. \A s \in SUBSET T : Cardinality(s) = 0 => s = {}
    BY <1>1, FS_EmptySet
  <2>2. F[{}] = 0 /\ G[{}] = 0
    BY DEF IsSum
  <2>3. QED
    BY <2>1, <2>2
<1>3. ASSUME NEW n \in Nat, n \in N PROVE n + 1 \in N
  <2>1. SUFFICES ASSUME NEW s \in SUBSET T, Cardinality(s) = n + 1 PROVE F[s] = G[s]
    OBVIOUS
  <2>2. s # {}
    <3>1. Cardinality(s) # 0
      BY <2>1
    <3> QED
      BY <3>1, FS_EmptySet
  <2> DEFINE x == Chosen(s)
  <2>3. s \ {x} \in SUBSET T /\ Cardinality(s \ {x}) = n
    <3>1. x \in s
      BY <2>2, ChosenIs
    <3> HIDE DEF x
    <3>2. Cardinality(s \ {x}) = Cardinality(s) - 1
      BY <1>1, <3>1, FS_RemoveElement
    <3> QED
      BY <2>1, <3>2
  <2>4. F[s \ {x}] = G[s \ {x}]
    BY <1>3, <2>3
  <2>5. F[s] = q[x].bytes + F[s \ {x}] /\ G[s] = q[x].bytes + G[s \ {x}]
    BY <1>1, <2>2 DEF IsSum
  <2>6. QED
    BY <2>4, <2>5
<1>4. Nat \subseteq N
  <2> HIDE DEF N
  <2> QED
    BY <1>2, <1>3, EveryNumber
<1>5. QED
  BY <1>1, <1>4

\* The sum of a set is that of its chosen member and of the rest.
LEMMA BytesChosen ==
    ASSUME NEW q, NEW S, IsFiniteSet(S)
    PROVE  Bytes(q, S) = IF S = {} THEN 0 ELSE q[Chosen(S)].bytes + Bytes(q, S \ {Chosen(S)})
<1> DEFINE T == S \ {Chosen(S)}
           F == CHOOSE F : IsSum(F, q, SUBSET S)
           G == CHOOSE G : IsSum(G, q, SUBSET T)
<1>1. IsFiniteSet(T) /\ T \in SUBSET S
  BY FS_Subset
<1>2. IsSum(F, q, SUBSET S) /\ IsSum(G, q, SUBSET T)
  BY <1>1, SumExists
<1>3. Bytes(q, S) = F[S] /\ Bytes(q, T) = G[T]
  BY BytesIs
<1>4. F[T] = G[T]
  <2> HIDE DEF F, G, T
  <2> QED
    BY <1>1, <1>2, SumsAgree, SMTT(30)
<1>5. F[S] = IF S = {} THEN 0 ELSE q[Chosen(S)].bytes + F[T]
  <2> HIDE DEF F
  <2> QED
    BY <1>2 DEF IsSum
<1>6. QED
  BY <1>3, <1>4, <1>5

-----------------------------------------------------------------------------
\* Whichever sample is taken off first, the bytes are the same.
LEMMA BytesAdd ==
    ASSUME NEW q \in Seq(Sample), NEW S \in SUBSET DOMAIN q
    PROVE  /\ IsFiniteSet(S)
           /\ Bytes(q, S) \in Nat
           /\ S = {} => Bytes(q, S) = 0
           /\ \A x \in S : q[x].bytes \in Nat /\ Bytes(q, S) = q[x].bytes + Bytes(q, S \ {x})
<1> DEFINE Holds(s) == /\ Bytes(q, s) \in Nat
                       /\ \A x \in s : Bytes(q, s) = q[x].bytes + Bytes(q, s \ {x})
           N == {n \in Nat : \A s \in SUBSET DOMAIN q : Cardinality(s) <= n => Holds(s)}
<1>1. \A s \in SUBSET DOMAIN q : IsFiniteSet(s) /\ Cardinality(s) \in Nat
  <2>1. DOMAIN q = 1 .. Len(q) /\ Len(q) \in Nat
    OBVIOUS
  <2>2. IsFiniteSet(DOMAIN q)
    <3>1. 1 \in Int /\ Len(q) \in Int
      BY <2>1
    <3> QED
      BY <2>1, <3>1, FS_Interval
  <2>3. QED
    BY <2>2, FS_Subset, FS_CardinalityType
<1>2. Bytes(q, {}) = 0
  BY FS_EmptySet, BytesChosen
<1>3. \A x \in DOMAIN q : q[x].bytes \in Nat
  <2>1. \A x \in DOMAIN q : q[x] \in Sample
    OBVIOUS
  <2>2. QED
    BY <2>1 DEF Sample
<1>4. 0 \in N
  <2>1. \A s \in SUBSET DOMAIN q : Cardinality(s) <= 0 => s = {}
    BY <1>1, FS_EmptySet
  <2>2. Holds({})
    BY <1>2
  <2> HIDE DEF Holds
  <2>3. QED
    BY <2>1, <2>2
<1>5. ASSUME NEW n \in Nat, n \in N PROVE n + 1 \in N
  <2> SUFFICES ASSUME NEW s \in SUBSET DOMAIN q, Cardinality(s) <= n + 1 PROVE Holds(s)
    <3> HIDE DEF Holds
    <3> QED
      OBVIOUS
  <2>1. CASE s = {}
    <3>1. Holds({})
      BY <1>2
    <3> HIDE DEF Holds
    <3> QED
      BY <2>1, <3>1
  <2> SUFFICES ASSUME s # {} PROVE Holds(s)
    <3> HIDE DEF Holds
    <3> QED
      BY <2>1
  <2>2. \A t \in SUBSET s : \A x \in t : t \ {x} \in SUBSET s /\ Cardinality(t \ {x}) = Cardinality(t) - 1
    BY <1>1, FS_RemoveElement
  <2>3. \A x \in s : Holds(s \ {x})
    BY <1>1, <1>5, <2>2
  <2>4. \A x \in s : \A y \in s \ {x} : Holds((s \ {x}) \ {y})
    <3>1. SUFFICES ASSUME NEW x \in s, NEW y \in s \ {x} PROVE Cardinality((s \ {x}) \ {y}) <= n
      BY <1>5
    <3>2. Cardinality(s \ {x}) = Cardinality(s) - 1
          /\ Cardinality((s \ {x}) \ {y}) = Cardinality(s \ {x}) - 1
      BY <2>2
    <3>3. QED
      BY <1>1, <3>2
  <2>5. PICK y \in s : Bytes(q, s) = q[y].bytes + Bytes(q, s \ {y})
    BY <1>1, BytesChosen, ChosenIs
  <2>6. Bytes(q, s) \in Nat
    BY <1>3, <2>3, <2>5
  <2>7. ASSUME NEW x \in s, x # y PROVE Bytes(q, s) = q[x].bytes + Bytes(q, s \ {x})
    <3>1. x \in s \ {y} /\ y \in s \ {x} /\ (s \ {x}) \ {y} = (s \ {y}) \ {x}
      BY <2>7
    <3>2. /\ Bytes(q, s \ {y}) = q[x].bytes + Bytes(q, (s \ {y}) \ {x})
          /\ Bytes(q, s \ {x}) = q[y].bytes + Bytes(q, (s \ {y}) \ {x})
      BY <2>3, <3>1
    <3>3. Bytes(q, (s \ {y}) \ {x}) \in Nat
      BY <2>4, <3>1
    <3>4. q[x].bytes \in Nat /\ q[y].bytes \in Nat
      BY <1>3
    <3>5. QED
      BY <2>5, <3>2, <3>3, <3>4
  <2>8. QED
    BY <2>5, <2>6, <2>7
<1>6. Nat \subseteq N
  <2> HIDE DEF N
  <2> QED
    BY <1>4, <1>5, EveryNumber
<1>7. Holds(S)
  <2>1. Cardinality(S) \in N /\ Cardinality(S) <= Cardinality(S)
    BY <1>1, <1>6
  <2> HIDE DEF Holds
  <2>2. QED
    BY <2>1
<1>8. QED
  BY <1>1, <1>2, <1>3, <1>7

\* More samples, no fewer bytes.
LEMMA BytesMonotone ==
    ASSUME NEW q \in Seq(Sample), NEW T \in SUBSET DOMAIN q, NEW S \in SUBSET T
    PROVE  Bytes(q, S) <= Bytes(q, T)
<1> DEFINE N == {n \in Nat : \A t \in SUBSET DOMAIN q :
                    Cardinality(t) = n /\ S \subseteq t => Bytes(q, S) <= Bytes(q, t)}
<1>1. \A t \in SUBSET DOMAIN q : IsFiniteSet(t) /\ Cardinality(t) \in Nat /\ Bytes(q, t) \in Nat
  BY BytesAdd, FS_CardinalityType
<1>2. 0 \in N
  <2>1. \A t \in SUBSET DOMAIN q : Cardinality(t) = 0 /\ S \subseteq t => t = S
    BY <1>1, FS_EmptySet
  <2>2. QED
    BY <1>1, <2>1
<1>3. ASSUME NEW n \in Nat, n \in N PROVE n + 1 \in N
  <2>1. SUFFICES ASSUME NEW t \in SUBSET DOMAIN q, Cardinality(t) = n + 1, S \subseteq t
                 PROVE  Bytes(q, S) <= Bytes(q, t)
    OBVIOUS
  <2>2. CASE t = S
    BY <1>1, <2>2
  <2>3. CASE t # S
    <3>1. PICK x \in t : x \notin S
      BY <2>1, <2>3
    <3>2. Cardinality(t \ {x}) = Cardinality(t) - 1
      BY <1>1, <3>1, FS_RemoveElement
    <3>3. Cardinality(t \ {x}) = n /\ S \subseteq t \ {x} /\ t \ {x} \in SUBSET DOMAIN q
      BY <2>1, <3>1, <3>2
    <3>4. Bytes(q, S) <= Bytes(q, t \ {x})
      BY <1>3, <3>3
    <3>5. q[x].bytes \in Nat /\ Bytes(q, t) = q[x].bytes + Bytes(q, t \ {x})
      BY BytesAdd
    <3>6. Bytes(q, S) \in Nat /\ Bytes(q, t \ {x}) \in Nat
      BY <1>1, <2>1, <3>3
    <3>7. QED
      BY <3>4, <3>5, <3>6
  <2>4. QED
    BY <2>2, <2>3
<1>4. Nat \subseteq N
  <2> HIDE DEF N
  <2> QED
    BY <1>2, <1>3, EveryNumber
<1>5. QED
  BY <1>1, <1>4

\* The samples of a queue that is the end of another are as many bytes there.
LEMMA BytesShift ==
    ASSUME NEW p \in Seq(Sample), NEW q \in Seq(Sample), NEW k \in Nat,
           \A i \in DOMAIN p : k + i \in DOMAIN q /\ p[i] = q[k + i]
    PROVE  Bytes(p, DOMAIN p) = Bytes(q, {k + i : i \in DOMAIN p})
<1> DEFINE Shifted(s) == {k + i : i \in s}
           N == {n \in Nat : \A s \in SUBSET DOMAIN p :
                    Cardinality(s) = n => Bytes(p, s) = Bytes(q, Shifted(s))}
<1>1. \A s \in SUBSET DOMAIN p : IsFiniteSet(s) /\ Cardinality(s) \in Nat
  BY BytesAdd, FS_CardinalityType
<1>2. 0 \in N
  <2>1. \A s \in SUBSET DOMAIN p : Cardinality(s) = 0 => s = {}
    BY <1>1, FS_EmptySet
  <2>2. Bytes(p, {}) = 0 /\ Bytes(q, {}) = 0
    BY BytesAdd
  <2>3. Shifted({}) = {}
    OBVIOUS
  <2>4. QED
    BY <2>1, <2>2, <2>3
<1>3. ASSUME NEW n \in Nat, n \in N PROVE n + 1 \in N
  <2>1. SUFFICES ASSUME NEW s \in SUBSET DOMAIN p, Cardinality(s) = n + 1
                 PROVE  Bytes(p, s) = Bytes(q, Shifted(s))
    <3> HIDE DEF Shifted
    <3> QED
      OBVIOUS
  <2>2. PICK x \in s : TRUE
    <3>1. Cardinality(s) # 0
      BY <2>1
    <3> QED
      BY <3>1, FS_EmptySet
  <2>3. Cardinality(s \ {x}) = Cardinality(s) - 1
    BY <1>1, FS_RemoveElement
  <2>4. Cardinality(s \ {x}) = n /\ s \ {x} \in SUBSET DOMAIN p
    BY <2>1, <2>3
  <2>5. Bytes(p, s \ {x}) = Bytes(q, Shifted(s \ {x}))
    BY <1>3, <2>4
  <2>6. s \subseteq Nat
    <3>1. DOMAIN p = 1 .. Len(p) /\ Len(p) \in Nat
      OBVIOUS
    <3> QED
      BY <3>1
  <2>7. Shifted(s) \in SUBSET DOMAIN q /\ k + x \in Shifted(s) /\ p[x] = q[k + x]
    OBVIOUS
  <2>8. Shifted(s \ {x}) = Shifted(s) \ {k + x}
    BY <2>6
  <2>9. Bytes(p, s) = p[x].bytes + Bytes(p, s \ {x})
    BY BytesAdd
  <2>10. Bytes(q, Shifted(s)) = q[k + x].bytes + Bytes(q, Shifted(s) \ {k + x})
    <3> HIDE DEF Shifted
    <3> QED
      BY <2>7, BytesAdd
  <2>11. QED
    <3> HIDE DEF Shifted
    <3> QED
      BY <2>5, <2>7, <2>8, <2>9, <2>10
<1>4. Nat \subseteq N
  <2> HIDE DEF N
  <2> QED
    BY <1>2, <1>3, EveryNumber
<1>5. QED
  BY <1>1, <1>4

-----------------------------------------------------------------------------
\* What is popped is older than the window, and what is left begins with what is not.
LEMMA RetainedIs ==
    ASSUME NEW queue \in Seq(Sample), NEW now \in Nat
    PROVE  \E n \in 0 .. Len(queue) :
              /\ Retained(queue, now) \in Seq(Sample)
              /\ Len(Retained(queue, now)) = Len(queue) - n
              /\ \A i \in 1 .. Len(queue) - n : Retained(queue, now)[i] = queue[n + i]
              /\ \A i \in 1 .. n : queue[i].at < now - Window
              /\ n < Len(queue) => queue[n + 1].at >= now - Window
<1> DEFINE young == {i \in DOMAIN queue : queue[i].at >= now - Window}
           Cut(n) == /\ Retained(queue, now) \in Seq(Sample)
                     /\ Len(Retained(queue, now)) = Len(queue) - n
                     /\ \A i \in 1 .. Len(queue) - n : Retained(queue, now)[i] = queue[n + i]
                     /\ \A i \in 1 .. n : queue[i].at < now - Window
                     /\ n < Len(queue) => queue[n + 1].at >= now - Window
<1> SUFFICES \E n \in 0 .. Len(queue) : Cut(n)
  OBVIOUS
<1>0. Window \in Nat
  BY SpeedAssumption
<1>1. DOMAIN queue = 1 .. Len(queue) /\ Len(queue) \in Nat
  OBVIOUS
<1>2. \A i \in DOMAIN queue : queue[i].at \in Nat
  <2>1. \A i \in DOMAIN queue : queue[i] \in Sample
    OBVIOUS
  <2> QED
    BY <2>1 DEF Sample
<1>3. CASE young = {}
  <2>1. Retained(queue, now) = <<>>
    BY <1>3 DEF Retained
  <2>2. Len(queue) \in 0 .. Len(queue) /\ Len(queue) - Len(queue) = 0
    BY <1>1
  <2>3. \A i \in 1 .. Len(queue) : queue[i].at < now - Window
    BY <1>0, <1>1, <1>2, <1>3
  <2>4. Cut(Len(queue))
    BY <1>1, <2>1, <2>2, <2>3
  <2> HIDE DEF Cut
  <2>5. QED
    BY <2>2, <2>4
<1>4. CASE young # {}
  <2> DEFINE m == Min(young)
  <2>1. m \in young /\ \A i \in young : m <= i
    <3>1. young \in SUBSET Nat
      BY <1>1
    <3> HIDE DEF young
    <3> QED
      BY <1>4, <3>1, LeastOf
  <2>2. Retained(queue, now) = SubSeq(queue, m, Len(queue))
    BY <1>4 DEF Retained
  <2>3. m \in 1 .. Len(queue) /\ queue[m].at >= now - Window
    BY <1>1, <2>1
  <2>4. ASSUME NEW i \in 1 .. Len(queue), i < m PROVE queue[i].at < now - Window
    <3>1. i \notin young
      <4> HIDE DEF young
      <4> QED
        BY <2>1, <2>3, <2>4
    <3>2. ~(queue[i].at >= now - Window)
      BY <1>1, <3>1
    <3> QED
      BY <1>0, <1>1, <1>2, <3>2
  <2> HIDE DEF m, young
  <2>5. /\ SubSeq(queue, m, Len(queue)) \in Seq(Sample)
        /\ Len(SubSeq(queue, m, Len(queue))) = Len(queue) - m + 1
        /\ \A i \in 1 .. Len(queue) - m + 1 : SubSeq(queue, m, Len(queue))[i] = queue[m + i - 1]
    BY <1>1, <2>3, SubSeqProperties
  <2>6. m - 1 \in 0 .. Len(queue) /\ Len(queue) - (m - 1) = Len(queue) - m + 1
        /\ (m - 1) + 1 = m /\ \A i \in Nat : (m - 1) + i = m + i - 1
    BY <1>1, <2>3
  <2>7. \A i \in 1 .. m - 1 : queue[i].at < now - Window
    BY <1>1, <2>3, <2>4
  <2>8. ASSUME NEW i \in 1 .. Len(queue) - (m - 1) PROVE Retained(queue, now)[i] = queue[(m - 1) + i]
    <3>1. i \in 1 .. Len(queue) - m + 1
      BY <2>6
    <3>2. Retained(queue, now)[i] = queue[m + i - 1]
      BY <2>2, <2>5, <3>1
    <3>3. (m - 1) + i = m + i - 1
      BY <2>3, <3>1
    <3> QED
      BY <3>2, <3>3
  <2>9. Cut(m - 1)
    BY <2>2, <2>3, <2>5, <2>6, <2>7, <2>8
  <2> HIDE DEF Cut
  <2>10. QED
    BY <2>6, <2>9
<1>5. QED
  BY <1>3, <1>4

\* A refresh of a queue that is the end of what has arrived pops what is too old for it,
\* and what it counts is of the window as SpeedIsOfWindow has it.
LEMMA Refreshed ==
    ASSUME NEW queue \in Seq(Sample), NEW now \in Nat, NEW since \in Nat \cup {None},
           newest \in Nat, arrivals' \in Seq(Sample),
           Len(queue) <= Len(arrivals'),
           \A i \in DOMAIN queue : queue[i] = arrivals'[Len(arrivals') - Len(queue) + i],
           \A i \in 1 .. Len(arrivals') - Len(queue) : arrivals'[i].at < newest - Window,
           \A i, j \in DOMAIN arrivals' : i < j => arrivals'[i].at <= arrivals'[j].at + Delay,
           Refresh(queue, since, now)
    PROVE  /\ newest' \in {newest, now} /\ used' = now /\ started' = since
           /\ samples' \in Seq(Sample) /\ Len(samples') <= Len(arrivals')
           /\ \A i \in DOMAIN samples' : samples'[i] = arrivals'[Popped' + i]
           /\ \A i \in 1 .. Popped' : arrivals'[i].at < newest' - Window
           /\ SpeedIsOfWindow'
<1> DEFINE arr == arrivals'
           d == Len(arr) - Len(queue)
<1>0. Window \in Nat /\ Delay \in Nat
  BY SpeedAssumption
<1>1. /\ samples' = Retained(queue, now) /\ interval' = BytesOf(samples')
      /\ started' = since /\ used' = now /\ newest' = Max({newest, now})
      /\ elapsed' = Max({0, now - IF since = None THEN now - Window ELSE Max({since, now - Window})})
  BY DEF Refresh
<1>2. /\ newest' \in {newest, now} /\ newest' >= newest /\ newest' >= now
  <2>1. newest \in Int /\ now \in Int
    OBVIOUS
  <2> QED
    BY <1>1, <2>1, LargerOf, Zenon
<1>3. PICK n \in 0 .. Len(queue) :
         /\ samples' \in Seq(Sample) /\ Len(samples') = Len(queue) - n
         /\ \A i \in 1 .. Len(queue) - n : samples'[i] = queue[n + i]
         /\ \A i \in 1 .. n : queue[i].at < now - Window
         /\ n < Len(queue) => queue[n + 1].at >= now - Window
  BY <1>1, RetainedIs
<1>4. /\ DOMAIN queue = 1 .. Len(queue) /\ Len(queue) \in Nat /\ DOMAIN arr = 1 .. Len(arr)
      /\ Len(arr) \in Nat /\ d \in Nat /\ DOMAIN samples' = 1 .. Len(queue) - n /\ n \in Nat
  BY <1>3
<1>5. \A i \in DOMAIN arr : arr[i].at \in Nat
  <2>1. \A i \in DOMAIN arr : arr[i] \in Sample
    OBVIOUS
  <2> QED
    BY <2>1 DEF Sample
<1> DEFINE k == d + n
<1>6. Popped' = k /\ k \in Nat /\ k + (Len(queue) - n) = Len(arr)
  BY <1>3, <1>4 DEF Popped
<1>7. \A i \in DOMAIN samples' : samples'[i] = arr[k + i] /\ k + i \in DOMAIN arr
  <2>1. SUFFICES ASSUME NEW i \in DOMAIN samples' PROVE samples'[i] = arr[k + i] /\ k + i \in DOMAIN arr
    OBVIOUS
  <2>2. i \in 1 .. Len(queue) - n /\ n + i \in DOMAIN queue /\ d + (n + i) = k + i
    BY <1>3, <1>4
  <2>3. samples'[i] = queue[n + i] /\ queue[n + i] = arr[d + (n + i)]
    BY <1>3, <2>2
  <2>4. k + i \in 1 .. Len(arr)
    <3> HIDE DEF k
    <3> QED
      BY <1>4, <1>6, <2>2, SMTT(30)
  <2>5. QED
    BY <1>4, <2>2, <2>3, <2>4
<1>8. \A i \in 1 .. k : arr[i].at < newest' - Window
  <2>1. SUFFICES ASSUME NEW i \in 1 .. k PROVE arr[i].at < newest' - Window
    OBVIOUS
  <2>2. arr[i].at \in Nat /\ i \in Nat
    BY <1>3, <1>4, <1>5
  <2>3. CASE i <= d
    <3>1. arr[i].at < newest - Window
      BY <1>4, <2>3
    <3> HIDE DEF arr
    <3> QED
      BY <1>0, <1>2, <2>2, <3>1
  <2>4. CASE i > d
    <3>1. i - d \in 1 .. n /\ i - d \in DOMAIN queue /\ d + (i - d) = i
      BY <1>3, <1>4, <2>2, <2>4
    <3>2. queue[i - d].at < now - Window /\ queue[i - d] = arr[i]
      BY <1>3, <3>1
    <3>3. arr[i].at < now - Window
      BY <3>2
    <3> HIDE DEF arr
    <3> QED
      BY <1>0, <1>2, <2>2, <3>3
  <2>5. QED
    BY <1>4, <2>2, <2>3, <2>4
<1> DEFINE kept == {k + i : i \in DOMAIN samples'}
<1>9. kept \subseteq DOMAIN arr
  BY <1>7
<1>10. interval' = Bytes(arr, kept)
  <2>1. interval' = Bytes(samples', DOMAIN samples')
    BY <1>1 DEF BytesOf
  <2> HIDE DEF k, arr
  <2>2. arr \in Seq(Sample)
    BY DEF arr
  <2> QED
    BY <1>3, <1>6, <1>7, <2>1, <2>2, BytesShift
<1>11. Since(newest - Window)' \subseteq kept
  <2>1. SUFFICES ASSUME NEW i \in DOMAIN arr, arr[i].at >= newest' - Window PROVE i \in kept
    BY DEF Since
  <2>2. i > k
    <3>1. arr[i].at \in Nat /\ newest' \in Nat
      BY <1>2, <1>5
    <3>2. i \notin 1 .. k
      BY <1>0, <1>8, <2>1, <3>1, SMTT(30)
    <3> QED
      BY <1>4, <1>6, <3>2
  <2>3. i - k \in DOMAIN samples' /\ i = k + (i - k)
    <3> HIDE DEF k
    <3> QED
      BY <1>4, <1>6, <2>2
  <2>4. QED
    BY <2>3
<1>12. kept \subseteq Since(used - Window - Delay)'
  <2>1. SUFFICES ASSUME NEW i \in DOMAIN samples' PROVE arr[k + i].at >= now - Window - Delay
    BY <1>1, <1>7 DEF Since
  <2>2. n < Len(queue) /\ 1 \in DOMAIN samples' /\ n + 1 \in DOMAIN queue
    BY <1>3, <1>4
  <2>3. queue[n + 1].at >= now - Window /\ samples'[1] = queue[n + 1] /\ samples'[1] = arr[k + 1]
    BY <1>3, <1>4, <1>7, <2>2
  <2>4. arr[k + 1].at >= now - Window
    BY <2>3
  <2>5. k + 1 \in DOMAIN arr /\ k + i \in DOMAIN arr
    BY <1>7, <2>2
  <2>6. arr[k + 1].at \in Nat /\ arr[k + i].at \in Nat
    BY <1>5, <2>5
  <2>7. CASE i = 1
    <3>1. arr[k + i].at >= now - Window
      BY <2>4, <2>7
    <3> HIDE DEF arr, k
    <3> QED
      BY <1>0, <2>6, <3>1
  <2>8. CASE i # 1
    <3>1. k + 1 < k + i
      BY <1>4, <1>6, <2>8
    <3>2. arr[k + 1].at <= arr[k + i].at + Delay
      BY <2>5, <3>1
    <3> HIDE DEF arr, k
    <3> QED
      BY <1>0, <2>4, <2>6, <3>2
  <2>9. QED
    BY <2>7, <2>8
<1>13. interval' >= Bytes(arrivals, Since(newest - Window))'
       /\ interval' <= Bytes(arrivals, Since(used - Window - Delay))'
  <2>1. arr \in Seq(Sample) /\ Since(used - Window - Delay)' \in SUBSET DOMAIN arr
    BY DEF Since
  <2> HIDE DEF kept
  <2>2. Bytes(arr, Since(newest - Window)') <= Bytes(arr, kept)
    BY <1>9, <1>11, <2>1, BytesMonotone
  <2>3. Bytes(arr, kept) <= Bytes(arr, Since(used - Window - Delay)')
    BY <1>12, <2>1, BytesMonotone
  <2>4. /\ Bytes(arr, kept) \in Nat /\ Bytes(arr, Since(newest - Window)') \in Nat
    BY <1>9, <1>11, <2>1, BytesAdd
  <2>5. Bytes(arrivals, Since(newest - Window))' = Bytes(arr, Since(newest - Window)')
        /\ Bytes(arrivals, Since(used - Window - Delay))' = Bytes(arr, Since(used - Window - Delay)')
    OBVIOUS
  <2>6. QED
    BY <1>10, <2>2, <2>3, <2>4, <2>5
<1>14. elapsed' <= Window
  <2> DEFINE from == IF since = None THEN now - Window ELSE Max({since, now - Window})
  <2>1. from \in Int /\ from >= now - Window
    <3>1. CASE since = None
      BY <1>0, <3>1
    <3>2. CASE since # None
      <4>1. since \in Int /\ now - Window \in Int
        BY <1>0, <3>2
      <4>2. from = Max({since, now - Window})
        BY <3>2
      <4>3. from \in {since, now - Window} /\ from >= now - Window
        BY <4>1, <4>2, LargerOf, Zenon
      <4> QED
        BY <4>1, <4>3
    <3>3. QED
      BY <3>1, <3>2
  <2>2. elapsed' = Max({0, now - from})
    BY <1>1
  <2> HIDE DEF from
  <2>3. now - from \in Int /\ now - from <= Window
    BY <1>0, <2>1
  <2>4. Max({0, now - from}) \in {0, now - from}
    <3>1. 0 \in Int
      OBVIOUS
    <3> QED
      BY <2>3, <3>1, LargerOf, Zenon
  <2>5. QED
    BY <1>0, <2>2, <2>3, <2>4
<1>15. SpeedIsOfWindow'
  BY <1>13, <1>14 DEF SpeedIsOfWindow
<1>16. Len(samples') <= Len(arr)
  BY <1>3, <1>4
<1>17. QED
  BY <1>1, <1>2, <1>3, <1>6, <1>7, <1>8, <1>15, <1>16

\* What arrives is the end of the queue as it is the end of what has arrived.
LEMMA Arrives ==
    ASSUME NEW queue \in Seq(Sample), NEW arr \in Seq(Sample), NEW new \in Sample,
           Len(queue) <= Len(arr),
           \A i \in DOMAIN queue : queue[i] = arr[Len(arr) - Len(queue) + i]
    PROVE  /\ Append(queue, new) \in Seq(Sample) /\ Append(arr, new) \in Seq(Sample)
           /\ Len(Append(queue, new)) <= Len(Append(arr, new))
           /\ Len(Append(arr, new)) - Len(Append(queue, new)) = Len(arr) - Len(queue)
           /\ \A i \in DOMAIN Append(queue, new) :
                 Append(queue, new)[i]
                    = Append(arr, new)[Len(Append(arr, new)) - Len(Append(queue, new)) + i]
           /\ Len(Append(arr, new)) = Len(arr) + 1 /\ Append(arr, new)[Len(arr) + 1] = new
           /\ \A i \in DOMAIN arr : Append(arr, new)[i] = arr[i]
           /\ DOMAIN Append(arr, new) = 1 .. Len(arr) + 1
<1>1. PICK q : q = Append(queue, new)
  OBVIOUS
<1>2. PICK a : a = Append(arr, new)
  OBVIOUS
<1>3. /\ q \in Seq(Sample) /\ Len(q) = Len(queue) + 1 /\ q[Len(queue) + 1] = new
      /\ \A i \in 1 .. Len(queue) : q[i] = queue[i]
  BY <1>1
<1>4. /\ a \in Seq(Sample) /\ Len(a) = Len(arr) + 1 /\ a[Len(arr) + 1] = new
      /\ \A i \in 1 .. Len(arr) : a[i] = arr[i]
  BY <1>2
<1>5. /\ Len(queue) \in Nat /\ Len(arr) \in Nat /\ DOMAIN queue = 1 .. Len(queue)
      /\ DOMAIN arr = 1 .. Len(arr) /\ DOMAIN q = 1 .. Len(queue) + 1
      /\ DOMAIN a = 1 .. Len(arr) + 1
  BY <1>3, <1>4
<1>6. Len(a) - Len(q) = Len(arr) - Len(queue) /\ Len(q) <= Len(a)
  BY <1>3, <1>4, <1>5
<1>7. ASSUME NEW i \in DOMAIN q PROVE q[i] = a[Len(a) - Len(q) + i]
  <2>1. CASE i = Len(queue) + 1
    <3>1. Len(a) - Len(q) + i = Len(arr) + 1
      BY <1>5, <1>6, <2>1, SMTT(30)
    <3> QED
      BY <1>3, <1>4, <2>1, <3>1
  <2>2. CASE i \in 1 .. Len(queue)
    <3>1. Len(a) - Len(q) + i = Len(arr) - Len(queue) + i /\ Len(arr) - Len(queue) + i \in 1 .. Len(arr)
      BY <1>5, <1>6, <2>2
    <3>2. q[i] = queue[i] /\ queue[i] = arr[Len(arr) - Len(queue) + i]
      BY <1>3, <1>5, <2>2
    <3>3. a[Len(arr) - Len(queue) + i] = arr[Len(arr) - Len(queue) + i]
      BY <1>4, <3>1
    <3> QED
      BY <3>1, <3>2, <3>3
  <2> QED
    BY <1>5, <2>1, <2>2
<1> QED
  BY <1>1, <1>2, <1>3, <1>4, <1>5, <1>6, <1>7

\* A body fragment is recorded under the stamp its task took earlier.
LEMMA RecordKeeps == ASSUME SpeedInv, NEW t \in Fetchers, Record(t) PROVE SpeedInv'
<1>0. t \in SpeedThreads /\ Delay \in Nat /\ BodyLengths \subseteq Nat
  BY SpeedAssumption DEF SpeedThreads
<1>1. /\ moment \in Nat /\ used \in Nat /\ newest \in Nat /\ newest <= moment
      /\ stamp \in [SpeedThreads -> Nat \cup {None}]
      /\ started \in Nat \cup {None}
      /\ samples \in Seq(Sample) /\ arrivals \in Seq(Sample)
      /\ Len(samples) <= Len(arrivals)
      /\ \A i \in DOMAIN samples : samples[i] = arrivals[Len(arrivals) - Len(samples) + i]
      /\ \A i \in 1 .. Len(arrivals) - Len(samples) : arrivals[i].at < newest - Window
      /\ \A i \in DOMAIN arrivals : arrivals[i].at <= moment
      /\ \A i, j \in DOMAIN arrivals : i < j => arrivals[i].at <= arrivals[j].at + Delay
  BY DEF SpeedInv, Popped
<1>2. \A s \in SpeedThreads : stamp[s] # None => moment \in stamp[s] .. stamp[s] + Delay
  BY DEF SpeedInv
<1>3. stamp[t] # None /\ stamp' = [stamp EXCEPT ![t] = None] /\ moment' = moment
  BY DEF Record
<1>4. PICK now : now = stamp[t]
  OBVIOUS
<1>5. now \in Nat /\ now <= moment /\ moment <= now + Delay
  <2>1. now \in Nat /\ moment \in now .. now + Delay
    BY <1>0, <1>1, <1>2, <1>3, <1>4
  <2> QED
    BY <1>0, <1>1, <2>1
<1>6. PICK bytes \in BodyLengths :
         /\ arrivals' = Append(arrivals, [at |-> now, bytes |-> bytes])
         /\ Refresh(Append(samples, [at |-> now, bytes |-> bytes]),
                    IF started = None THEN now ELSE started, now)
  BY <1>4 DEF Record
<1>7. PICK new : new = [at |-> now, bytes |-> bytes]
  OBVIOUS
<1>8. new \in Sample /\ new.at = now
  BY <1>0, <1>5, <1>7 DEF Sample
<1>9. PICK queue : queue = Append(samples, new)
  OBVIOUS
<1>10. PICK since : since = IF started = None THEN now ELSE started
  OBVIOUS
<1>11. since \in Nat \cup {None}
  BY <1>1, <1>5, <1>10
<1>12. arrivals' = Append(arrivals, new) /\ Refresh(queue, since, now)
  BY <1>6, <1>7, <1>9, <1>10
<1>13. /\ queue \in Seq(Sample) /\ arrivals' \in Seq(Sample)
       /\ Len(queue) <= Len(arrivals')
       /\ Len(arrivals') - Len(queue) = Len(arrivals) - Len(samples)
       /\ \A i \in DOMAIN queue : queue[i] = arrivals'[Len(arrivals') - Len(queue) + i]
       /\ Len(arrivals') = Len(arrivals) + 1 /\ arrivals'[Len(arrivals) + 1] = new
       /\ \A i \in DOMAIN arrivals : arrivals'[i] = arrivals[i]
       /\ DOMAIN arrivals' = 1 .. Len(arrivals) + 1
  BY <1>1, <1>8, <1>9, <1>12, Arrives
<1>14. Len(arrivals) \in Nat /\ DOMAIN arrivals = 1 .. Len(arrivals) /\ Len(samples) \in Nat
  BY <1>1
<1>15. \A i \in 1 .. Len(arrivals) - Len(samples) : arrivals'[i].at < newest - Window
  <2>1. ASSUME NEW i \in 1 .. Len(arrivals) - Len(samples) PROVE arrivals'[i].at < newest - Window
    <3>1. i \in DOMAIN arrivals
      BY <1>1, <1>14
    <3> QED
      BY <1>1, <1>13, <3>1
  <2> QED
    BY <2>1
<1>16. \A i \in DOMAIN arrivals : arrivals[i].at \in Nat
  <2>1. \A i \in DOMAIN arrivals : arrivals[i] \in Sample
    BY <1>1
  <2> QED
    BY <2>1 DEF Sample
<1>17. \A i \in DOMAIN arrivals' : arrivals'[i].at <= moment
  <2>1. ASSUME NEW i \in DOMAIN arrivals' PROVE arrivals'[i].at <= moment
    <3>1. i \in DOMAIN arrivals \/ i = Len(arrivals) + 1
      BY <1>13, <1>14
    <3> QED
      BY <1>1, <1>5, <1>8, <1>13, <3>1
  <2> QED
    BY <2>1
<1>18. \A i, j \in DOMAIN arrivals' : i < j => arrivals'[i].at <= arrivals'[j].at + Delay
  <2>1. ASSUME NEW i \in DOMAIN arrivals', NEW j \in DOMAIN arrivals', i < j
        PROVE  arrivals'[i].at <= arrivals'[j].at + Delay
    <3>1. i \in DOMAIN arrivals /\ (j \in DOMAIN arrivals \/ j = Len(arrivals) + 1)
      BY <1>13, <1>14, <2>1
    <3>2. CASE j \in DOMAIN arrivals
      BY <1>1, <1>13, <2>1, <3>1, <3>2
    <3>3. CASE j = Len(arrivals) + 1
      <4>1. arrivals'[i].at <= moment /\ arrivals'[i].at \in Nat
        BY <1>1, <1>13, <1>16, <3>1
      <4>2. arrivals'[j].at = now
        BY <1>8, <1>13, <3>3
      <4> QED
        BY <1>0, <1>1, <1>5, <4>1, <4>2
    <3> QED
      BY <3>1, <3>2, <3>3
  <2> QED
    BY <2>1
<1>19. /\ newest' \in {newest, now} /\ used' = now /\ started' = since
       /\ samples' \in Seq(Sample) /\ Len(samples') <= Len(arrivals')
       /\ \A i \in DOMAIN samples' : samples'[i] = arrivals'[Popped' + i]
       /\ \A i \in 1 .. Popped' : arrivals'[i].at < newest' - Window
       /\ SpeedIsOfWindow'
  BY <1>1, <1>5, <1>11, <1>12, <1>13, <1>15, <1>18, Refreshed
<1>20. stamp' \in [SpeedThreads -> Nat \cup {None}]
       /\ \A s \in SpeedThreads : stamp'[s] # None => moment' \in stamp'[s] .. stamp'[s] + Delay
  BY <1>0, <1>1, <1>2, <1>3
<1>21. newest' \in 0 .. moment'
  BY <1>1, <1>3, <1>5, <1>19
<1> QED
  BY <1>1, <1>3, <1>5, <1>11, <1>13, <1>17, <1>18, <1>19, <1>20, <1>21 DEF SpeedInv

\* A snapshot refreshes the window under the stamp its thread took earlier.
LEMMA SnapshotKeeps == ASSUME SpeedInv, NEW t \in Reporters, Snapshot(t) PROVE SpeedInv'
<1>0. t \in SpeedThreads /\ Delay \in Nat
  BY SpeedAssumption DEF SpeedThreads
<1>1. /\ moment \in Nat /\ used \in Nat /\ newest \in Nat /\ newest <= moment
      /\ stamp \in [SpeedThreads -> Nat \cup {None}]
      /\ started \in Nat \cup {None}
      /\ samples \in Seq(Sample) /\ arrivals \in Seq(Sample)
      /\ Len(samples) <= Len(arrivals)
      /\ \A i \in DOMAIN samples : samples[i] = arrivals[Len(arrivals) - Len(samples) + i]
      /\ \A i \in 1 .. Len(arrivals) - Len(samples) : arrivals[i].at < newest - Window
      /\ \A i \in DOMAIN arrivals : arrivals[i].at <= moment
      /\ \A i, j \in DOMAIN arrivals : i < j => arrivals[i].at <= arrivals[j].at + Delay
  BY DEF SpeedInv, Popped
<1>2. \A s \in SpeedThreads : stamp[s] # None => moment \in stamp[s] .. stamp[s] + Delay
  BY DEF SpeedInv
<1>3. /\ stamp[t] # None /\ stamp' = [stamp EXCEPT ![t] = None] /\ moment' = moment
      /\ arrivals' = arrivals
  BY DEF Snapshot
<1>4. PICK now : now = stamp[t]
  OBVIOUS
<1>5. now \in Nat /\ now <= moment
  <2>1. now \in Nat /\ moment \in now .. now + Delay
    BY <1>0, <1>1, <1>2, <1>3, <1>4
  <2> QED
    BY <1>0, <1>1, <2>1
<1>6. Refresh(samples, started, now)
  BY <1>4 DEF Snapshot
<1>7. /\ newest' \in {newest, now} /\ used' = now /\ started' = started
      /\ samples' \in Seq(Sample) /\ Len(samples') <= Len(arrivals')
      /\ \A i \in DOMAIN samples' : samples'[i] = arrivals'[Popped' + i]
      /\ \A i \in 1 .. Popped' : arrivals'[i].at < newest' - Window
      /\ SpeedIsOfWindow'
  BY <1>1, <1>3, <1>5, <1>6, Refreshed
<1>8. stamp' \in [SpeedThreads -> Nat \cup {None}]
      /\ \A s \in SpeedThreads : stamp'[s] # None => moment' \in stamp'[s] .. stamp'[s] + Delay
  BY <1>0, <1>1, <1>2, <1>3
<1>9. newest' \in 0 .. moment'
  BY <1>1, <1>3, <1>5, <1>7
<1> QED
  BY <1>1, <1>3, <1>5, <1>7, <1>8, <1>9 DEF SpeedInv

\* The sum of no samples is nothing.
LEMMA NoBytes == ASSUME NEW queue \in Seq(Sample) PROVE Bytes(queue, {}) = 0
BY BytesAdd, Zenon

\* With nothing arrived there is nothing to count.
LEMMA ForgottenIsOfWindow ==
    ASSUME arrivals = <<>>, interval = 0, elapsed = 0 PROVE SpeedIsOfWindow
<1>1. arrivals \in Seq(Sample) /\ \A time : Since(time) = {}
  BY DEF Since
<1>2. Bytes(arrivals, Since(newest - Window)) = 0
      /\ Bytes(arrivals, Since(used - Window - Delay)) = 0
  BY <1>1, NoBytes
<1> QED
  BY <1>2, SpeedAssumption DEF SpeedIsOfWindow

\* What is said stays true while nothing of it changes.
LEMMA StillOfWindow ==
    ASSUME SpeedIsOfWindow, UNCHANGED <<speed, seen>>
    PROVE  SpeedIsOfWindow' /\ Popped' = Popped
<1>1. /\ arrivals' = arrivals /\ used' = used /\ newest' = newest
      /\ samples' = samples /\ interval' = interval /\ elapsed' = elapsed
  BY DEF speed, seen
<1>2. Popped' = Popped
  BY <1>1 DEF Popped
<1>3. Since(newest - Window)' = Since(newest - Window)
      /\ Since(used - Window - Delay)' = Since(used - Window - Delay)
  BY <1>1 DEF Since
<1>4. Bytes(arrivals, Since(newest - Window))' = Bytes(arrivals, Since(newest - Window))
      /\ Bytes(arrivals, Since(used - Window - Delay))' = Bytes(arrivals, Since(used - Window - Delay))
  BY <1>1, <1>3, Zenon
<1>5. SpeedIsOfWindow'
  BY <1>1, <1>4, Zenon DEF SpeedIsOfWindow
<1> QED
  BY <1>2, <1>5

\* Clock readings, records, snapshots, resets and the passing of time keep the invariant.
LEMMA SpeedInductive == SpeedInv /\ [SpeedNext]_speedVars => SpeedInv'
<1> SUFFICES ASSUME SpeedInv, [SpeedNext]_speedVars PROVE SpeedInv'
  OBVIOUS
<1>0. Delay \in Nat /\ Window \in Nat
  BY SpeedAssumption
<1>1. ASSUME NEW t \in SpeedThreads, ReadClock(t) PROVE SpeedInv'
  <2>1. UNCHANGED <<moment, speed, seen>> /\ stamp' = [stamp EXCEPT ![t] = moment]
    BY <1>1 DEF ReadClock
  <2>2. /\ moment \in Nat /\ stamp \in [SpeedThreads -> Nat \cup {None}]
        /\ \A s \in SpeedThreads : stamp[s] # None => moment \in stamp[s] .. stamp[s] + Delay
    BY DEF SpeedInv
  <2>3. /\ stamp' \in [SpeedThreads -> Nat \cup {None}]
        /\ \A s \in SpeedThreads : stamp'[s] # None => moment' \in stamp'[s] .. stamp'[s] + Delay
    BY <1>0, <2>1, <2>2
  <2>4. SpeedIsOfWindow' /\ Popped' = Popped
    BY <2>1, StillOfWindow DEF SpeedInv
  <2> QED
    BY <2>1, <2>3, <2>4 DEF SpeedInv, speed, seen
<1>2. CASE ResetWindow
  <2>1. /\ samples' = <<>> /\ started' = moment /\ interval' = 0 /\ elapsed' = 0
        /\ arrivals' = <<>> /\ used' = moment /\ newest' = moment
        /\ UNCHANGED <<moment, stamp>>
    BY <1>2 DEF ResetWindow
  <2>2. SpeedIsOfWindow'
    <3>1. arrivals' \in Seq(Sample) /\ Since(newest - Window)' = {} /\ Since(used - Window - Delay)' = {}
      BY <2>1 DEF Since
    <3>2. Bytes(arrivals', {}) = 0
      BY <3>1, NoBytes
    <3>3. Bytes(arrivals, Since(newest - Window))' = 0
          /\ Bytes(arrivals, Since(used - Window - Delay))' = 0
      BY <3>1, <3>2, Zenon
    <3>4. interval' = 0 /\ interval' >= 0 /\ interval' <= 0 /\ elapsed' <= Window
      BY <1>0, <2>1
    <3> QED
      BY <3>3, <3>4, Zenon DEF SpeedIsOfWindow
  <2>3. /\ moment \in Nat /\ stamp \in [SpeedThreads -> Nat \cup {None}]
        /\ \A s \in SpeedThreads : stamp[s] # None => moment \in stamp[s] .. stamp[s] + Delay
    BY DEF SpeedInv
  <2>4. /\ samples' \in Seq(Sample) /\ arrivals' \in Seq(Sample) /\ Len(samples') = 0
        /\ Len(arrivals') = 0 /\ DOMAIN samples' = {} /\ DOMAIN arrivals' = {} /\ 1 .. Popped' = {}
    BY <2>1 DEF Popped
  <2>5. /\ moment' \in Nat /\ used' \in Nat /\ newest' \in 0 .. moment' /\ started' \in Nat \cup {None}
        /\ Len(samples') <= Len(arrivals')
    BY <2>1, <2>3, <2>4
  <2>6. /\ stamp' \in [SpeedThreads -> Nat \cup {None}]
        /\ \A s \in SpeedThreads : stamp'[s] # None => moment' \in stamp'[s] .. stamp'[s] + Delay
    BY <2>1, <2>3
  <2>7. /\ \A i \in DOMAIN samples' : samples'[i] = arrivals'[Popped' + i]
        /\ \A i \in 1 .. Popped' : arrivals'[i].at < newest' - Window
        /\ \A i \in DOMAIN arrivals' : arrivals'[i].at <= moment'
        /\ \A i, j \in DOMAIN arrivals' : i < j => arrivals'[i].at <= arrivals'[j].at + Delay
    BY <2>4, Zenon
  <2> QED
    BY <2>2, <2>4, <2>5, <2>6, <2>7, Zenon DEF SpeedInv
<1>3. CASE Passes
  <2>1. /\ UNCHANGED <<stamp, speed, seen>> /\ moment' = moment + 1
        /\ \A t \in SpeedThreads : stamp[t] # None => moment < stamp[t] + Delay
    BY <1>3 DEF Passes
  <2>2. /\ moment \in Nat /\ stamp \in [SpeedThreads -> Nat \cup {None}] /\ newest \in 0 .. moment
        /\ \A s \in SpeedThreads : stamp[s] # None => moment \in stamp[s] .. stamp[s] + Delay
        /\ arrivals \in Seq(Sample) /\ \A i \in DOMAIN arrivals : arrivals[i].at <= moment
    BY DEF SpeedInv
  <2>3. ASSUME NEW s \in SpeedThreads, stamp[s] # None PROVE moment + 1 \in stamp[s] .. stamp[s] + Delay
    <3>1. stamp[s] \in Nat /\ moment \in stamp[s] .. stamp[s] + Delay /\ moment < stamp[s] + Delay
      BY <2>1, <2>2, <2>3
    <3> QED
      BY <1>0, <2>2, <3>1
  <2>4. \A i \in DOMAIN arrivals : arrivals[i].at <= moment + 1
    <3>1. \A i \in DOMAIN arrivals : arrivals[i] \in Sample
      BY <2>2
    <3>2. \A i \in DOMAIN arrivals : arrivals[i].at \in Nat
      BY <3>1 DEF Sample
    <3> QED
      BY <2>2, <3>2
  <2>5. moment' \in Nat /\ newest' \in 0 .. moment'
    BY <2>1, <2>2 DEF seen
  <2>6. SpeedIsOfWindow' /\ Popped' = Popped
    BY <2>1, StillOfWindow DEF SpeedInv
  <2> QED
    BY <2>1, <2>2, <2>3, <2>4, <2>5, <2>6 DEF SpeedInv, speed, seen
<1>4. CASE UNCHANGED speedVars
  <2>1. SpeedIsOfWindow' /\ Popped' = Popped
    BY <1>4, StillOfWindow DEF SpeedInv, speedVars
  <2> QED
    BY <1>4, <2>1 DEF SpeedInv, speedVars, speed, seen
<1> QED
  BY <1>1, <1>2, <1>3, <1>4, RecordKeeps, SnapshotKeeps DEF SpeedNext

\* Behind the speed there is always the end of what has arrived: what was popped was older
\* than the window when it was, and stamps applied late are late by no more than a thread's delay.
THEOREM SpeedInvariant == SpeedSpec => []SpeedInv
<1>1. SpeedInit => SpeedInv
  <2> SUFFICES ASSUME SpeedInit PROVE SpeedInv
    OBVIOUS
  <2>1. /\ moment = 0 /\ stamp = [t \in SpeedThreads |-> None]
        /\ samples = <<>> /\ started = None /\ interval = 0 /\ elapsed = 0
        /\ arrivals = <<>> /\ used = 0 /\ newest = 0
    BY DEF SpeedInit
  <2>2. SpeedIsOfWindow
    BY <2>1, ForgottenIsOfWindow
  <2>3. /\ samples \in Seq(Sample) /\ arrivals \in Seq(Sample) /\ Len(samples) = 0
        /\ Len(arrivals) = 0 /\ DOMAIN samples = {} /\ DOMAIN arrivals = {} /\ 1 .. Popped = {}
    BY <2>1 DEF Popped
  <2>4. /\ moment \in Nat /\ used \in Nat /\ newest \in 0 .. moment /\ started \in Nat \cup {None}
        /\ Len(samples) <= Len(arrivals)
    BY <2>1, <2>3
  <2>5. /\ stamp \in [SpeedThreads -> Nat \cup {None}]
        /\ \A s \in SpeedThreads : stamp[s] # None => moment \in stamp[s] .. stamp[s] + Delay
    BY <2>1
  <2>6. /\ \A i \in DOMAIN samples : samples[i] = arrivals[Popped + i]
        /\ \A i \in 1 .. Popped : arrivals[i].at < newest - Window
        /\ \A i \in DOMAIN arrivals : arrivals[i].at <= moment
        /\ \A i, j \in DOMAIN arrivals : i < j => arrivals[i].at <= arrivals[j].at + Delay
    BY <2>3, Zenon
  <2> QED
    BY <2>2, <2>3, <2>4, <2>5, <2>6, Zenon DEF SpeedInv
<1> QED
  BY <1>1, SpeedInductive, PTL DEF SpeedSpec

\* The speed reported counts all bytes within the window of the latest stamp, and none older than
\* the window and a delay, however record_body_bytes and speed_snapshot apply their stamps.
THEOREM SpeedAlwaysOfWindow == SpeedSpec => []SpeedIsOfWindow
<1>1. SpeedInv => SpeedIsOfWindow
  BY DEF SpeedInv
<1> QED
  BY <1>1, SpeedInvariant, PTL

-----------------------------------------------------------------------------
(* The composition                                                         *)

\* Every behaviour of the composition is, for each of its parts, a behaviour of that
\* part alone: what is proved of a part holds beside all the others.
THEOREM PartsBehave ==
    ComponentsSpec => /\ Spec /\ ReportSpec /\ JsSpec /\ GodotSpec
                      /\ SpeedSpec /\ BlockSpec /\ OptionSpec /\ ErrorSpec
<1>1. ComponentsInit => /\ Init /\ ReportInit /\ JsInit /\ GodotInit
                        /\ SpeedInit /\ BlockInit /\ OptionInit /\ ErrorInit
  BY DEF ComponentsInit
<1>2. [ComponentsNext]_componentsVars =>
          /\ [Next]_vars /\ [ReportNext]_reportVars /\ [JsNext]_jsVars /\ [GodotNext]_godotVars
          /\ [SpeedNext]_speedVars /\ [BlockNext]_blockVars /\ [OptionNext]_optionVars
          /\ [ErrorNext]_errorVars
  <2>1. SUFFICES ASSUME [ComponentsNext]_componentsVars
                 PROVE  /\ [Next]_vars /\ [ReportNext]_reportVars
                        /\ [JsNext]_jsVars /\ [GodotNext]_godotVars
                        /\ [SpeedNext]_speedVars /\ [BlockNext]_blockVars
                        /\ [OptionNext]_optionVars /\ [ErrorNext]_errorVars
    OBVIOUS
  <2>2. CASE UNCHANGED componentsVars
    BY <2>2 DEF componentsVars, hostVars, dataVars
  <2>3. CASE LockStep
    BY <2>3 DEF LockStep, hostVars, dataVars
  <2>4. CASE ReportStep
    BY <2>4 DEF ReportStep, dataVars
  <2>5. CASE JsStep
    BY <2>5 DEF JsStep, dataVars
  <2>6. CASE GodotStep
    BY <2>6 DEF GodotStep, dataVars
  <2>7. CASE SpeedStep
    BY <2>7 DEF SpeedStep, hostVars
  <2>8. CASE DigestStep
    BY <2>8 DEF DigestStep, hostVars
  <2>9. CASE OptionStep
    BY <2>9 DEF OptionStep, hostVars
  <2>10. CASE ErrorStep
    BY <2>10 DEF ErrorStep, hostVars
  <2>11. QED
    BY <2>1, <2>2, <2>3, <2>4, <2>5, <2>6, <2>7, <2>8, <2>9, <2>10 DEF ComponentsNext
<1>3. QED
  BY <1>1, <1>2, PTL DEF ComponentsSpec, Spec, ReportSpec, JsSpec, GodotSpec, SpeedSpec,
                         BlockSpec, OptionSpec, ErrorSpec
=============================================================================
