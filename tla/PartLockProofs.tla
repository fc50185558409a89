---------------------------- MODULE PartLockProofs ----------------------------
(***************************************************************************)
(* Exclusion on a part file, for any number of processes.  Until a target  *)
(* is there no name is unlinked, so all lock files that are open are the   *)
(* one its name leads to, and who works on the part file owns its lock.    *)
(* Once a target is there nobody begins to promote another.                *)
(***************************************************************************)
EXTENDS PartLock, TLAPS

USE MaxFilesAssumption, NobodyAssumption

\* Where a process stands says whether it has the lock file open.
LockTyped ==
    /\ TypeOK
    /\ \A p \in Processes : pc[p] = "lock" => lockfile[p] # 0
    /\ \A p \in Processes : pc[p] \in {"closed", "lockfile", "unlink"} => lockfile[p] = 0

\* Types are kept when a process lets go of its files.
LEMMA DropTyped ==
    ASSUME LockTyped, NEW p \in Processes, Drop(p) PROVE LockTyped'
<1> USE DEF LockTyped, TypeOK, Drop, Unlocked, Files, names
<1>1. TypeOK'
  OBVIOUS
<1> QED
  BY <1>1

\* Types are kept by every step.
LEMMA LockTypedInductive ==
    ASSUME LockTyped, [Next]_vars PROVE LockTyped'
<1> USE DEF LockTyped, TypeOK, Goto, Files, names, opened
<1>1. ASSUME NEW p \in Processes, CheckTarget(p) PROVE LockTyped'
  BY <1>1 DEF CheckTarget
<1>2. ASSUME NEW p \in Processes, OpenLockFile(p) PROVE LockTyped'
  BY <1>2 DEF OpenLockFile
<1>3. ASSUME NEW p \in Processes, Lock(p) PROVE LockTyped'
  BY <1>3 DEF Lock
<1>4. ASSUME NEW p \in Processes, Inspect(p) PROVE LockTyped'
  BY <1>4 DEF Inspect
<1>5. ASSUME NEW p \in Processes, Create(p) PROVE LockTyped'
  BY <1>5 DEF Create
<1>6. ASSUME NEW p \in Processes, FinalizeBegins(p) PROVE LockTyped'
  BY <1>6 DEF FinalizeBegins
<1>7. ASSUME NEW p \in Processes, Rename(p) PROVE LockTyped'
  BY <1>7 DEF Rename
<1>8. ASSUME NEW p \in Processes, Unlock(p) PROVE LockTyped'
  BY <1>8 DEF Unlock, Unlocked
<1>9. ASSUME NEW p \in Processes, Unlink(p) PROVE LockTyped'
  BY <1>9 DEF Unlink
<1>10. ASSUME NEW p \in Processes, Busy(p) \/ CreateRefused(p) \/ FinalizeRefused(p) \/ Close(p)
       PROVE  LockTyped'
  BY <1>10, DropTyped DEF Busy, CreateRefused, FinalizeRefused, Close
<1>11. CASE UNCHANGED vars
  BY <1>11 DEF vars
<1> QED
  BY <1>1, <1>2, <1>3, <1>4, <1>5, <1>6, <1>7, <1>8, <1>9, <1>10, <1>11 DEF Next

\* Every variable keeps its type, and a lock belongs to a process that has its file
\* open.
THEOREM LockTypeCorrect == Spec => []LockTyped
<1>1. Init => LockTyped
  BY DEF Init, LockTyped, TypeOK, Files
<1> QED
  BY <1>1, LockTypedInductive, PTL DEF Spec

-----------------------------------------------------------------------------

\* Until there is a target, one process at most is at work between lock and rename.
LEMMA WorkersExclude ==
    ASSUME LockTyped, LockInv, target = 0, NEW p \in Processes, NEW q \in Processes,
           pc[p] \in Working, pc[q] \in Working
    PROVE  p = q
<1>1. lockfile[p] = lockname /\ lockfile[q] = lockname
  BY DEF LockInv
<1> QED
  BY <1>1 DEF LockInv

\* A process that lets go of its files leaves the lock as it is for the others.
LEMMA DropKeepsLockInv ==
    ASSUME LockTyped, LockInv, NEW p \in Processes, Drop(p) PROVE LockInv'
BY DEF LockTyped, TypeOK, LockInv, Drop, Unlocked, Files, names, Working

\* The invariant is kept by every step.
LEMMA LockInvInductive ==
    ASSUME LockTyped, LockTyped', LockInv, [Next]_vars PROVE LockInv'
<1> USE DEF LockTyped, TypeOK, LockInv, Goto, Files, names, opened, Working
<1>1. ASSUME NEW p \in Processes, CheckTarget(p) PROVE LockInv'
  BY <1>1 DEF CheckTarget
<1>2. ASSUME NEW p \in Processes, OpenLockFile(p) PROVE LockInv'
  BY <1>2 DEF OpenLockFile
<1>3. ASSUME NEW p \in Processes, Lock(p) PROVE LockInv'
  BY <1>3 DEF Lock
<1>4. ASSUME NEW p \in Processes, Inspect(p) PROVE LockInv'
  BY <1>4 DEF Inspect
<1>5. ASSUME NEW p \in Processes, Create(p) PROVE LockInv'
  BY <1>5 DEF Create
<1>6. ASSUME NEW p \in Processes, FinalizeBegins(p) PROVE LockInv'
  BY <1>6 DEF FinalizeBegins
<1>7. ASSUME NEW p \in Processes, Rename(p) PROVE LockInv'
  <2>1. target = 0 /\ part # 0 /\ target' = part /\ pc[p] = "rename"
    BY <1>7 DEF Rename
  <2>2. \A q \in Processes : pc[q] = "rename" => q = p
    BY <2>1, WorkersExclude
  <2> QED
    BY <1>7, <2>1, <2>2 DEF Rename
<1>8. ASSUME NEW p \in Processes, Unlock(p) PROVE LockInv'
  BY <1>8 DEF Unlock, Unlocked
<1>9. ASSUME NEW p \in Processes, Unlink(p) PROVE LockInv'
  BY <1>9 DEF Unlink
<1>10. ASSUME NEW p \in Processes, Busy(p) \/ CreateRefused(p) \/ FinalizeRefused(p) \/ Close(p)
       PROVE  LockInv'
  BY <1>10, DropKeepsLockInv DEF Busy, CreateRefused, FinalizeRefused, Close
<1>11. CASE UNCHANGED vars
  BY <1>11 DEF vars
<1> QED
  BY <1>1, <1>2, <1>3, <1>4, <1>5, <1>6, <1>7, <1>8, <1>9, <1>10, <1>11 DEF Next

\* Before the target is there, one lock file is all there is.
THEOREM LockInvariant == Spec => []LockInv
<1>1. Init => LockInv
  BY DEF Init, LockInv, Working
<1> QED
  BY <1>1, LockInvInductive, LockTypeCorrect, PTL DEF Spec

\* Until somebody promotes a part file, no two of any number of processes have it open.
THEOREM OneAtATimeUntilPromoted == Spec => []OneAtATimeBeforeTarget
<1>1. LockTyped /\ LockInv => OneAtATimeBeforeTarget
  BY WorkersExclude DEF LockInv, Working, OneAtATimeBeforeTarget, OneAtATime
<1> QED
  BY <1>1, LockTypeCorrect, LockInvariant, PTL

\* Whatever is unlinked under anybody's feet, a rename promotes the file its process
\* has verified.
THEOREM AlwaysPromotesItsOwn == Spec => []PromotesItsOwn
<1>1. LockTyped /\ LockInv => PromotesItsOwn
  BY DEF LockInv, PromotesItsOwn
<1> QED
  BY <1>1, LockTypeCorrect, LockInvariant, PTL

===============================================================================
