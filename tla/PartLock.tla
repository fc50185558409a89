------------------------------ MODULE PartLock ------------------------------
(***************************************************************************)
(* Who may work on a part file: processes (or handles of one process) that *)
(* want the same target find each other through an advisory lock on a file *)
(* beside it (takanawa-core part_file.rs).  The lock belongs to the file   *)
(* the process opened, the names to the directory; the code checks the     *)
(* target first, opens the lock file by name, locks what it opened, and    *)
(* at the end unlinks the name.  Each system call is one action.           *)
(*                                                                         *)
(* As on Unix, an unlinked file stays lockable by those who have it open.  *)
(* The lock is not waited for, and dies with the process.                  *)
(***************************************************************************)
EXTENDS Naturals

CONSTANTS
    Processes,
    MaxFiles    \* bound on the lock files and on the part files created

ASSUME MaxFilesAssumption == MaxFiles \in Nat

VARIABLES
    lockname, \* the file that the name .part.lock leads to; 0 for none
    part,     \* the file that the name .part leads to; 0 for none
    target,   \* the file that the target's name leads to; 0 for none
    owner,    \* per lock file, the process that holds its lock
    pc,       \* per process, where open_or_create or finalize stands
    lockfile, \* per process, the lock file it has open; 0 for none
    file,     \* per process, the part file it has open; 0 for none
    locks,    \* lock files created so far
    parts     \* part files created so far

names == <<lockname, part, target>>
opened == <<lockfile, file>>
vars == <<names, owner, pc, opened, locks, parts>>

Files == 1 .. MaxFiles
Nobody == "nobody"
ASSUME NobodyAssumption == Nobody \notin Processes

\* Besides the types: whoever owns a lock has its file open.
TypeOK ==
    /\ {lockname, part, target} \subseteq 0 .. MaxFiles
    /\ owner \in [Files -> Processes \cup {Nobody}]
    /\ pc \in [Processes -> {"closed", "lockfile", "lock", "inspect", "create", "open",
                             "rename", "unlock", "unlink"}]
    /\ lockfile \in [Processes -> 0 .. MaxFiles]
    /\ file \in [Processes -> 0 .. MaxFiles]
    /\ locks \in 0 .. MaxFiles
    /\ parts \in 0 .. MaxFiles
    /\ \A f \in Files : owner[f] # Nobody => lockfile[owner[f]] = f

Init ==
    /\ lockname = 0 /\ part = 0 /\ target = 0
    /\ owner = [f \in Files |-> Nobody]
    /\ pc = [p \in Processes |-> "closed"]
    /\ lockfile = [p \in Processes |-> 0]
    /\ file = [p \in Processes |-> 0]
    /\ locks = 0 /\ parts = 0

\* A lock goes with the file it was taken through.
Unlocked(p) == [f \in Files |-> IF owner[f] = p THEN Nobody ELSE owner[f]]

Goto(p, from, to) ==
    /\ pc[p] = from
    /\ pc' = [pc EXCEPT ![p] = to]

\* The PartFile, or what there is of it, is dropped and its files closed.
Drop(p) ==
    /\ pc' = [pc EXCEPT ![p] = "closed"]
    /\ owner' = Unlocked(p)
    /\ lockfile' = [lockfile EXCEPT ![p] = 0]
    /\ file' = [file EXCEPT ![p] = 0]
    /\ UNCHANGED <<names, locks, parts>>

-----------------------------------------------------------------------------
(* open_or_create                                                          *)

\* The target is looked for before the lock is taken.
CheckTarget(p) ==
    /\ target = 0
    /\ Goto(p, "closed", "lockfile")
    /\ UNCHANGED <<names, owner, opened, locks, parts>>

\* acquire_lock: the lock file is opened under its name, or created ...
OpenLockFile(p) ==
    /\ Goto(p, "lockfile", "lock")
    /\ \/ /\ lockname # 0
          /\ lockfile' = [lockfile EXCEPT ![p] = lockname]
          /\ UNCHANGED <<lockname, locks>>
       \/ /\ lockname = 0
          /\ locks < MaxFiles
          /\ locks' = locks + 1
          /\ lockname' = locks'
          /\ lockfile' = [lockfile EXCEPT ![p] = locks']
    /\ UNCHANGED <<part, target, owner, file, parts>>

\* Mutant: a lock that is held is taken all the same.
LockAnyhow(p) ==
    /\ Goto(p, "lock", "inspect")
    /\ owner' = [owner EXCEPT ![lockfile[p]] = p]
    /\ UNCHANGED <<names, opened, locks, parts>>

\* ... and locked, whatever its name leads to by now,
Lock(p) ==
    /\ Goto(p, "lock", "inspect")
    /\ owner[lockfile[p]] = Nobody
    /\ owner' = [owner EXCEPT ![lockfile[p]] = p]
    /\ UNCHANGED <<names, opened, locks, parts>>

\* or found locked: PartBusy.
Busy(p) ==
    /\ pc[p] = "lock"
    /\ owner[lockfile[p]] # Nobody
    /\ Drop(p)

Inspect(p) ==
    /\ \/ /\ part # 0 /\ Goto(p, "inspect", "open")
          /\ file' = [file EXCEPT ![p] = part]
       \/ /\ part = 0 /\ Goto(p, "inspect", "create")
          /\ UNCHANGED file
    /\ UNCHANGED <<names, owner, lockfile, locks, parts>>

\* create_new under the name .part.
Create(p) ==
    /\ Goto(p, "create", "open")
    /\ part = 0
    /\ parts < MaxFiles
    /\ parts' = parts + 1
    /\ part' = parts'
    /\ file' = [file EXCEPT ![p] = parts']
    /\ UNCHANGED <<lockname, target, owner, lockfile, locks>>

CreateRefused(p) ==
    /\ pc[p] = "create"
    /\ part # 0
    /\ Drop(p)

-----------------------------------------------------------------------------
(* finalize                                                                *)

\* Mutant: the target is not looked for again.
FinalizeUnchecked(p) ==
    /\ Goto(p, "open", "rename")
    /\ UNCHANGED <<names, owner, opened, locks, parts>>

FinalizeBegins(p) ==
    /\ Goto(p, "open", "rename")
    /\ target = 0
    /\ UNCHANGED <<names, owner, opened, locks, parts>>

FinalizeRefused(p) ==
    /\ pc[p] = "open"
    /\ target # 0
    /\ Drop(p)

\* rename goes by the names, and replaces what the target's name leads to.
Rename(p) ==
    /\ Goto(p, "rename", "unlock")
    /\ part # 0
    /\ target' = part
    /\ part' = 0
    /\ file' = [file EXCEPT ![p] = 0]
    /\ UNCHANGED <<lockname, owner, lockfile, locks, parts>>

\* The lock file is closed, then unlinked under its name.
Unlock(p) ==
    /\ Goto(p, "unlock", "unlink")
    /\ owner' = Unlocked(p)
    /\ lockfile' = [lockfile EXCEPT ![p] = 0]
    /\ UNCHANGED <<names, file, locks, parts>>

Unlink(p) ==
    /\ Goto(p, "unlink", "closed")
    /\ lockname' = 0
    /\ UNCHANGED <<part, target, owner, opened, locks, parts>>

\* The PartFile is dropped unfinished, an error ends a call, or the process dies.
Close(p) ==
    /\ pc[p] # "closed"
    /\ Drop(p)

-----------------------------------------------------------------------------
Next ==
    \E p \in Processes :
        \/ CheckTarget(p) \/ OpenLockFile(p) \/ Lock(p) \/ Busy(p)
        \/ Inspect(p) \/ Create(p) \/ CreateRefused(p)
        \/ FinalizeBegins(p) \/ FinalizeRefused(p) \/ Rename(p) \/ Unlock(p) \/ Unlink(p)
        \/ Close(p)

Spec == Init /\ [][Next]_vars

-----------------------------------------------------------------------------
(* Properties                                                              *)

\* part_file.rs:12 and 27-28: a part file has "an exclusive lock", held for the
\* lifetime of the PartFile; no two have the same part open.  (Two processes keep
\* to it.  Of three, one unlinks the lock file that another has just locked, and
\* the third makes a new one.)
OneAtATime == \A p, q \in Processes : file[p] # 0 /\ file[p] = file[q] => p = q

\* Until somebody promotes a part file, any number of processes keeps to it.
OneAtATimeBeforeTarget == target = 0 => OneAtATime

\* The rename promotes the very file the process verified.
PromotesItsOwn == \A p \in Processes : pc[p] = "rename" => part = file[p]

Working == {"inspect", "create", "open", "rename"}

\* What makes it so: before the target is there the lock's name leads to the lock that
\* every process has open, and who works on the part file owns it; afterwards nobody
\* is about to promote.
LockInv ==
    /\ target = 0 =>
          /\ \A p \in Processes : lockfile[p] \in {0, lockname}
          /\ \A p \in Processes : pc[p] \notin {"unlock", "unlink"}
          /\ \A p \in Processes : pc[p] \in Working =>
                 lockfile[p] # 0 /\ owner[lockfile[p]] = p
          /\ \A p \in Processes : file[p] # 0 => pc[p] \in {"open", "rename"}
          /\ \A p \in Processes : pc[p] \in {"open", "rename"} => file[p] = part /\ part # 0
    /\ target # 0 => \A p \in Processes : pc[p] # "rename"

=============================================================================
