------------------------------ MODULE LastError ------------------------------
(***************************************************************************)
(* How a host learns why a download failed, through the C ABI and the JNI  *)
(* functions (takanawa-ffi lib.rs).  An error is kept in two places: the   *)
(* progress, where the task's failure is recorded and a start clears it;   *)
(* and the TknwDownload, where a refused call leaves its own, message and  *)
(* status each under a mutex.  The progress comes first.  A message is     *)
(* asked for twice, once for its length and once to copy it, and anything  *)
(* may happen between any two of these steps.                              *)
(***************************************************************************)
EXTENDS Naturals

CONSTANTS
    Readers,       \* threads that ask for the message
    TaskErrors,    \* errors a run may fail with
    CallErrors,    \* errors a call may be refused with
    MessageLen(_), \* the length of an error's message
    MaxErrors,     \* bound on the errors recorded
    NoError

ASSUME ErrorAssumption ==
    /\ NoError \notin TaskErrors \cup CallErrors
    /\ \A error \in TaskErrors \cup CallErrors : MessageLen(error) \in Nat

VARIABLES
    running,  \* the task runs
    progress, \* last_error of the progress, with its code
    message,  \* last_error of the TknwDownload
    status,   \* last_status of the TknwDownload
    refusing, \* the error a call is being refused with, its status not stored yet
    errors,   \* errors recorded so far
    reader,   \* per reader: where it is, the length it was told, its result
    held      \* history: per reader, what it could have found in either place since it
              \* began, and whether it could have found nothing

recorded == <<running, progress, message, status, refusing, errors>>
errorVars == <<recorded, reader, held>>

Copy(error, len) == [of |-> error, len |-> len]
Whole(error) == Copy(error, MessageLen(error))

ErrorInit ==
    /\ running = FALSE /\ progress = NoError /\ message = NoError /\ status = NoError
    /\ refusing = NoError /\ errors = 0
    /\ reader = [r \in Readers |-> [at |-> "idle", len |-> 0, result |-> Copy(NoError, 0)]]
    /\ held = [r \in Readers |-> {}]

\* What last_error would find, once it is all written.
Effective(p, m) == IF p # NoError THEN p ELSE m

\* Every reader under way could now find these.
Witnessed(p, m) ==
    held' = [r \in Readers |->
                IF reader[r].at \in {"idle", "done"} THEN held[r]
                ELSE held[r] \cup ({p, m} \ {NoError}) \cup ({Effective(p, m)} \cap {NoError})]

-----------------------------------------------------------------------------

\* start_on clears the error.
Starts ==
    /\ ~running
    /\ running' = TRUE /\ progress' = NoError
    /\ Witnessed(NoError, message)
    /\ UNCHANGED <<message, status, refusing, errors, reader>>

\* mark_failed, or an end without an error.
RunEnds ==
    /\ running
    /\ running' = FALSE
    /\ \/ UNCHANGED <<progress, errors, held>>
       \/ /\ errors < MaxErrors
          /\ errors' = errors + 1
          /\ progress' \in TaskErrors
          /\ Witnessed(progress', message)
    /\ UNCHANGED <<message, status, refusing, reader>>

\* store_last_error, of a call that is refused: the message, and then the status.
StoreMessage ==
    /\ refusing = NoError /\ errors < MaxErrors
    /\ errors' = errors + 1
    /\ refusing' \in CallErrors
    /\ message' = refusing'
    /\ Witnessed(progress, message')
    /\ UNCHANGED <<running, progress, status, reader>>

StoreStatus ==
    /\ refusing # NoError
    /\ status' = refusing
    /\ refusing' = NoError
    /\ UNCHANGED <<running, progress, message, errors, reader, held>>

-----------------------------------------------------------------------------
(* A reader                                                                *)

AskForMessage(r) ==
    /\ reader[r].at \in {"idle", "done"}
    /\ reader' = [reader EXCEPT ![r] = [at |-> "size", len |-> 0, result |-> Copy(NoError, 0)]]
    /\ held' = [held EXCEPT ![r] = ({progress, message} \ {NoError})
                                     \cup ({Effective(progress, message)} \cap {NoError})]
    /\ UNCHANGED recorded

\* The first call to tknw_download_last_error, with error found: a buffer of length 0
\* is too small, and the length it needs is written all the same.
Sized(r, error) ==
    reader' = [reader EXCEPT ![r].at = "copy",
                             ![r].len = IF error = NoError THEN 1 ELSE MessageLen(error) + 1]

\* Mutant: the copy is cut to the buffer.
CopiedShort(r, error) ==
    reader' = [reader EXCEPT ![r].at = "done", ![r].result =
                  IF error = NoError THEN Copy(NoError, 0)
                  ELSE IF MessageLen(error) + 1 > reader[r].len THEN Copy(error, reader[r].len - 1)
                  ELSE Whole(error)]

\* The second: what no longer fits is not copied, and the JNI function returns "".
Copied(r, error) ==
    reader' = [reader EXCEPT ![r].at = "done", ![r].result =
                  IF error = NoError \/ MessageLen(error) + 1 > reader[r].len
                  THEN Copy(NoError, 0) ELSE Whole(error)]

Answer(r, error) ==
    IF reader[r].at \in {"size", "size_own"} THEN Sized(r, error) ELSE Copied(r, error)

\* The snapshot: with an error of its own the TknwDownload's is not looked at.
ReadProgress(r) ==
    /\ reader[r].at \in {"size", "copy"}
    /\ IF progress # NoError THEN Answer(r, progress)
       ELSE reader' = [reader EXCEPT ![r].at = IF @ = "size" THEN "size_own" ELSE "copy_own"]
    /\ UNCHANGED <<recorded, held>>

ReadMessage(r) ==
    /\ reader[r].at \in {"size_own", "copy_own"}
    /\ Answer(r, message)
    /\ UNCHANGED <<recorded, held>>

ErrorNext ==
    \/ Starts \/ RunEnds \/ StoreMessage \/ StoreStatus
    \/ \E r \in Readers : AskForMessage(r) \/ ReadProgress(r) \/ ReadMessage(r)

ErrorSpec == ErrorInit /\ [][ErrorNext]_errorVars

-----------------------------------------------------------------------------
(* Properties                                                              *)

\* A message read is the whole message of an error that was recorded while it was
\* asked for; none is read only if there was none for a moment, or if there was more
\* than one, the later longer than the one its length was taken of.
MessageIsWhole ==
    \A r \in Readers : reader[r].at = "done" =>
        LET result == reader[r].result
        IN  IF result.of # NoError THEN result.of \in held[r] /\ result = Whole(result.of)
            ELSE NoError \in held[r]
                 \/ \E a, b \in held[r] \ {NoError} : MessageLen(a) < MessageLen(b)

\* What makes it inductive: a reader under way could have found all that is recorded now,
\* or that nothing is; the length it was told was that of one such error, or of none.
ErrorInv ==
    /\ progress \in TaskErrors \cup {NoError} /\ message \in CallErrors \cup {NoError}
    /\ reader \in [Readers -> [at : {"idle", "size", "size_own", "copy", "copy_own", "done"},
                               len : Nat,
                               result : [of : TaskErrors \cup CallErrors \cup {NoError}, len : Nat]]]
    /\ held \in [Readers -> SUBSET (TaskErrors \cup CallErrors \cup {NoError})]
    /\ \A r \in Readers :
          /\ reader[r].at \notin {"idle", "done"} =>
                /\ {progress, message} \ {NoError} \subseteq held[r]
                /\ Effective(progress, message) = NoError => NoError \in held[r]
          /\ reader[r].at \in {"size_own", "copy_own"} /\ message = NoError => NoError \in held[r]
          /\ reader[r].at \in {"copy", "copy_own"} =>
                \/ reader[r].len = 1 /\ NoError \in held[r]
                \/ \E error \in held[r] \ {NoError} : reader[r].len = MessageLen(error) + 1
    /\ MessageIsWhole
=============================================================================
