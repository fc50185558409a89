------------------------------ MODULE Lifecycle ------------------------------
(***************************************************************************)
(* The lifecycle of a download (DownloadLifecycle in takanawa-http         *)
(* state.rs): what each request and each report of the background task     *)
(* makes of the current phase.  Every one of them is total; a request the  *)
(* phase does not expect leaves it alone.                                  *)
(***************************************************************************)

Phases == {"Created", "Starting", "Allocating", "Running", "Pausing", "Paused",
           "Verifying", "Cancelling", "Cancelled", "Completed", "Failed"}

\* Phases in which a task is at work, or asked to stop, short of verification.
Active == {"Starting", "Allocating", "Running", "Pausing"}

Moved(p, from, to) == IF p \in from THEN to ELSE p

RequestStart(p) == Moved(p, {"Created", "Paused", "Cancelled", "Completed", "Failed"}, "Starting")
MarkAllocating(p) == Moved(p, {"Starting", "Running"}, "Allocating")
MarkRunning(p) == Moved(p, {"Starting", "Allocating", "Paused"}, "Running")
MarkVerifying(p) == Moved(p, {"Running"}, "Verifying")
RequestPause(p) == Moved(p, Active, "Pausing")
MarkPaused(p) == Moved(p, Active, "Paused")
RequestCancel(p) == IF p = "Created" THEN "Cancelled"
                    ELSE Moved(p, Active \cup {"Paused"}, "Cancelling")

MarkCancelled(p) == Moved(p, Active \cup {"Created", "Paused", "Cancelling"}, "Cancelled")

\* Mutant: verification is forgotten.
MarkCompletedRunning(p) == Moved(p, {"Running"}, "Completed")

MarkCompleted(p) == Moved(p, {"Running", "Verifying"}, "Completed")
MarkFailed(p) == "Failed"
=============================================================================
