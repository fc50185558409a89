-------------------------------- MODULE MCFfi --------------------------------
(***************************************************************************)
(* Ffi for TLC: a thread that initialises and shuts down, a thread that    *)
(* uses one download with its progress callback, which may set callbacks   *)
(* and pause from inside, and the task of the download.                    *)
(***************************************************************************)
EXTENDS Ffi

CONSTANTS manager, user, d1

MCManagers == {manager}
MCUsers == {user}
MCDownloads == {d1}
MCSlots == {"progress"}
MCNestedCalls == {"set", "pause"}
=============================================================================
