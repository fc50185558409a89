-------------------------- MODULE MCDownloadEngine --------------------------
(***************************************************************************)
(* Instances of DownloadEngine for TLC.  The bounds are small numbers given *)
(* in the configurations; the progress of a run is reset between runs, so   *)
(* two runs show what a first one may leave to a second.                    *)
(***************************************************************************)
EXTENDS DownloadEngine
=============================================================================
