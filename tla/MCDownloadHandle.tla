-------------------------- MODULE MCDownloadHandle --------------------------
(* DownloadHandle with one or two calling threads. *)
EXTENDS DownloadHandle

CONSTANTS t1, t2

MCOneThread == {t1}
MCTwoThreads == {t1, t2}
=============================================================================
