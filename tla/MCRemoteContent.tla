-------------------------- MODULE MCRemoteContent --------------------------
(***************************************************************************)
(* RemoteContent for TLC: a few bytes of content; bytes of two bits, so    *)
(* that three chunks need two bytes; offsets of which the longest part     *)
(* file does not fit.                                                      *)
(***************************************************************************)
EXTENDS RemoteContent
=============================================================================
