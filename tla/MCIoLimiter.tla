---------------------------- MODULE MCIoLimiter ----------------------------
(* IoLimiter with four users. *)
EXTENDS IoLimiter

CONSTANTS u1, u2, u3, u4

MCFourUsers == {u1, u2, u3, u4}
=============================================================================
