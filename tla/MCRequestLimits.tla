--------------------------- MODULE MCRequestLimits ---------------------------
(***************************************************************************)
(* RequestLimits with three tasks, limits of which one may be 0, which     *)
(* counts as 1, and a rate at which a fragment's time is rounded up.       *)
(***************************************************************************)
EXTENDS RequestLimits

CONSTANTS u1, u2, u3

MCThreeUsers == {u1, u2, u3}
=============================================================================
