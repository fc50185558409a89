---------------------------- MODULE MCComponents ----------------------------
(***************************************************************************)
(* Components for TLC: three processes at one part file; a user's thread,  *)
(* a worker and two timers beneath the callback; two JavaScript calls in   *)
(* progress at once; two configurations of the Godot node; two chunk tasks *)
(* and a reporter over a window of one tick; blocks of 8 bytes with a      *)
(* length of two, up to four blocks and a bit; two callers with two        *)
(* algorithms and two contents; errors whose messages differ in length.    *)
(***************************************************************************)
EXTENDS Components

CONSTANTS p1, p2, p3, user, worker, m1, m2, c1, c2, fetch1, fetch2, host, x, y,
          short, long, refusal

MCThreeProcesses == {p1, p2, p3}
MCThreads == {user, worker}
MCSetters == {user}
MCTimers == {m1, m2}
MCCallers == {c1, c2}
MCFetchers == {fetch1, fetch2}
MCHosts == {host}
MCContents == {x, y}
MCTaskErrors == {short, long}
MCCallErrors == {refusal}
MCMessageLen(error) == IF error = short THEN 1 ELSE IF error = long THEN 3 ELSE 2
=============================================================================
